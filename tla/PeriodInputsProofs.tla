------------------------- MODULE PeriodInputsProofs -------------------------
(***************************************************************************)
(* Proofs about PeriodInputs, for any number of employees and of requests  *)
(* in progress.                                                            *)
(***************************************************************************)
EXTENDS PeriodInputs, TLAPS

Holds(pc) == pc \in {"attendance", "writing"}

\* The flags of a period, as FlagsAgree has them.
Flags(p) ==
    /\ p.status = "LOCKED" => p.locked
    /\ p.status \in {"NONE", "OPEN"} => ~p.locked

\* A request on the period loaded one that exists, that agreed with itself and
\* passed the handler's guard.
SeenIsSound(c) ==
    call[c].op \in PeriodOps =>
        /\ period.status # "NONE" /\ call[c].seen.status # "NONE"
        /\ Flags(call[c].seen) /\ MayStart(call[c].op, call[c].seen)

\* What a sync has read is still so: of the inputs, because it holds the row
\* of the period; of the sources, unless it is known that they changed.
ReadIsCurrent(c) ==
    /\ Holds(call[c].pc) =>
         /\ call[c].op \in LockOps
         /\ \A e \in call[c].clean : call[c].entries[e] = entry[e]
    /\ call[c].pc = "writing" =>
         /\ \A e \in call[c].clean : call[c].days[e] = days[e]
         /\ \A e \in Employees, k \in Types : call[c].found[e][k] <=> input[e][k] # <<>>

OneSync == \A c, d \in Calls : Holds(call[c].pc) /\ Holds(call[d].pc) => c = d

CallsAreSound == \A c \in Calls : SeenIsSound(c) /\ ReadIsCurrent(c)

Inv ==
    /\ TypeOK /\ FlagsAgree /\ OneRowPerInput /\ InputsFollowSources
    /\ NothingLeftToPush /\ OneSync /\ CallsAreSound

-----------------------------------------------------------------------------
LEMMA IdleFacts ==
    /\ Idle \in CallRecords /\ Idle.op = "none" /\ Idle.pc = "idle" /\ Idle.clean = {}
<1>1. (CHOOSE e \in Employees : TRUE) \in Employees
    BY InputsAssumption
<1> QED
    BY <1>1 DEF Idle, CallRecords, NoPeriod, Periods, NoEntry, Entries, Types

\* _upsert leaves one row with the amount, or none where there was none and
\* the amount is 0.
LEMMA UpsertFacts ==
    ASSUME NEW rows \in Seq(Nat), Len(rows) <= 1, NEW isFound \in BOOLEAN,
           isFound <=> rows # <<>>, NEW amount \in Nat
    PROVE  /\ Upserted(rows, isFound, amount) \in Seq(Nat)
           /\ Len(Upserted(rows, isFound, amount)) <= 1
           /\ Upserted(rows, isFound, amount)
                \in {<<amount>>} \cup (IF amount = 0 THEN {<<>>} ELSE {})
<1>1. CASE isFound
  <2>1. Len(rows) = 1
      BY <1>1
  <2>2. [rows EXCEPT ![1] = amount] = <<amount>>
      BY <2>1
  <2> QED
      BY <1>1, <2>2 DEF Upserted
<1>2. CASE ~isFound /\ amount = 0
    BY <1>2 DEF Upserted
<1>3. CASE ~isFound /\ amount # 0
  <2>0. rows = <<>>
      BY <1>3
  <2>1. Append(rows, amount) = <<amount>>
      BY <2>0
  <2> QED
      BY <1>3, <2>1 DEF Upserted
<1> QED
    BY <1>1, <1>2, <1>3

\* One call is replaced and nothing else changes.
LEMMA ReplaceCall ==
    ASSUME Inv, NEW c \in Calls, NEW q \in CallRecords,
           call' = [call EXCEPT ![c] = q], UNCHANGED <<period, entry, days, input, fresh>>,
           Holds(q.pc) => Syncing = {} \/ Holds(call[c].pc),
           SeenIsSound(c)', ReadIsCurrent(c)'
    PROVE  Inv'
<1>1. call' \in [Calls -> CallRecords] /\ call'[c] = q /\ \A d \in Calls \ {c} : call'[d] = call[d]
    BY DEF Inv, TypeOK
<1>2. TypeOK'
    BY <1>1 DEF Inv, TypeOK
<1>3. FlagsAgree' /\ OneRowPerInput' /\ InputsFollowSources' /\ NothingLeftToPush'
    BY DEF Inv, FlagsAgree, OneRowPerInput, InputsFollowSources, NothingLeftToPush
<1>4. OneSync'
    BY <1>1 DEF Inv, OneSync, Syncing, Holds
<1>5. ASSUME NEW d \in Calls, d # c PROVE SeenIsSound(d)' /\ ReadIsCurrent(d)'
    BY <1>1, <1>5 DEF Inv, CallsAreSound, SeenIsSound, ReadIsCurrent
<1>6. CallsAreSound'
    BY <1>5 DEF CallsAreSound
<1> QED
    BY <1>2, <1>3, <1>4, <1>6 DEF Inv

LEMMA ToIdle ==
    ASSUME Inv, NEW c \in Calls, call' = [call EXCEPT ![c] = Idle],
           UNCHANGED <<period, entry, days, input, fresh>>
    PROVE  Inv'
<1>1. call'[c] = Idle
    BY DEF Inv, TypeOK
<1>2. SeenIsSound(c)' /\ ReadIsCurrent(c)' /\ ~Holds(Idle.pc)
    BY <1>1, IdleFacts DEF SeenIsSound, ReadIsCurrent, Holds, PeriodOps, LockOps
<1> QED
    BY <1>2, IdleFacts, ReplaceCall

-----------------------------------------------------------------------------
\* Requests that load, and the sync that goes on reading.
LEMMA LoadsKeepInv ==
    ASSUME Inv, NEW c \in Calls,
           \/ \E op \in PeriodOps : LoadCycle(c, op)
           \/ \E e \in Employees : AdjustLoads(c, e) \/ EditChecks(c, e)
    PROVE  Inv'
<1> USE IdleFacts
<1>1. ASSUME NEW op \in PeriodOps, LoadCycle(c, op) PROVE Inv'
  <2>1. PICK q : q = [Idle EXCEPT !.op = op, !.pc = "loaded", !.seen = period]
      OBVIOUS
  <2>2. q \in CallRecords /\ q.op = op /\ q.pc = "loaded" /\ q.seen = period
      BY <2>1 DEF CallRecords, Inv, TypeOK
  <2>3. call' = [call EXCEPT ![c] = q] /\ UNCHANGED <<period, entry, days, input, fresh>>
      BY <1>1, <2>1 DEF LoadCycle
  <2>4. call'[c] = q
      BY <2>3 DEF Inv, TypeOK
  <2>5. SeenIsSound(c)'
      BY <1>1, <2>2, <2>3, <2>4 DEF SeenIsSound, LoadCycle, Inv, FlagsAgree, Flags
  <2>6. ReadIsCurrent(c)' /\ ~Holds(q.pc)
      BY <2>2, <2>4 DEF ReadIsCurrent, Holds
  <2> QED
      BY <2>2, <2>3, <2>5, <2>6, ReplaceCall
<1>2. ASSUME NEW e \in Employees, AdjustLoads(c, e) PROVE Inv'
  <2>1. PICK q : q = [Idle EXCEPT !.op = "adjust", !.pc = "loaded", !.emp = e, !.entry = entry[e]]
      OBVIOUS
  <2>2. q \in CallRecords /\ q.op = "adjust" /\ q.pc = "loaded"
      BY <2>1 DEF CallRecords, Inv, TypeOK
  <2>3. call' = [call EXCEPT ![c] = q] /\ UNCHANGED <<period, entry, days, input, fresh>>
      BY <1>2, <2>1 DEF AdjustLoads
  <2>4. call'[c] = q
      BY <2>3 DEF Inv, TypeOK
  <2>5. SeenIsSound(c)' /\ ReadIsCurrent(c)' /\ ~Holds(q.pc)
      BY <2>2, <2>4 DEF SeenIsSound, ReadIsCurrent, Holds, PeriodOps, LockOps
  <2> QED
      BY <2>2, <2>3, <2>5, ReplaceCall
<1>3. ASSUME NEW e \in Employees, EditChecks(c, e) PROVE Inv'
  <2>1. PICK q : q = [Idle EXCEPT !.op = "edit", !.pc = "loaded", !.emp = e]
      OBVIOUS
  <2>2. q \in CallRecords /\ q.op = "edit" /\ q.pc = "loaded"
      BY <2>1 DEF CallRecords
  <2>3. call' = [call EXCEPT ![c] = q] /\ UNCHANGED <<period, entry, days, input, fresh>>
      BY <1>3, <2>1 DEF EditChecks
  <2>4. call'[c] = q
      BY <2>3 DEF Inv, TypeOK
  <2>5. SeenIsSound(c)' /\ ReadIsCurrent(c)' /\ ~Holds(q.pc)
      BY <2>2, <2>4 DEF SeenIsSound, ReadIsCurrent, Holds, PeriodOps, LockOps
  <2> QED
      BY <2>2, <2>3, <2>5, ReplaceCall
<1> QED
    BY <1>1, <1>2, <1>3

LEMMA ReadsKeepInv ==
    ASSUME Inv, NEW c \in Calls, LockFlushes(c) \/ SyncReadsAttendance(c)
    PROVE  Inv'
<1>0. call[c] \in CallRecords /\ SeenIsSound(c) /\ ReadIsCurrent(c)
    BY DEF Inv, TypeOK, CallsAreSound
<1>1. CASE LockFlushes(c)
  <2>1. PICK q : q = [call[c] EXCEPT !.pc = "attendance", !.entries = entry, !.clean = Employees]
      OBVIOUS
  <2>2. /\ q \in CallRecords /\ q.pc = "attendance" /\ q.entries = entry
        /\ q.op = call[c].op /\ q.seen = call[c].seen
      BY <1>0, <2>1 DEF CallRecords, Inv, TypeOK
  <2>3. call' = [call EXCEPT ![c] = q] /\ UNCHANGED <<period, entry, days, input, fresh>>
      BY <1>1, <2>1 DEF LockFlushes
  <2>4. call'[c] = q
      BY <2>3 DEF Inv, TypeOK
  <2>5. SeenIsSound(c)'
      BY <1>0, <2>2, <2>3, <2>4 DEF SeenIsSound
  <2>6. ReadIsCurrent(c)' /\ Syncing = {}
      BY <1>1, <2>2, <2>3, <2>4 DEF ReadIsCurrent, Holds, LockFlushes
  <2> QED
      BY <2>2, <2>3, <2>5, <2>6, ReplaceCall
<1>2. CASE SyncReadsAttendance(c)
  <2>0. PICK found : found = [e \in Employees |-> [k \in Types |-> input[e][k] # <<>>]]
      OBVIOUS
  <2>1. PICK q : q = [call[c] EXCEPT !.pc = "writing", !.days = days, !.found = found]
      OBVIOUS
  <2>a. found \in [Employees -> [Types -> BOOLEAN]]
      BY <2>0
  <2>2. /\ q \in CallRecords /\ q.pc = "writing" /\ q.days = days /\ q.found = found
        /\ q.op = call[c].op /\ q.seen = call[c].seen
        /\ q.entries = call[c].entries /\ q.clean = call[c].clean
      BY <1>0, <2>1, <2>a DEF CallRecords, Inv, TypeOK
  <2>3. call' = [call EXCEPT ![c] = q] /\ UNCHANGED <<period, entry, days, input, fresh>>
      BY <1>2, <2>0, <2>1 DEF SyncReadsAttendance
  <2>4. call'[c] = q
      BY <2>3 DEF Inv, TypeOK
  <2>5. SeenIsSound(c)'
      BY <1>0, <2>2, <2>3, <2>4 DEF SeenIsSound
  <2>6. \A e \in Employees, k \in Types : found[e][k] <=> input[e][k] # <<>>
      BY <2>0
  <2>7. Holds(call[c].pc) /\ q.op \in LockOps /\ \A e \in q.clean : q.entries[e] = entry[e]
      BY <1>0, <1>2, <2>2 DEF ReadIsCurrent, Holds, SyncReadsAttendance
  <2>8. \A e \in q.clean : q.days[e] = days[e]
      BY <2>2
  <2>9. \A e \in Employees, k \in Types : call'[c].found[e][k] <=> input'[e][k] # <<>>
    <3>1. call'[c].found = found /\ input' = input
        BY <2>2, <2>3, <2>4
    <3> QED
        BY <2>6, <3>1
  <2>10. ReadIsCurrent(c)'
      BY <2>3, <2>4, <2>7, <2>8, <2>9, Zenon DEF ReadIsCurrent
  <2> QED
      BY <2>2, <2>3, <2>5, <2>7, <2>10, ReplaceCall
<1> QED
    BY <1>1, <1>2

-----------------------------------------------------------------------------
\* The sources of one employee change.
LEMMA TouchKeepsInv ==
    ASSUME Inv, NEW e \in Employees, NEW f \in [Calls -> CallRecords],
           \A c \in Calls : f[c] = call[c] \/ f[c] = Idle,
           call' = Touched(f, e), fresh' = fresh \ {e}, UNCHANGED <<period, input>>,
           entry' \in [Employees -> Entries], days' \in [Employees -> Nat],
           \A x \in Employees \ {e} : entry'[x] = entry[x] /\ days'[x] = days[x]
    PROVE  Inv'
<1> USE IdleFacts
<1>1. ASSUME NEW c \in Calls
      PROVE  /\ call'[c] \in CallRecords /\ call'[c].clean = f[c].clean \ {e}
             /\ call'[c].op = f[c].op /\ call'[c].pc = f[c].pc /\ call'[c].seen = f[c].seen
             /\ call'[c].entries = f[c].entries /\ call'[c].days = f[c].days
             /\ call'[c].found = f[c].found
  <2>1. call'[c] = [f[c] EXCEPT !.clean = f[c].clean \ {e}] /\ f[c] \in CallRecords
      BY DEF Touched
  <2> QED
      BY <2>1 DEF CallRecords
<1>2. call' \in [Calls -> CallRecords]
  <2>1. call' = [c \in Calls |-> [f[c] EXCEPT !.clean = f[c].clean \ {e}]]
      BY DEF Touched
  <2> QED
      BY <1>1, <2>1
<1>3. TypeOK'
    BY <1>2 DEF Inv, TypeOK
<1>4. FlagsAgree' /\ OneRowPerInput'
    BY DEF Inv, FlagsAgree, OneRowPerInput
<1>5. InputsFollowSources' /\ NothingLeftToPush'
    BY DEF Inv, TypeOK, InputsFollowSources, NothingLeftToPush
<1>6. OneSync'
    BY <1>1 DEF Inv, OneSync, Holds
<1>7. ASSUME NEW c \in Calls PROVE SeenIsSound(c)' /\ ReadIsCurrent(c)'
  <2>1. CASE f[c] = Idle
      BY <1>1, <2>1 DEF SeenIsSound, ReadIsCurrent, Holds, PeriodOps, LockOps
  <2>2. CASE f[c] = call[c]
    <3>1. SeenIsSound(c) /\ ReadIsCurrent(c) /\ call[c] \in CallRecords
        BY DEF Inv, TypeOK, CallsAreSound
    <3>2. SeenIsSound(c)'
        BY <1>1, <2>2, <3>1 DEF SeenIsSound
    <3>3. \A x \in call'[c].clean : x \in call[c].clean /\ x \in Employees \ {e}
        BY <1>1, <2>2, <3>1 DEF CallRecords
    <3>4. /\ call'[c].op = call[c].op /\ call'[c].pc = call[c].pc
          /\ call'[c].entries = call[c].entries /\ call'[c].days = call[c].days
          /\ call'[c].found = call[c].found
        BY <1>1, <2>2
    <3>5. \A x \in call'[c].clean : entry'[x] = entry[x] /\ days'[x] = days[x]
        BY <3>3
    <3>6. ReadIsCurrent(c)'
        BY <3>1, <3>3, <3>4, <3>5 DEF ReadIsCurrent
    <3> QED
        BY <3>2, <3>6
  <2> QED
      BY <2>1, <2>2
<1> QED
    BY <1>3, <1>4, <1>5, <1>6, <1>7 DEF Inv, CallsAreSound

LEMMA SourcesKeepInv ==
    ASSUME Inv,
           \/ \E e \in Employees : Attend(e) \/ \E h \in Hours : CreateOvertime(e, h)
           \/ \E c \in Calls : EditCommits(c) \/ \E h \in Hours : AdjustCommits(c, h)
    PROVE  Inv'
<1>0. /\ call \in [Calls -> CallRecords] /\ entry \in [Employees -> Entries]
      /\ days \in [Employees -> Nat] /\ Hours \subseteq Nat
    BY InputsAssumption DEF Inv, TypeOK
<1>1. ASSUME NEW e \in Employees, Attend(e) PROVE Inv'
  <2>1. days' \in [Employees -> Nat] /\ \A x \in Employees \ {e} : days'[x] = days[x]
      BY <1>0, <1>1 DEF Attend
  <2> QED
      BY <1>0, <1>1, <2>1, TouchKeepsInv DEF Attend
<1>2. ASSUME NEW e \in Employees, NEW h \in Hours, CreateOvertime(e, h) PROVE Inv'
  <2>1. entry' \in [Employees -> Entries] /\ \A x \in Employees \ {e} : entry'[x] = entry[x]
      BY <1>0, <1>2 DEF CreateOvertime, Entries
  <2> QED
      BY <1>0, <1>2, <2>1, TouchKeepsInv DEF CreateOvertime
<1>3. ASSUME NEW c \in Calls PROVE /\ call[c].emp \in Employees /\ call[c].entry \in Entries
                                   /\ [call EXCEPT ![c] = Idle] \in [Calls -> CallRecords]
                                   /\ \A d \in Calls : \/ [call EXCEPT ![c] = Idle][d] = call[d]
                                                       \/ [call EXCEPT ![c] = Idle][d] = Idle
    BY <1>0, IdleFacts DEF CallRecords
<1>4. ASSUME NEW c \in Calls, EditCommits(c) PROVE Inv'
  <2>1. PICK e \in Employees : e = call[c].emp
      BY <1>3
  <2>2. days' \in [Employees -> Nat] /\ \A x \in Employees \ {e} : days'[x] = days[x]
      BY <1>0, <1>4, <2>1 DEF EditCommits
  <2>3. PICK f : f = [call EXCEPT ![c] = Idle]
      OBVIOUS
  <2>4. /\ call' = Touched(f, e) /\ fresh' = fresh \ {e} /\ UNCHANGED <<period, entry, input>>
      BY <1>4, <2>1, <2>3 DEF EditCommits
  <2>5. f \in [Calls -> CallRecords] /\ \A d \in Calls : f[d] = call[d] \/ f[d] = Idle
      BY <1>3, <2>3
  <2> QED
      BY <1>0, <2>2, <2>4, <2>5, TouchKeepsInv
<1>5. ASSUME NEW c \in Calls, NEW h \in Hours, AdjustCommits(c, h) PROVE Inv'
  <2>1. PICK e \in Employees : e = call[c].emp
      BY <1>3
  <2>2. entry' \in [Employees -> Entries] /\ \A x \in Employees \ {e} : entry'[x] = entry[x]
    <3>1. entry[e].status \in {"NONE", "PENDING", "APPROVED", "PUSHED"} /\ entry[e].hours \in Nat
        BY <1>0 DEF Entries
    <3>2. entry' = [entry EXCEPT ![e] =
              [status |-> Written(call[c].entry.status, "APPROVED", entry[e].status),
               hours  |-> IF call[c].entry.status = "PENDING" THEN h
                          ELSE Written(call[c].entry.hours, h, entry[e].hours)]]
        BY <1>5, <2>1 DEF AdjustCommits
    <3> QED
        BY <1>0, <3>1, <3>2 DEF Written, Entries
  <2>3. PICK f : f = [call EXCEPT ![c] = Idle]
      OBVIOUS
  <2>4. /\ call' = Touched(f, e) /\ fresh' = fresh \ {e} /\ UNCHANGED <<period, days, input>>
      BY <1>5, <2>1, <2>3 DEF AdjustCommits
  <2>5. f \in [Calls -> CallRecords] /\ \A d \in Calls : f[d] = call[d] \/ f[d] = Idle
      BY <1>3, <2>3
  <2> QED
      BY <1>0, <2>2, <2>4, <2>5, TouchKeepsInv
<1> QED
    BY <1>1, <1>2, <1>4, <1>5

-----------------------------------------------------------------------------
\* What a handler writes back is a period that agrees with itself, whatever
\* has become of the one it loaded.
LEMMA FlushFacts ==
    ASSUME Inv, NEW c \in Calls, call[c].op \in PeriodOps \ {"delete_cycle"}
    PROVE  LET p == Flushed(call[c].op, call[c].seen)
           IN  p \in Periods /\ p.status # "NONE" /\ Flags(p)
<1>1. /\ call[c].seen \in Periods /\ period \in Periods /\ SeenIsSound(c) /\ Flags(period)
      /\ period.status # "NONE"
    BY DEF Inv, TypeOK, CallRecords, CallsAreSound, SeenIsSound, FlagsAgree, Flags
<1>2. PICK op \in PeriodOps \ {"delete_cycle"}, seen \in Periods :
        op = call[c].op /\ seen = call[c].seen
    BY <1>1
<1>3. MayStart(op, seen) /\ Flags(seen) /\ seen.status # "NONE"
    BY <1>1, <1>2 DEF SeenIsSound
<1>4. Flushed(op, seen) \in Periods /\ Flushed(op, seen).status # "NONE" /\ Flags(Flushed(op, seen))
  <2>1. CASE op = "lock_cycle"
      BY <1>1, <1>3, <2>1 DEF Flushed, Assigned, Written, Flags, MayStart, Periods
  <2>2. CASE op = "lock_attendance"
      BY <1>1, <1>3, <2>2 DEF Flushed, Assigned, Written, Flags, MayStart, Periods
  <2>3. CASE op = "unlock_attendance"
      BY <1>1, <1>3, <2>3 DEF Flushed, Assigned, Written, Flags, MayStart, Periods
  <2>4. CASE op = "reopen_cycle"
      BY <1>1, <1>3, <2>4 DEF Flushed, Assigned, Written, Flags, MayStart, Periods,
                              OpenPeriod, NoPeriod
  <2>5. CASE op = "void_cycle"
      BY <1>1, <1>3, <2>5 DEF Flushed, Assigned, Written, Flags, MayStart, Periods
  <2> QED
      BY <2>1, <2>2, <2>3, <2>4, <2>5 DEF PeriodOps, LockOps
<1> QED
    BY <1>2, <1>4

\* The period changes and one call, at most, ends.
LEMMA PeriodKeepsInv ==
    ASSUME Inv, period' \in Periods, Flags(period'),
           call' \in [Calls -> CallRecords], \A d \in Calls : call'[d] = call[d] \/ call'[d] = Idle,
           \A d \in Calls : call'[d].op \in PeriodOps => period'.status # "NONE",
           UNCHANGED <<entry, days, input, fresh>>
    PROVE  Inv'
<1> USE IdleFacts
<1>1. TypeOK' /\ FlagsAgree'
    BY DEF Inv, TypeOK, FlagsAgree, Flags
<1>2. OneRowPerInput' /\ InputsFollowSources' /\ NothingLeftToPush'
    BY DEF Inv, OneRowPerInput, InputsFollowSources, NothingLeftToPush
<1>3. OneSync'
    BY DEF Inv, OneSync, Holds
<1>4. ASSUME NEW d \in Calls PROVE SeenIsSound(d)' /\ ReadIsCurrent(d)'
  <2>1. CASE call'[d] = Idle
      BY <2>1 DEF SeenIsSound, ReadIsCurrent, Holds, PeriodOps, LockOps
  <2>2. CASE call'[d] = call[d]
      BY <2>2 DEF Inv, CallsAreSound, SeenIsSound, ReadIsCurrent
  <2> QED
      BY <2>1, <2>2
<1> QED
    BY <1>1, <1>2, <1>3, <1>4 DEF Inv, CallsAreSound

LEMMA CycleKeepsInv ==
    ASSUME Inv, CreateCycle \/ \E c \in Calls : ChangeCycle(c) \/ DeleteCycle(c)
    PROVE  Inv'
<1>0. call \in [Calls -> CallRecords]
    BY DEF Inv, TypeOK
<1>1. CASE CreateCycle
  <2>1. period' \in Periods /\ Flags(period') /\ period'.status # "NONE"
      BY <1>1 DEF CreateCycle, OpenPeriod, NoPeriod, Periods, Flags
  <2> QED
      BY <1>0, <1>1, <2>1, PeriodKeepsInv DEF CreateCycle
<1>2. ASSUME NEW c \in Calls, ChangeCycle(c) PROVE Inv'
  <2>1. call[c].op \in PeriodOps \ {"delete_cycle"}
      BY <1>2 DEF ChangeCycle, PeriodOps
  <2>2. period' \in Periods /\ Flags(period') /\ period'.status # "NONE"
      BY <1>2, <2>1, FlushFacts DEF ChangeCycle
  <2>3. /\ call' \in [Calls -> CallRecords]
        /\ \A d \in Calls : call'[d] = call[d] \/ call'[d] = Idle
      BY <1>0, <1>2, IdleFacts DEF ChangeCycle
  <2> QED
      BY <1>2, <2>2, <2>3, PeriodKeepsInv DEF ChangeCycle
<1>3. ASSUME NEW c \in Calls, DeleteCycle(c) PROVE Inv'
  <2> USE IdleFacts
  <2>1. /\ call' \in [Calls -> CallRecords]
        /\ \A d \in Calls : IF call[d].op \in PeriodOps THEN call'[d] = Idle ELSE call'[d] = call[d]
      BY <1>0, <1>3 DEF DeleteCycle
  <2>2. input' \in [Employees -> [Types -> Seq(Nat)]] /\ period' \in Periods /\ Flags(period')
      BY <1>3 DEF DeleteCycle, NoInputs, NoPeriod, Periods, Flags
  <2>3. TypeOK' /\ FlagsAgree'
      BY <1>3, <2>1, <2>2 DEF DeleteCycle, Inv, TypeOK, FlagsAgree, Flags
  <2>4. OneRowPerInput' /\ InputsFollowSources' /\ NothingLeftToPush'
      BY <1>3 DEF DeleteCycle, NoInputs, OneRowPerInput, InputsFollowSources, NothingLeftToPush
  <2>5. \A d \in Calls : call'[d].op \notin PeriodOps /\ ~Holds(call'[d].pc)
    <3>1. ASSUME NEW d \in Calls PROVE call'[d].op \notin PeriodOps /\ ~Holds(call'[d].pc)
      <4>1. CASE call[d].op \in PeriodOps
          BY <2>1, <4>1 DEF PeriodOps, LockOps, Holds
      <4>2. CASE call[d].op \notin PeriodOps
          BY <2>1, <4>2 DEF PeriodOps, Inv, CallsAreSound, ReadIsCurrent
      <4> QED
          BY <4>1, <4>2
    <3> QED
        BY <3>1
  <2>6. OneSync' /\ CallsAreSound'
      BY <2>5 DEF OneSync, CallsAreSound, SeenIsSound, ReadIsCurrent, Holds
  <2> QED
      BY <2>3, <2>4, <2>6 DEF Inv
<1> QED
    BY <1>1, <1>2, <1>3

-----------------------------------------------------------------------------
\* The commit of a lock.  It holds the row, so it alone has read the inputs
\* that it replaces, and what it counted is still so for the clean employees.
LEMMA LockKeepsInv ==
    ASSUME Inv, NEW c \in Calls, LockCommits(c)
    PROVE  Inv'
<1> USE IdleFacts
<1>0. /\ call \in [Calls -> CallRecords] /\ entry \in [Employees -> Entries]
      /\ days \in [Employees -> Nat] /\ input \in [Employees -> [Types -> Seq(Nat)]]
    BY DEF Inv, TypeOK
<1>1. PICK n \in [Employees -> Entries], m \in [Employees -> Nat] :
        n = call[c].entries /\ m = call[c].days
    BY <1>0 DEF CallRecords
<1>2. PICK found \in [Employees -> [Types -> BOOLEAN]], clean \in SUBSET Employees :
        found = call[c].found /\ clean = call[c].clean
    BY <1>0 DEF CallRecords
<1>3. /\ period' = Flushed(call[c].op, call[c].seen)
      /\ input' = [e \in Employees |-> [k \in Types |->
                IF InTotals(n[e], m[e])
                THEN Upserted(input[e][k], found[e][k], Worth(k, n[e], m[e]))
                ELSE input[e][k]]]
      /\ entry' = [e \in Employees |-> Pushed(n[e], entry[e])]
      /\ fresh' = clean /\ call' = [call EXCEPT ![c] = Idle] /\ days' = days
    BY <1>1, <1>2 DEF LockCommits
<1>4. /\ call[c].pc = "writing" /\ call[c].op \in LockOps
      /\ \A e \in clean : n[e] = entry[e] /\ m[e] = days[e]
      /\ \A e \in Employees, k \in Types : found[e][k] <=> input[e][k] # <<>>
  <2>1. ReadIsCurrent(c) /\ call[c].pc = "writing" /\ Holds(call[c].pc)
      BY DEF LockCommits, Inv, CallsAreSound, Holds
  <2> QED
      BY <1>1, <1>2, <2>1 DEF ReadIsCurrent
<1>5. period' \in Periods /\ Flags(period') /\ period'.status # "NONE"
  <2>1. call[c].op \in PeriodOps \ {"delete_cycle"}
      BY <1>4 DEF PeriodOps, LockOps
  <2> QED
      BY <1>3, <2>1, FlushFacts
<1>6. ASSUME NEW e \in Employees, NEW k \in Types PROVE Worth(k, n[e], m[e]) \in Nat
    BY DEF Worth, Entries
<1>7. ASSUME NEW e \in Employees, NEW k \in Types
      PROVE  /\ input'[e][k] \in Seq(Nat) /\ Len(input'[e][k]) <= 1
             /\ InTotals(n[e], m[e]) =>
                  input'[e][k] \in {<<Worth(k, n[e], m[e])>>}
                                     \cup (IF Worth(k, n[e], m[e]) = 0 THEN {<<>>} ELSE {})
  <2>1. PICK rows \in Seq(Nat), amount \in Nat, f \in BOOLEAN :
          rows = input[e][k] /\ amount = Worth(k, n[e], m[e]) /\ f = found[e][k]
      BY <1>0, <1>6
  <2>2. Len(rows) <= 1 /\ (f <=> rows # <<>>)
      BY <1>4, <2>1 DEF Inv, OneRowPerInput
  <2>3. input'[e][k] = IF InTotals(n[e], m[e]) THEN Upserted(rows, f, amount) ELSE rows
      BY <1>3, <2>1
  <2>4. /\ Upserted(rows, f, amount) \in Seq(Nat) /\ Len(Upserted(rows, f, amount)) <= 1
        /\ Upserted(rows, f, amount) \in {<<amount>>} \cup (IF amount = 0 THEN {<<>>} ELSE {})
      BY <2>2, UpsertFacts
  <2> QED
      BY <2>1, <2>2, <2>3, <2>4
<1>8. ASSUME NEW e \in Employees
      PROVE  /\ entry'[e] \in Entries /\ entry'[e].hours = entry[e].hours
             /\ n[e].status = "APPROVED" => entry'[e].status = "PUSHED"
             /\ n[e].status # "APPROVED" => entry'[e] = entry[e]
    BY <1>0, <1>3 DEF Pushed, Entries
<1>9. TypeOK'
  <2>1. input' \in [Employees -> [Types -> Seq(Nat)]]
    <3>1. PICK g : g = [e \in Employees |-> [k \in Types |-> input'[e][k]]]
        OBVIOUS
    <3>2. g \in [Employees -> [Types -> Seq(Nat)]]
        BY <1>7, <3>1
    <3>3. input' = g
        BY <1>3, <3>1
    <3> QED
        BY <3>2, <3>3
  <2>2. entry' \in [Employees -> Entries]
      BY <1>3, <1>8
  <2>3. call' \in [Calls -> CallRecords] /\ fresh' \subseteq Employees
      BY <1>0, <1>2, <1>3
  <2> QED
      BY <1>0, <1>3, <1>5, <2>1, <2>2, <2>3 DEF TypeOK
<1>10. FlagsAgree' /\ OneRowPerInput'
    BY <1>5, <1>7 DEF FlagsAgree, Flags, OneRowPerInput
<1>11. InputsFollowSources'
  <2>1. SUFFICES ASSUME NEW e \in clean, NEW k \in Types, InTotals(entry'[e], days'[e])
                 PROVE  input'[e][k] \in {<<Worth(k, entry'[e], days'[e])>>}
                          \cup (IF Worth(k, entry'[e], days'[e]) = 0 THEN {<<>>} ELSE {})
      BY <1>3 DEF InputsFollowSources
  <2>2. e \in Employees /\ n[e] = entry[e] /\ m[e] = days'[e]
      BY <1>2, <1>3, <1>4
  <2>3. /\ Counts(entry'[e]) <=> Counts(n[e])
        /\ entry'[e].hours = n[e].hours
      BY <1>8, <2>2 DEF Counts
  <2>4. InTotals(n[e], m[e]) /\ Worth(k, entry'[e], days'[e]) = Worth(k, n[e], m[e])
      BY <2>1, <2>2, <2>3 DEF InTotals, Worth
  <2> QED
      BY <1>7, <2>2, <2>4
<1>12. NothingLeftToPush'
    BY <1>2, <1>3, <1>4, <1>8 DEF NothingLeftToPush
<1>13. \A d \in Calls : ~Holds(call'[d].pc) /\ (call'[d] = call[d] \/ call'[d] = Idle)
  <2>1. \A d \in Calls : d # c => ~Holds(call[d].pc) /\ call'[d] = call[d]
      BY <1>0, <1>3, <1>4 DEF Inv, OneSync, Holds
  <2>2. call'[c] = Idle
      BY <1>0, <1>3
  <2> QED
      BY <2>1, <2>2 DEF Holds
<1>14. OneSync' /\ CallsAreSound'
  <2>1. ASSUME NEW d \in Calls PROVE SeenIsSound(d)' /\ ReadIsCurrent(d)'
    <3>1. ReadIsCurrent(d)'
        BY <1>13 DEF ReadIsCurrent, Holds
    <3>2. CASE call'[d] = Idle
        BY <3>1, <3>2 DEF SeenIsSound, PeriodOps, LockOps
    <3>3. CASE call'[d] = call[d]
        BY <1>5, <3>1, <3>3 DEF Inv, CallsAreSound, SeenIsSound
    <3> QED
        BY <1>13, <3>2, <3>3
  <2> QED
      BY <1>13, <2>1 DEF OneSync, CallsAreSound
<1> QED
    BY <1>9, <1>10, <1>11, <1>12, <1>14 DEF Inv

-----------------------------------------------------------------------------
LEMMA StartsInInv == Init => Inv
<1> SUFFICES ASSUME Init PROVE Inv
    OBVIOUS
<1> USE IdleFacts
<1>1. TypeOK
    BY DEF Init, TypeOK, NoPeriod, Periods, NoEntry, Entries, NoInputs
<1>2. FlagsAgree /\ OneRowPerInput /\ InputsFollowSources /\ NothingLeftToPush
    BY DEF Init, FlagsAgree, NoPeriod, OneRowPerInput, NoInputs, InputsFollowSources,
           NothingLeftToPush
<1>3. OneSync /\ CallsAreSound
    BY DEF Init, OneSync, CallsAreSound, SeenIsSound, ReadIsCurrent, Holds, PeriodOps, LockOps
<1> QED
    BY <1>1, <1>2, <1>3 DEF Inv

LEMMA NextKeepsInv == Inv /\ [Next]_vars => Inv'
<1> SUFFICES ASSUME Inv, [Next]_vars PROVE Inv'
    OBVIOUS
<1>1. CASE UNCHANGED vars
    BY <1>1 DEF vars, Inv, TypeOK, FlagsAgree, OneRowPerInput, InputsFollowSources,
                NothingLeftToPush, OneSync, CallsAreSound, SeenIsSound, ReadIsCurrent
<1>2. CASE CreateCycle
    BY <1>2, CycleKeepsInv
<1>3. ASSUME NEW c \in Calls, \E op \in PeriodOps : LoadCycle(c, op) PROVE Inv'
    BY <1>3, LoadsKeepInv
<1>4. ASSUME NEW c \in Calls, ChangeCycle(c) \/ DeleteCycle(c) PROVE Inv'
    BY <1>4, CycleKeepsInv
<1>5. ASSUME NEW c \in Calls, LockFlushes(c) \/ SyncReadsAttendance(c) PROVE Inv'
    BY <1>5, ReadsKeepInv
<1>6. ASSUME NEW c \in Calls, LockCommits(c) PROVE Inv'
    BY <1>6, LockKeepsInv
<1>7. ASSUME NEW c \in Calls, \E e \in Employees : AdjustLoads(c, e) \/ EditChecks(c, e) PROVE Inv'
    BY <1>7, LoadsKeepInv
<1>8. ASSUME NEW c \in Calls, EditCommits(c) \/ \E h \in Hours : AdjustCommits(c, h) PROVE Inv'
    BY <1>8, SourcesKeepInv
<1>9. ASSUME NEW c \in Calls, Rollback(c) PROVE Inv'
    BY <1>9, ToIdle DEF Rollback
<1>10. ASSUME \E e \in Employees : Attend(e) \/ \E h \in Hours : CreateOvertime(e, h) PROVE Inv'
    BY <1>10, SourcesKeepInv
<1> QED
    BY <1>1, <1>2, <1>3, <1>4, <1>5, <1>6, <1>7, <1>8, <1>9, <1>10 DEF Next

\* The inductive invariant: the properties, one sync at a time, and that what
\* a sync has read of the inputs and of the clean sources is still so.
THEOREM PeriodInvHolds == Spec => []Inv
    BY StartsInInv, NextKeepsInv, PTL DEF Spec

\* Every variable keeps its type.
THEOREM PeriodTypeCorrect == Spec => []TypeOK
<1>1. Inv => TypeOK
    BY DEF Inv
<1> QED
    BY <1>1, PeriodInvHolds, PTL

\* No interleaving of locks, unlocks, reopenings, deletions and corrections
\* leaves an employee with two system-owned inputs of one type.
THEOREM InputsAreSingle == Spec => []OneRowPerInput
<1>1. Inv => OneRowPerInput
    BY DEF Inv
<1> QED
    BY <1>1, PeriodInvHolds, PTL

\* An employee whose sources are those the last lock read has inputs of what
\* they are worth, pushed entries of earlier locks included.
THEOREM InputsAreWorth == Spec => []InputsFollowSources
<1>1. Inv => InputsFollowSources
    BY DEF Inv
<1> QED
    BY <1>1, PeriodInvHolds, PTL

\* A lock leaves no overtime entry that it read as APPROVED unpushed.
THEOREM OvertimeIsPushed == Spec => []NothingLeftToPush
<1>1. Inv => NothingLeftToPush
    BY DEF Inv
<1> QED
    BY <1>1, PeriodInvHolds, PTL

\* Stale periods written back never make is_locked and the status disagree.
THEOREM PeriodFlagsAgree == Spec => []FlagsAgree
<1>1. Inv => FlagsAgree
    BY DEF Inv
<1> QED
    BY <1>1, PeriodInvHolds, PTL

=============================================================================
