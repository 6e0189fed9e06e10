------------------------ MODULE PayrollSerialProofs ------------------------
(***************************************************************************)
(* Proofs about PayrollRun for calls that do not overlap, for every number *)
(* of periods, users and arrears, with faults and redelivered tasks.  Each *)
(* handler loads the run and writes it later without looking again, so     *)
(* that dual control, the closed books and the settlement of a period rest *)
(* on nobody else writing in between.                                      *)
(***************************************************************************)
EXTENDS PayrollProofs, FiniteSetTheorems

\* No two calls run at the same time.
OneCall == \A s, t \in Slots : s = t

\* Dual control of one run object.
Dual(m) ==
  MakerChecker =>
    /\ m.status \in {"APPROVED", "LOCKED", "PAID"} => m.approved \notin Makers(m)
    /\ m.status \in Closed => m.finalized \notin Makers(m)

\* A closed run changes in one way only, but for a retry.
Legal(old, new) == old.status \in Closed => old.status = "LOCKED" /\ new.status = "PAID"

Calculating == {"processing", "claimed", "computed"}

(***************************************************************************)
(* Facts about the operators.                                              *)
(***************************************************************************)

LEMMA DualControlIsDual == DualControl <=> \A p \in Periods : Dual(run[p])
  BY DEF DualControl, Dual, Makers

\* An object that was loaded from the row as it is now is written back whole.
LEMMA FlushCurrentRun ==
  ASSUME NEW old \in Run, NEW new \in Run
  PROVE  FlushRun(old, new, old) = new
<1>1. \A a, b : Written(a, b, a) = b
  BY DEF Written
<1>2. FlushRun(old, new, old) =
        [status |-> new.status, created |-> new.created, processed |-> new.processed,
         approved |-> new.approved, finalized |-> new.finalized]
  BY <1>1 DEF FlushRun
<1> QED
  BY <1>2 DEF Run

\* What a call read of a payslip, but for its payment status, is still so.
Seen(saw, row) == saw.exists = row.exists /\ saw.emi = row.emi /\ saw.arrears = row.arrears

LEMMA FlushSeenSlip ==
  ASSUME NEW old, NEW new, NEW row, Seen(old, row)
  PROVE  /\ FlushSlip(old, new, row).exists
         /\ FlushSlip(old, new, row).emi = new.emi
         /\ FlushSlip(old, new, row).arrears = new.arrears
<1>1. \A a, b : Written(a, b, a) = b
  BY DEF Written
<1> QED
  BY <1>1 DEF FlushSlip, Seen

\* A run that is neither approved nor closed has nothing to control.
LEMMA OpenIsDual ==
  ASSUME NEW m, m.status \notin {"APPROVED"} \cup Closed
  PROVE  Dual(m)
  BY DEF Dual, Closed

LEMMA StatusNames ==
  /\ {"NONE", "DRAFT", "VALIDATED", "PROCESSING", "PROCESSED", "PENDING_APPROVAL",
      "APPROVED", "REJECTED", "CANCELLED", "LOCKED", "FINALIZED", "PAID"} \subseteq Statuses
  /\ Closed = {"LOCKED", "FINALIZED", "PAID"}
  BY DEF Statuses, Closed

(***************************************************************************)
(* What a handler leaves to be committed is legal, if the run it was       *)
(* loaded from is.                                                         *)
(***************************************************************************)
Prepared(old, new, after) ==
  /\ new \in Run /\ Dual(new)
  /\ after = "processing" => new.status = "PROCESSING"
  /\ after = "retried" => new.status = "VALIDATED"
  /\ after # "retried" => Legal(old, new)

LEMMA RequestsPrepare ==
  ASSUME TypeOK, DualControl, NEW s \in Slots, Request(s), ~CreateRun(s)
  PROVE  \E p \in Periods, u \in Users \cup {NoUser}, new \in Run,
            after \in {"idle", "retried", "processing"} :
            Load(s, p, u, new, after) /\ Prepared(run[p], new, after)
<1>0. \A p \in Periods : run[p] \in Run /\ Dual(run[p])
  BY DualControlIsDual DEF TypeOK
<1> USE StatusNames
<1>1. CASE ValidateRun(s)
  <2>1. PICK p \in Periods :
          /\ run[p].status = "DRAFT"
          /\ Load(s, p, NoUser, [run[p] EXCEPT !.status = "VALIDATED"], "idle")
    BY <1>1 DEF ValidateRun
  <2> DEFINE new == [run[p] EXCEPT !.status = "VALIDATED"]
  <2>2. new \in Run /\ new.status = "VALIDATED"
    BY <1>0 DEF Run
  <2> HIDE DEF new
  <2>3. Prepared(run[p], new, "idle")
    BY <2>1, <2>2, OpenIsDual DEF Prepared, Legal
  <2> QED
    BY <2>1, <2>2, <2>3 DEF new
<1>2. CASE CalculateRun(s)
  <2>1. PICK p \in Periods, u \in Users :
          run[p].status = "VALIDATED" /\ Load(s, p, u, Started(run[p], u), "processing")
    BY <1>2 DEF CalculateRun
  <2>2. Started(run[p], u) \in Run /\ Started(run[p], u).status = "PROCESSING"
    BY <1>0, StartedType
  <2>3. Prepared(run[p], Started(run[p], u), "processing")
    BY <2>1, <2>2, OpenIsDual DEF Prepared, Legal
  <2> QED
    BY <2>1, <2>2, <2>3
<1>3. CASE RetryRun(s)
  <2>1. PICK p \in Periods, u \in Users :
          Retries /\ Load(s, p, u, [run[p] EXCEPT !.status = "VALIDATED"], "retried")
    BY <1>3 DEF RetryRun
  <2> DEFINE new == [run[p] EXCEPT !.status = "VALIDATED"]
  <2>2. new \in Run /\ new.status = "VALIDATED"
    BY <1>0 DEF Run
  <2> HIDE DEF new
  <2>3. Prepared(run[p], new, "retried")
    BY <2>1, <2>2, OpenIsDual DEF Prepared
  <2> QED
    BY <2>1, <2>2, <2>3 DEF new
<1>4. CASE SubmitForApproval(s)
  <2>1. PICK p \in Periods, u \in Users :
          /\ run[p].status = "PROCESSED"
          /\ Load(s, p, u, [run[p] EXCEPT !.status = "PENDING_APPROVAL"], "idle")
    BY <1>4 DEF SubmitForApproval
  <2> DEFINE new == [run[p] EXCEPT !.status = "PENDING_APPROVAL"]
  <2>2. new \in Run /\ new.status = "PENDING_APPROVAL"
    BY <1>0 DEF Run
  <2> HIDE DEF new
  <2>3. Prepared(run[p], new, "idle")
    BY <2>1, <2>2, OpenIsDual DEF Prepared, Legal
  <2> QED
    BY <2>1, <2>2, <2>3 DEF new
<1>5. CASE ApproveRun(s)
  <2>1. PICK p \in Periods, u \in Users :
          /\ run[p].status \in Approvable /\ MayCheck(u, run[p])
          /\ Load(s, p, u, [run[p] EXCEPT !.status = "APPROVED", !.approved = u], "idle")
    BY <1>5 DEF ApproveRun
  <2> DEFINE new == [run[p] EXCEPT !.status = "APPROVED", !.approved = u]
  <2>2. new \in Run /\ new.status = "APPROVED" /\ Makers(new) = Makers(run[p]) /\ new.approved = u
    BY <1>0 DEF Run, Makers
  <2>3. run[p].status \notin Closed
    BY <2>1 DEF Approvable
  <2> HIDE DEF new
  <2>4. Dual(new)
    BY <2>1, <2>2 DEF Dual, MayCheck
  <2>5. Prepared(run[p], new, "idle")
    BY <2>2, <2>3, <2>4 DEF Prepared, Legal
  <2> QED
    BY <2>1, <2>2, <2>5 DEF new
<1>6. CASE LockRun(s)
  <2>1. PICK p \in Periods, u \in Users, st \in {"LOCKED", "APPROVED"} :
          /\ run[p].status = "APPROVED" /\ MayCheck(u, run[p])
          /\ Load(s, p, u, [run[p] EXCEPT !.status = st, !.finalized = u], "idle")
    BY <1>6 DEF LockRun
  <2> DEFINE new == [run[p] EXCEPT !.status = st, !.finalized = u]
  <2>2. /\ new \in Run /\ new.status = st /\ Makers(new) = Makers(run[p])
        /\ new.finalized = u /\ new.approved = run[p].approved
    BY <1>0 DEF Run, Makers
  <2> HIDE DEF new
  <2>3. Dual(new)
    BY <1>0, <2>1, <2>2 DEF Dual, MayCheck
  <2>4. Prepared(run[p], new, "idle")
    BY <2>1, <2>2, <2>3 DEF Prepared, Legal
  <2> QED
    BY <2>1, <2>2, <2>4 DEF new
<1>7. CASE FinalizeRun(s)
  <2>1. PICK p \in Periods, u \in Users :
          /\ run[p].status \notin Closed /\ MayCheck(u, run[p])
          /\ Load(s, p, u, [run[p] EXCEPT !.status = "FINALIZED", !.finalized = u], "idle")
    BY <1>7 DEF FinalizeRun
  <2> DEFINE new == [run[p] EXCEPT !.status = "FINALIZED", !.finalized = u]
  <2>2. new \in Run /\ new.status = "FINALIZED" /\ Makers(new) = Makers(run[p]) /\ new.finalized = u
    BY <1>0 DEF Run, Makers
  <2> HIDE DEF new
  <2>3. Dual(new)
    BY <2>1, <2>2 DEF Dual, MayCheck
  <2>4. Prepared(run[p], new, "idle")
    BY <2>1, <2>2, <2>3 DEF Prepared, Legal
  <2> QED
    BY <2>1, <2>2, <2>4 DEF new
<1>8. CASE MarkPaid(s)
  <2>1. PICK p \in Periods, u \in Users :
          /\ run[p].status = "LOCKED"
          /\ Load(s, p, u, [run[p] EXCEPT !.status = "PAID"], "idle")
    BY <1>8 DEF MarkPaid
  <2> DEFINE new == [run[p] EXCEPT !.status = "PAID"]
  <2>2. /\ new \in Run /\ new.status = "PAID" /\ Makers(new) = Makers(run[p])
        /\ new.approved = run[p].approved /\ new.finalized = run[p].finalized
    BY <1>0 DEF Run, Makers
  <2> HIDE DEF new
  <2>3. Dual(new)
    BY <1>0, <2>1, <2>2 DEF Dual
  <2>4. Prepared(run[p], new, "idle")
    BY <2>1, <2>2, <2>3 DEF Prepared, Legal
  <2> QED
    BY <2>1, <2>2, <2>4 DEF new
<1>9. CASE RejectOrCancelOrSendBack(s)
  <2>1. PICK p \in Periods, u \in Users, st \in {"REJECTED", "CANCELLED", "DRAFT"} :
          run[p].status \notin Closed /\ Load(s, p, u, [run[p] EXCEPT !.status = st], "idle")
    BY <1>9 DEF RejectOrCancelOrSendBack, StillOpen
  <2> DEFINE new == [run[p] EXCEPT !.status = st]
  <2>2. new \in Run /\ new.status = st
    BY <1>0 DEF Run
  <2> HIDE DEF new
  <2>3. Prepared(run[p], new, "idle")
    BY <2>1, <2>2, OpenIsDual DEF Prepared, Legal
  <2> QED
    BY <2>1, <2>2, <2>3 DEF new
<1>10. CASE DeleteRun(s)
  <2>1. PICK p \in Periods : run[p].status \notin Closed /\ Load(s, p, NoUser, NoRun, "idle")
    BY <1>10 DEF DeleteRun, StillOpen
  <2>2. NoRun \in Run /\ NoRun.status = "NONE"
    BY EmptyTypes DEF NoRun
  <2>3. Prepared(run[p], NoRun, "idle")
    BY <2>1, <2>2, OpenIsDual DEF Prepared, Legal
  <2> QED
    BY <2>1, <2>2, <2>3
<1> QED
  BY <1>1, <1>2, <1>3, <1>4, <1>5, <1>6, <1>7, <1>8, <1>9, <1>10 DEF Request

(***************************************************************************)
(* The inductive invariant: what the one call has read is what the         *)
(* database holds, and what it is about to write is legal.                 *)
(***************************************************************************)
\* What mark_paid read; the bank may have settled the payslip since.
Payable(saw, row) == Seen(saw, row) /\ (row.payment = "PENDING" => saw.payment = "PENDING")

Knows(s) ==
  LET c == call[s]
      p == c.period
  IN
  /\ c.pc = "created" => c.after = "idle"
  /\ c.pc = "loaded" =>
       /\ c.old = run[p]
       /\ c.after \in {"idle", "retried", "processing"}
       /\ Prepared(c.old, c.new, c.after)
       /\ c.new.status = "PAID" => Payable(c.saw, slip[p])
  /\ c.pc = "retried" => c.new = run[p] /\ c.new.status = "VALIDATED"
  /\ c.pc \in Calculating => c.new = run[p] /\ c.new.status = "PROCESSING"
  /\ c.pc \in {"claimed", "computed"} => \A a \in c.claims : ledger[a] = "PENDING"
  /\ c.pc = "computed" => Seen(c.saw, slip[p])

SerialInv == DualControl /\ \A s \in Slots : Knows(s)

LEMMA IdleKnows == Idle.pc \notin {"created", "loaded", "retried", "claimed"} \cup Calculating
  BY DEF Idle, Calculating

\* With one call there is only its own next point to look at.
LEMMA OnlyCall ==
  ASSUME OneCall, NEW s \in Slots, DualControl', Knows(s)'
  PROVE  SerialInv'
<1>1. \A t \in Slots : t = s
  BY DEF OneCall
<1> QED
  BY <1>1 DEF SerialInv

\* The call ends, or another one begins that has read nothing.
LEMMA EndedKnows ==
  ASSUME OneCall, NEW s \in Slots, DualControl', call'[s] = Idle
  PROVE  SerialInv'
<1>1. Knows(s)'
  BY IdleKnows DEF Knows, Calculating
<1> QED
  BY <1>1, OnlyCall

\* A handler has loaded the run and prepared its change.
LEMMA LoadedKnows ==
  ASSUME OneCall, NEW s \in Slots, NEW p \in Periods, DualControl, UNCHANGED <<run, slip>>,
         call'[s].pc = "loaded", call'[s].period = p, call'[s].old = run[p],
         call'[s].after \in {"idle", "retried", "processing"},
         Prepared(run[p], call'[s].new, call'[s].after),
         call'[s].new.status = "PAID" => call'[s].saw = slip[p]
  PROVE  SerialInv'
<1>1. DualControl'
  BY DEF DualControl
<1>2. Knows(s)'
  BY DEF Knows, Calculating, Prepared, Dual, Makers, Legal, Payable, Seen
<1> QED
  BY <1>1, <1>2, OnlyCall

LEMMA RequestKnows ==
  ASSUME OneCall, Inv, SerialInv, NEW s \in Slots, Request(s)
  PROVE  SerialInv'
<1>0. call \in [Slots -> Call]
  BY DEF Inv, TypeOK
<1>1. CASE CreateRun(s)
  <2>1. PICK p \in Periods, u \in Users :
          /\ run' = [run EXCEPT ![p] = [NoRun EXCEPT !.status = "DRAFT", !.created = u]]
          /\ call' = [call EXCEPT ![s] = [Idle EXCEPT !.pc = "created", !.period = p]]
    BY <1>1 DEF CreateRun, Become
  <2>2. call'[s].pc = "created" /\ call'[s].after = "idle"
    BY <1>0, <2>1 DEF Idle
  <2>3. run'[p].status = "DRAFT" /\ \A q \in Periods \ {p} : run'[q] = run[q]
    BY <2>1 DEF Inv, TypeOK, NoRun
  <2>4. DualControl'
    BY <2>3 DEF SerialInv, DualControl, Closed
  <2>5. Knows(s)'
    BY <2>2 DEF Knows, Calculating
  <2> QED
    BY <2>4, <2>5, OnlyCall
<1>2. CASE ~CreateRun(s)
  <2>1. PICK p \in Periods, u \in Users \cup {NoUser}, new \in Run,
             after \in {"idle", "retried", "processing"} :
          Load(s, p, u, new, after) /\ Prepared(run[p], new, after)
    BY <1>2, RequestsPrepare DEF Inv, SerialInv
  <2> DEFINE saw == IF new.status = "PAID" THEN slip[p] ELSE NoSlip
  <2>2. /\ call'[s] = [Idle EXCEPT !.pc = "loaded", !.period = p, !.user = u, !.old = run[p],
                                   !.new = new, !.after = after, !.saw = saw]
        /\ UNCHANGED <<run, slip>>
    BY <1>0, <2>1 DEF Load, Become
  <2> HIDE DEF saw
  <2>3. /\ call'[s].pc = "loaded" /\ call'[s].period = p /\ call'[s].old = run[p]
        /\ call'[s].new = new /\ call'[s].after = after /\ call'[s].saw = saw
    BY <2>2 DEF Idle
  <2>4. new.status = "PAID" => saw = slip[p]
    BY DEF saw
  <2>5. DualControl
    BY DEF SerialInv
  <2>6. /\ Prepared(run[p], call'[s].new, call'[s].after)
        /\ call'[s].after \in {"idle", "retried", "processing"}
        /\ call'[s].new.status = "PAID" => call'[s].saw = slip[p]
    BY <2>1, <2>3, <2>4
  <2>7. /\ UNCHANGED <<run, slip>>
        /\ call'[s].pc = "loaded" /\ call'[s].period = p /\ call'[s].old = run[p]
    BY <2>2, <2>3
  <2> QED
    BY <2>5, <2>6, <2>7, LoadedKnows
<1> QED
  BY <1>1, <1>2

LEMMA WorkerKnows ==
  ASSUME OneCall, Inv, SerialInv, NEW s \in Slots, WorkerTakes(s)
  PROVE  SerialInv'
<1>1. PICK p \in queue :
        /\ UNCHANGED <<run, slip, ledger>>
        /\ \/ UNCHANGED call
           \/ /\ run[p].status = "VALIDATED"
              /\ Become(s, [Idle EXCEPT !.pc = "loaded", !.period = p, !.worker = TRUE,
                                        !.old = run[p], !.new = Started(run[p], NoUser),
                                        !.after = "processing"])
  BY DEF WorkerTakes
<1>2. CASE UNCHANGED call
  BY <1>1, <1>2 DEF SerialInv, DualControl, Knows, Prepared, Dual, Makers, Legal, Payable, Seen
<1>3. CASE ~UNCHANGED call
  <2>1. p \in Periods /\ run[p] \in Run /\ run[p].status = "VALIDATED"
    BY <1>1, <1>3 DEF Inv, TypeOK
  <2>2. Started(run[p], NoUser) \in Run /\ Started(run[p], NoUser).status = "PROCESSING"
    BY <2>1, StartedType
  <2>3. call'[s] = [Idle EXCEPT !.pc = "loaded", !.period = p, !.worker = TRUE,
                                !.old = run[p], !.new = Started(run[p], NoUser),
                                !.after = "processing"]
    BY <1>1, <1>3 DEF Become, Inv, TypeOK
  <2>4. /\ call'[s].pc = "loaded" /\ call'[s].period = p /\ call'[s].old = run[p]
        /\ call'[s].new = Started(run[p], NoUser) /\ call'[s].after = "processing"
    BY <2>3 DEF Idle
  <2>5. Prepared(run[p], Started(run[p], NoUser), "processing")
    BY <2>1, <2>2, OpenIsDual, StatusNames DEF Prepared, Legal
  <2> QED
    BY <1>1, <2>1, <2>2, <2>4, <2>5, LoadedKnows DEF SerialInv
<1> QED
  BY <1>2, <1>3

\* The write of a handler: the row becomes what the handler made of it.
LEMMA CommitIsWhole ==
  ASSUME Inv, SerialInv, NEW s \in Slots, Commit(s)
  PROVE  /\ call[s].period \in Periods
         /\ call[s].pc = "loaded" /\ call[s].old = run[call[s].period]
         /\ run' = [run EXCEPT ![call[s].period] = call[s].new]
         /\ Prepared(run[call[s].period], call[s].new, call[s].after)
         /\ slip' = PaySlips(call[s])
<1> DEFINE c == call[s]
           p == c.period
<1>1. c \in Call /\ c.pc = "loaded" /\ p \in Periods
  BY DEF Commit, Inv, TypeOK
<1>2. c.old = run[p] /\ Prepared(c.old, c.new, c.after)
  BY <1>1 DEF SerialInv, Knows
<1>3. c.old \in Run /\ c.new \in Run
  BY <1>1 DEF Call
<1>4. FlushRun(c.old, c.new, run[p]) = c.new
  BY <1>2, <1>3, FlushCurrentRun
<1>5. run' = [run EXCEPT ![p] = FlushRun(c.old, c.new, run[p])] /\ slip' = PaySlips(c)
  BY DEF Commit
<1> QED
  BY <1>1, <1>2, <1>4, <1>5

\* The settlement: it finds the run in PROCESSING and leaves it PROCESSED.
LEMMA SettleIsWhole ==
  ASSUME Inv, SerialInv, NEW s \in Slots, Settle(s)
  PROVE  LET c == call[s]
             p == c.period
         IN  /\ p \in Periods /\ c.pc = "computed"
             /\ run[p].status = "PROCESSING" /\ run'[p].status = "PROCESSED"
             /\ \A q \in Periods \ {p} : run'[q] = run[q] /\ slip'[q] = slip[q]
             /\ slip'[p].exists /\ slip'[p].emi = c.emi /\ slip'[p].arrears = c.claims
<1> DEFINE c == call[s]
           p == c.period
           new == [exists |-> TRUE, emi |-> c.emi, arrears |-> c.claims, payment |-> "PENDING"]
           ps == FlushSlip(c.saw, new, slip[p])
           m == FlushRun(c.new, Processed(c.new), run[p])
<1>1. c \in Call /\ c.pc = "computed" /\ p \in Periods /\ run[p] \in Run
  BY DEF Settle, Inv, TypeOK
<1>2. c.new = run[p] /\ c.new.status = "PROCESSING" /\ Seen(c.saw, slip[p])
  BY <1>1 DEF SerialInv, Knows, Calculating
<1>3. Processed(c.new) \in Run /\ Processed(c.new).status = "PROCESSED"
  BY <1>1, <1>2, StartedType
<1>4. m = Processed(c.new)
  BY <1>1, <1>2, <1>3, FlushCurrentRun
<1>5. ps.exists /\ ps.emi = c.emi /\ ps.arrears = c.claims
  <2>1. new.emi = c.emi /\ new.arrears = c.claims
    OBVIOUS
  <2> HIDE DEF new
  <2>2. ps.exists /\ ps.emi = new.emi /\ ps.arrears = new.arrears
    BY <1>2, FlushSeenSlip
  <2> QED
    BY <2>1, <2>2
<1>6. slip' = [slip EXCEPT ![p] = ps] /\ run' = [run EXCEPT ![p] = m]
  BY DEF Settle
<1> HIDE DEF ps, m
<1>7. slip'[p] = ps /\ run'[p] = m /\ \A q \in Periods \ {p} : run'[q] = run[q] /\ slip'[q] = slip[q]
  BY <1>1, <1>6 DEF Inv, TypeOK
<1> QED
  BY <1>1, <1>2, <1>3, <1>4, <1>5, <1>7

LEMMA CommitKnows ==
  ASSUME OneCall, Inv, SerialInv, NEW s \in Slots, Commit(s)
  PROVE  SerialInv'
<1> DEFINE c == call[s]
           p == c.period
<1>1. /\ p \in Periods /\ c.pc = "loaded" /\ run' = [run EXCEPT ![p] = c.new]
      /\ Prepared(run[p], c.new, c.after)
  BY CommitIsWhole
<1>2. run'[p] = c.new /\ \A q \in Periods \ {p} : run'[q] = run[q]
  BY <1>1 DEF Inv, TypeOK
<1>3. \A q \in Periods : Dual(run'[q])
  BY <1>1, <1>2, DualControlIsDual DEF Prepared, SerialInv
<1>4. DualControl'
  BY <1>3 DEF DualControl, Dual, Makers
<1>5. c.after \in {"idle", "retried", "processing"}
  BY <1>1 DEF SerialInv, Knows
<1>6. CASE c.after = "idle"
  <2>1. call'[s] = Idle
    BY <1>6 DEF Commit, Become, Inv, TypeOK
  <2> QED
    BY <1>4, <2>1, EndedKnows
<1>7. CASE c.after # "idle"
  <2>1. call'[s] = [c EXCEPT !.pc = c.after]
    BY <1>7 DEF Commit, Become, Inv, TypeOK
  <2>2. c \in Call
    BY DEF Inv, TypeOK
  <2>3. call'[s].pc = c.after /\ call'[s].period = p /\ call'[s].new = c.new
    BY <2>1, <2>2 DEF Call
  <2>4. /\ c.after = "processing" => c.new.status = "PROCESSING"
        /\ c.after = "retried" => c.new.status = "VALIDATED"
    BY <1>1 DEF Prepared
  <2>5. Knows(s)'
    BY <1>2, <1>5, <1>7, <2>3, <2>4 DEF Knows, Calculating
  <2> QED
    BY <1>4, <2>5, OnlyCall
<1> QED
  BY <1>6, <1>7

LEMMA DeleteKnows ==
  ASSUME OneCall, Inv, SerialInv, NEW s \in Slots, CommitDelete(s)
  PROVE  SerialInv'
<1> DEFINE p == call[s].period
<1>1. /\ run' = [run EXCEPT ![p] = NoRun]
      /\ call' = [t \in Slots |-> IF call[t].period = p THEN Idle ELSE call[t]]
      /\ p \in Periods
  BY DEF CommitDelete, Inv, TypeOK
<1>2. call'[s] = Idle
  BY <1>1
<1>3. run'[p].status = "NONE" /\ \A q \in Periods \ {p} : run'[q] = run[q]
  BY <1>1 DEF Inv, TypeOK, NoRun
<1>4. DualControl'
  BY <1>3 DEF SerialInv, DualControl, Closed
<1> QED
  BY <1>2, <1>4, EndedKnows

\* The object of a call that goes on is the row itself.
LEMMA ReloadKnows ==
  ASSUME OneCall, Inv, SerialInv, NEW s \in Slots, ValidateCreated(s) \/ ExecuteRetry(s)
  PROVE  SerialInv'
<1> DEFINE c == call[s]
           p == c.period
<1>0. c \in Call /\ DualControl
  BY DEF Inv, TypeOK, SerialInv
<1>1. CASE ValidateCreated(s)
  <2>1. c.pc = "created" /\ c.after = "idle" /\ p \in Periods /\ run[p] \in Run
    BY <1>1 DEF ValidateCreated, SerialInv, Knows, Inv, TypeOK
  <2>2. CASE run[p].status = "DRAFT"
    <3> DEFINE new == [run[p] EXCEPT !.status = "VALIDATED"]
    <3>1. new \in Run /\ new.status = "VALIDATED"
      BY <2>1, StatusNames DEF Run
    <3>2. call'[s] = [c EXCEPT !.pc = "loaded", !.old = run[p], !.new = new]
          /\ UNCHANGED <<run, slip>>
      BY <1>1, <2>2 DEF ValidateCreated, Become, Inv, TypeOK
    <3> HIDE DEF new
    <3>3. /\ call'[s].pc = "loaded" /\ call'[s].period = p /\ call'[s].old = run[p]
          /\ call'[s].new = new /\ call'[s].after = "idle"
      BY <1>0, <2>1, <3>2 DEF Call
    <3>4. Prepared(run[p], new, "idle")
      BY <2>2, <3>1, OpenIsDual, StatusNames DEF Prepared, Legal
    <3>5. /\ Prepared(run[p], call'[s].new, call'[s].after)
          /\ call'[s].after \in {"idle", "retried", "processing"}
          /\ call'[s].new.status # "PAID"
      BY <3>1, <3>3, <3>4
    <3>6. /\ UNCHANGED <<run, slip>>
          /\ call'[s].pc = "loaded" /\ call'[s].period = p /\ call'[s].old = run[p]
      BY <3>2, <3>3
    <3> HIDE DEF c
    <3> QED
      BY <1>0, <2>1, <3>5, <3>6, LoadedKnows
  <2>3. CASE run[p].status # "DRAFT"
    <3>1. call'[s] = Idle /\ DualControl'
      BY <1>0, <1>1, <2>3 DEF ValidateCreated, Become, Inv, TypeOK, DualControl
    <3> QED
      BY <3>1, EndedKnows
  <2> QED
    BY <2>2, <2>3
<1>2. CASE ExecuteRetry(s)
  <2>1. /\ c.pc = "retried" /\ p \in Periods
        /\ c.new = run[p] /\ run[p].status = "VALIDATED" /\ run[p] \in Run
    BY <1>2 DEF ExecuteRetry, SerialInv, Knows, Inv, TypeOK
  <2> DEFINE new == Started(run[p], c.user)
  <2>2. new \in Run /\ new.status = "PROCESSING"
    BY <1>0, <2>1, StartedType DEF Call
  <2>3. call'[s] = [c EXCEPT !.pc = "loaded", !.old = run[p], !.new = new, !.after = "processing"]
        /\ UNCHANGED <<run, slip>>
    BY <1>2, <2>1 DEF ExecuteRetry, Become, Inv, TypeOK
  <2> HIDE DEF new
  <2>4. /\ call'[s].pc = "loaded" /\ call'[s].period = p /\ call'[s].old = run[p]
        /\ call'[s].new = new /\ call'[s].after = "processing"
    BY <1>0, <2>1, <2>3 DEF Call
  <2>5. Prepared(run[p], new, "processing")
    BY <2>1, <2>2, OpenIsDual, StatusNames DEF Prepared, Legal
  <2>6. /\ Prepared(run[p], call'[s].new, call'[s].after)
        /\ call'[s].after \in {"idle", "retried", "processing"}
        /\ call'[s].new.status # "PAID"
    BY <2>2, <2>4, <2>5
  <2>7. /\ UNCHANGED <<run, slip>>
        /\ call'[s].pc = "loaded" /\ call'[s].period = p /\ call'[s].old = run[p]
    BY <2>3, <2>4
  <2> HIDE DEF c
  <2> QED
    BY <1>0, <2>1, <2>6, <2>7, LoadedKnows
<1> QED
  BY <1>1, <1>2

\* A calculation reads the pending arrears, then the loan and the payslip.
LEMMA ReadKnows ==
  ASSUME OneCall, Inv, SerialInv, NEW s \in Slots, ClaimArrears(s) \/ ReadEmployee(s)
  PROVE  SerialInv'
<1> DEFINE c == call[s]
           p == c.period
<1>0. c \in Call
  BY DEF Inv, TypeOK
<1>1. DualControl' /\ UNCHANGED <<run, slip, ledger>>
  BY DEF ClaimArrears, ReadEmployee, SerialInv, DualControl
<1>2. c.new = run[p] /\ c.new.status = "PROCESSING"
  BY DEF ClaimArrears, ReadEmployee, SerialInv, Knows, Calculating
<1>3. CASE ClaimArrears(s)
  <2>1. call'[s] = [c EXCEPT !.pc = "claimed", !.claims = PendingForRun(p)]
    BY <1>3 DEF ClaimArrears, Become, Inv, TypeOK
  <2>2. /\ call'[s].pc = "claimed" /\ call'[s].period = p /\ call'[s].new = c.new
        /\ call'[s].claims = PendingForRun(p)
    BY <1>0, <2>1 DEF Call
  <2>3. \A a \in call'[s].claims : ledger'[a] = "PENDING"
    BY <1>1, <2>2 DEF PendingForRun
  <2>4. Knows(s)'
    BY <1>1, <1>2, <2>2, <2>3 DEF Knows, Calculating
  <2> QED
    BY <1>1, <2>4, OnlyCall
<1>4. CASE ReadEmployee(s)
  <2>1. c.pc = "claimed" /\ \A a \in c.claims : ledger[a] = "PENDING"
    BY <1>4 DEF ReadEmployee, SerialInv, Knows
  <2>2. call'[s] = [c EXCEPT !.pc = "computed", !.emi = EmiDue(p), !.loan = paid, !.saw = slip[p]]
    BY <1>4 DEF ReadEmployee, Become, Inv, TypeOK
  <2>3. /\ call'[s].pc = "computed" /\ call'[s].period = p /\ call'[s].new = c.new
        /\ call'[s].claims = c.claims /\ call'[s].saw = slip[p]
    BY <1>0, <2>2 DEF Call
  <2>4. Knows(s)'
    BY <1>1, <1>2, <2>1, <2>3 DEF Knows, Calculating, Seen
  <2> QED
    BY <1>1, <2>4, OnlyCall
<1> QED
  BY <1>3, <1>4

LEMMA SettleKnows ==
  ASSUME OneCall, Inv, SerialInv, NEW s \in Slots, Settle(s)
  PROVE  SerialInv'
<1> DEFINE p == call[s].period
<1>1. run'[p].status = "PROCESSED" /\ \A q \in Periods \ {p} : run'[q] = run[q]
  BY SettleIsWhole
<1>2. DualControl'
  BY <1>1 DEF SerialInv, DualControl, Closed
<1>3. call'[s] = Idle
  BY DEF Settle, Become, Inv, TypeOK
<1> QED
  BY <1>2, <1>3, EndedKnows

\* Nothing of what Knows speaks of changes.
LEMMA SameKnows ==
  ASSUME SerialInv, UNCHANGED <<run, slip, ledger, call>>
  PROVE  SerialInv'
  BY DEF SerialInv, DualControl, Knows, Prepared, Dual, Makers, Legal, Payable, Seen

\* The bank settles a payslip while the call is under way.
LEMMA DisburseKnows ==
  ASSUME Inv, SerialInv, Disburse
  PROVE  SerialInv'
<1>1. UNCHANGED <<run, ledger, call>>
  BY DisburseIsPayment
<1>2. DualControl'
  BY <1>1 DEF SerialInv, DualControl
<1>3. ASSUME NEW s \in Slots PROVE Knows(s)'
  <2>1. Knows(s)
    BY DEF SerialInv
  <2> DEFINE p == call[s].period
  <2>2. call[s].pc # "idle" => p \in Periods
    BY DEF Inv, TypeOK
  <2>3. p \in Periods =>
          /\ slip'[p].exists = slip[p].exists /\ slip'[p].emi = slip[p].emi
          /\ slip'[p].arrears = slip[p].arrears
          /\ slip'[p].payment = "PENDING" => slip[p].payment = "PENDING"
    BY DisburseIsPayment
  <2>4. \A x : /\ p \in Periods /\ Seen(x, slip[p]) => Seen(x, slip'[p])
               /\ p \in Periods /\ Payable(x, slip[p]) => Payable(x, slip'[p])
    BY <2>3 DEF Seen, Payable
  <2> QED
    BY <1>1, <2>1, <2>2, <2>4 DEF Knows, Prepared, Dual, Makers, Legal, Payable, Seen
<1> QED
  BY <1>2, <1>3 DEF SerialInv

LEMMA SerialNext == OneCall /\ Inv /\ SerialInv /\ [Next]_vars => SerialInv'
<1> SUFFICES ASSUME OneCall, Inv, SerialInv, [Next]_vars PROVE SerialInv'
  OBVIOUS
<1>1. ASSUME NEW s \in Slots, Request(s) \/ WorkerTakes(s) PROVE SerialInv'
  BY <1>1, RequestKnows, WorkerKnows
<1>2. ASSUME NEW s \in Slots, Step(s) PROVE SerialInv'
  <2>1. CASE SettleFails(s)
    <3>1. call'[s] = Idle /\ DualControl'
      BY <2>1 DEF SettleFails, Become, Inv, TypeOK, SerialInv, DualControl
    <3> QED
      BY <3>1, EndedKnows
  <2> QED
    BY <1>2, <2>1, CommitKnows, DeleteKnows, ReloadKnows, ReadKnows, SettleKnows DEF Step
<1>3. ASSUME NEW s \in Slots, Fault(s) PROVE SerialInv'
  <2>1. call'[s] = Idle /\ DualControl'
    BY <1>3 DEF Fault, Become, Inv, TypeOK, SerialInv, DualControl
  <2> QED
    BY <2>1, EndedKnows
<1>4. CASE DispatchRun
  BY <1>4, SameKnows DEF DispatchRun
<1>5. CASE CreateArrear
  <2>1. PICK a \in Arrears : ledger[a] = "NONE" /\ ledger' = [ledger EXCEPT ![a] = "PENDING"]
    BY <1>5 DEF CreateArrear
  <2>2. UNCHANGED <<run, slip, call>>
    BY <1>5 DEF CreateArrear
  <2>3. \A b \in Arrears : ledger[b] = "PENDING" => ledger'[b] = "PENDING"
    BY <2>1 DEF Inv, TypeOK
  <2>4. \A s \in Slots : call[s].claims \subseteq Arrears
    BY DEF Inv, TypeOK, Call
  <2>5. DualControl'
    BY <2>2 DEF SerialInv, DualControl
  <2>6. ASSUME NEW s \in Slots PROVE Knows(s)'
    <3>1. Knows(s)
      BY DEF SerialInv
    <3> QED
      BY <3>1, <2>2, <2>3, <2>4 DEF Knows, Prepared, Dual, Makers, Legal, Payable, Seen
  <2> QED
    BY <2>5, <2>6 DEF SerialInv
<1>6. CASE Disburse
  BY <1>6, DisburseKnows
<1>7. CASE UNCHANGED vars
  BY <1>7, SameKnows DEF vars
<1> QED
  BY <1>1, <1>2, <1>3, <1>4, <1>5, <1>6, <1>7 DEF Next

LEMMA SerialInit == Init => SerialInv
<1> SUFFICES ASSUME Init PROVE SerialInv
  OBVIOUS
<1>1. DualControl
  BY DEF Init, NoRun, DualControl, Closed
<1>2. \A s \in Slots : call[s] = Idle
  BY DEF Init
<1>3. \A s \in Slots : Knows(s)
  BY <1>2, IdleKnows DEF Knows, Calculating
<1> QED
  BY <1>1, <1>3 DEF SerialInv

(***************************************************************************)
(* Theorems for calls that follow each other.                              *)
(***************************************************************************)

\* When the calls on payroll runs do not overlap, what a call of run_service.py
\* has loaded is what the tables hold until it commits (but for payment_status,
\* which the bank feeds write), also after faults, redelivered tasks, retries
\* and on the v1 routes.
THEOREM SerialCallsAreCurrent ==
  ASSUME OneCall
  PROVE  Spec => [](Inv /\ SerialInv)
<1>1. Init => Inv /\ SerialInv
  BY InvInit, SerialInit
<1>2. (Inv /\ SerialInv) /\ [Next]_vars => (Inv /\ SerialInv)'
  BY InvNext, SerialNext
<1> QED
  BY <1>1, <1>2, PTL DEF Spec

\* Dual control holds when calls do not overlap: enforce_maker_checker looks at
\* the run when it is approved or closed, and no later recalculation, retry or
\* payment leaves a maker as its own checker.
THEOREM NobodyChecksTheirOwn ==
  ASSUME OneCall
  PROVE  Spec => []DualControl
<1>1. Inv /\ SerialInv => DualControl
  BY DEF SerialInv
<1> QED
  BY <1>1, SerialCallsAreCurrent, PTL

\* The steps that write runs, payslips or the loan.
LEMMA FewWrite ==
  ASSUME [Next]_vars
  PROVE  \/ UNCHANGED <<run, slip, deducted, paid>>
         \/ Disburse
         \/ \E s \in Slots : CreateRun(s) \/ Commit(s) \/ CommitDelete(s) \/ Settle(s)
<1> DEFINE Same == UNCHANGED <<run, slip, deducted, paid>>
<1>1. ASSUME NEW s \in Slots, Request(s), ~CreateRun(s) PROVE Same
  <2>1. \A p, u, new, after : Load(s, p, u, new, after) => Same
    BY DEF Load
  <2> HIDE DEF Same
  <2> QED
    BY <1>1, <2>1, Zenon DEF Request, ValidateRun, CalculateRun, RetryRun, SubmitForApproval, ApproveRun,
       LockRun, FinalizeRun, MarkPaid, RejectOrCancelOrSendBack, DeleteRun
<1>2. ASSUME NEW s \in Slots, WorkerTakes(s) \/ Fault(s) PROVE Same
  BY <1>2 DEF WorkerTakes, Fault
<1>3. ASSUME NEW s \in Slots, Step(s), ~(Commit(s) \/ CommitDelete(s) \/ Settle(s)) PROVE Same
  BY <1>3 DEF Step, ValidateCreated, ExecuteRetry, ClaimArrears, ReadEmployee, SettleFails
<1>4. ASSUME DispatchRun \/ CreateArrear \/ UNCHANGED vars PROVE Same
  BY <1>4 DEF DispatchRun, CreateArrear, vars
<1> HIDE DEF Same
<1> DEFINE Some == \E s \in Slots : CreateRun(s) \/ Commit(s) \/ CommitDelete(s) \/ Settle(s)
<1>5. ASSUME NEW s \in Slots, Request(s) \/ WorkerTakes(s) \/ Step(s) \/ Fault(s)
      PROVE  Same \/ Some
  BY <1>1, <1>2, <1>3, <1>5
<1> HIDE DEF Some
<1>6. Same \/ Disburse \/ Some
  BY <1>4, <1>5 DEF Next
<1> QED
  BY <1>6 DEF Same, Some

\* mark_paid changes nothing but payment_status, and that only of the payslips
\* of its own run.
LEMMA PaySlipsOnlyPays ==
  ASSUME Inv, NEW c, c.period \in Periods, NEW q \in Periods
  PROVE  LET new == PaySlips(c)[q]
         IN  /\ new.exists = slip[q].exists /\ new.emi = slip[q].emi
             /\ new.arrears = slip[q].arrears
             /\ q # c.period => new = slip[q]
             /\ new.payment = IF q = c.period /\ c.new.status = "PAID" /\ c.saw.exists
                              THEN Written(c.saw.payment, "PAID", slip[q].payment)
                              ELSE slip[q].payment
<1>1. slip \in [Periods -> Slip] /\ slip[q] \in Slip
  BY DEF Inv, TypeOK
<1>2. CASE c.new.status = "PAID" /\ c.saw.exists
  <2> DEFINE st == Written(c.saw.payment, "PAID", slip[c.period].payment)
  <2>1. PaySlips(c) = [slip EXCEPT ![c.period].payment = st]
    BY <1>2 DEF PaySlips
  <2> HIDE DEF st
  <2>2. CASE q = c.period
    <3>1. PaySlips(c)[q] = [slip[q] EXCEPT !.payment = st]
      BY <1>1, <2>1, <2>2
    <3> QED
      BY <1>1, <1>2, <2>2, <3>1 DEF Slip, st
  <2>3. CASE q # c.period
    <3>1. PaySlips(c)[q] = slip[q]
      BY <1>1, <2>1, <2>3
    <3> QED
      BY <1>2, <2>3, <3>1
  <2> QED
    BY <2>2, <2>3
<1>3. CASE ~(c.new.status = "PAID" /\ c.saw.exists)
  <2>1. PaySlips(c) = slip
    BY <1>3 DEF PaySlips
  <2> QED
    BY <1>3, <2>1
<1> QED
  BY <1>2, <1>3

\* Deleting a run empties its payslip and leaves the others.
LEMMA DeleteIsWhole ==
  ASSUME Inv, NEW s \in Slots, CommitDelete(s)
  PROVE  LET p == call[s].period
         IN  /\ p \in Periods
             /\ run'[p].status = "NONE" /\ slip'[p] = NoSlip
             /\ \A q \in Periods \ {p} : run'[q] = run[q] /\ slip'[q] = slip[q]
<1> DEFINE p == call[s].period
<1>1. /\ run' = [run EXCEPT ![p] = NoRun] /\ slip' = [slip EXCEPT ![p] = NoSlip]
      /\ p \in Periods
  BY DEF CommitDelete, WithoutSlips, Inv, TypeOK
<1>2. run \in [Periods -> Run] /\ slip \in [Periods -> Slip]
  BY DEF Inv, TypeOK
<1>3. NoRun.status = "NONE"
  BY DEF NoRun
<1> QED
  BY <1>1, <1>2, <1>3

\* When calls do not overlap, the figures of an approved or closed run stand: a
\* settlement always finds its run in PROCESSING, and the other writes leave
\* the amounts of the payslips alone.
THEOREM ApprovedFiguresArePaid ==
  ASSUME OneCall
  PROVE  Spec => ApprovedFiguresStand
<1> DEFINE Stand(p) ==
             run[p].status \in {"APPROVED"} \cup Closed /\ slip[p].exists /\ run'[p].status # "NONE"
             => slip'[p].emi = slip[p].emi /\ slip'[p].arrears = slip[p].arrears
<1>1. ASSUME Inv, SerialInv, [Next]_vars, NEW q \in Periods PROVE Stand(q)
  <2>1. CASE UNCHANGED slip
    BY <2>1
  <2>2. ASSUME NEW s \in Slots, Commit(s) PROVE Stand(q)
    <3>1. call[s].period \in Periods /\ slip' = PaySlips(call[s])
      BY <1>1, <2>2, CommitIsWhole
    <3>2. slip'[q].emi = slip[q].emi /\ slip'[q].arrears = slip[q].arrears
      BY <1>1, <3>1, PaySlipsOnlyPays
    <3> QED
      BY <3>2
  <2>3. ASSUME NEW s \in Slots, CommitDelete(s) PROVE Stand(q)
    <3>1. q = call[s].period \/ slip'[q] = slip[q]
      BY <1>1, <2>3, DeleteIsWhole
    <3>2. q = call[s].period => run'[q].status = "NONE"
      BY <1>1, <2>3, DeleteIsWhole
    <3> QED
      BY <3>1, <3>2
  <2>4. ASSUME NEW s \in Slots, Settle(s) PROVE Stand(q)
    <3>1. q = call[s].period \/ slip'[q] = slip[q]
      BY <1>1, <2>4, SettleIsWhole
    <3>2. q = call[s].period => run[q].status = "PROCESSING"
      BY <1>1, <2>4, SettleIsWhole
    <3> QED
      BY <3>1, <3>2 DEF Closed
  <2>5. ASSUME NEW s \in Slots, CreateRun(s) PROVE UNCHANGED slip
    BY <2>5 DEF CreateRun
  <2>6. CASE Disburse
    BY <1>1, <2>6, DisburseIsPayment
  <2> HIDE DEF Stand
  <2> QED
    BY <1>1, <2>1, <2>2, <2>3, <2>4, <2>5, <2>6, FewWrite
<1>2. Inv /\ SerialInv /\ [Next]_vars => [\A p \in Periods : Stand(p)]_vars
  <2> HIDE DEF Stand
  <2> QED
    BY <1>1
<1> QED
  BY <1>2, SerialCallsAreCurrent, PTL DEF Spec, ApprovedFiguresStand

\* When calls do not overlap, an arrear is settled in one period: the rows that
\* pending_for_run claims are still PENDING at the settlement, and what another
\* payslip pays is APPLIED.
THEOREM ArrearsAreSettledOnce ==
  ASSUME OneCall
  PROVE  Spec => []ArrearOnce
<1>1. Init => ArrearOnce
  BY DEF Init, ArrearOnce, NoSlip
<1>2. ASSUME Inv, SerialInv, ArrearOnce, [Next]_vars PROVE ArrearOnce'
  <2>1. CASE UNCHANGED slip
    BY <1>2, <2>1 DEF ArrearOnce
  <2>2. ASSUME NEW s \in Slots, Commit(s) PROVE ArrearOnce'
    <3>1. call[s].period \in Periods /\ slip' = PaySlips(call[s])
      BY <1>2, <2>2, CommitIsWhole
    <3>2. \A q \in Periods : slip'[q].arrears = slip[q].arrears
      BY <1>2, <3>1, PaySlipsOnlyPays
    <3> QED
      BY <1>2, <3>2 DEF ArrearOnce
  <2>3. ASSUME NEW s \in Slots, CommitDelete(s) PROVE ArrearOnce'
    <3>1. \A q \in Periods : q = call[s].period \/ slip'[q] = slip[q]
      BY <1>2, <2>3, DeleteIsWhole
    <3>2. slip'[call[s].period].arrears = {}
      BY <1>2, <2>3, DeleteIsWhole DEF NoSlip
    <3> QED
      BY <1>2, <3>1, <3>2 DEF ArrearOnce
  <2>4. ASSUME NEW s \in Slots, Settle(s) PROVE ArrearOnce'
    <3> DEFINE p == call[s].period
    <3>1. /\ p \in Periods /\ slip'[p].arrears = call[s].claims
          /\ \A q \in Periods \ {p} : slip'[q] = slip[q]
      BY <1>2, <2>4, SettleIsWhole
    <3>2. \A a \in call[s].claims : ledger[a] = "PENDING"
      BY <1>2, <2>4 DEF Settle, SerialInv, Knows
    <3>3. \A q \in Periods : \A a \in slip[q].arrears : ledger[a] = "APPLIED"
      BY <1>2 DEF Inv, SlipIsBooked
    <3>4. \A q \in Periods \ {p} : slip'[q].arrears \cap slip'[p].arrears = {}
      BY <3>1, <3>2, <3>3
    <3> HIDE DEF p
    <3> QED
      BY <1>2, <3>1, <3>4 DEF ArrearOnce
  <2>5. ASSUME NEW s \in Slots, CreateRun(s) PROVE UNCHANGED slip
    BY <2>5 DEF CreateRun
  <2>6. CASE Disburse
    BY <1>2, <2>6, DisburseIsPayment DEF ArrearOnce
  <2> QED
    BY <1>2, <2>1, <2>2, <2>3, <2>4, <2>5, <2>6, FewWrite
<1> QED
  BY <1>1, <1>2, SerialCallsAreCurrent, PTL DEF Spec

\* When calls do not overlap, only retry_run, which takes a run back from any
\* status, opens a closed run, and only a LOCKED run is paid: every other
\* handler that loads the run refuses it, and the settlement finds a run in
\* PROCESSING.
THEOREM ClosedRunsStayClosed ==
  ASSUME OneCall
  PROVE  Spec => ClosedStaysClosed
<1> DEFINE Stays(p) ==
             Retried(p) \/ /\ run[p].status = "LOCKED" => run'[p].status \in {"LOCKED", "PAID"}
                           /\ run[p].status \in {"FINALIZED", "PAID"} => run'[p].status = run[p].status
<1>1. ASSUME Inv, SerialInv, [Next]_vars, NEW q \in Periods PROVE Stays(q)
  <2>1. CASE run'[q] = run[q]
    BY <2>1
  <2>2. ASSUME NEW s \in Slots, Commit(s) PROVE Stays(q)
    <3> DEFINE p == call[s].period
    <3>1. /\ p \in Periods /\ run' = [run EXCEPT ![p] = call[s].new]
          /\ Prepared(run[p], call[s].new, call[s].after)
      BY <1>1, <2>2, CommitIsWhole
    <3>2. run'[p] = call[s].new /\ (q # p => run'[q] = run[q])
      BY <1>1, <3>1 DEF Inv, TypeOK
    <3>3. CASE call[s].after # "retried"
      <4>1. Legal(run[p], run'[p])
        BY <3>1, <3>2, <3>3 DEF Prepared
      <4> QED
        BY <3>2, <4>1, <2>1 DEF Legal, Closed
    <3>4. CASE call[s].after = "retried"
      <4>1. call'[s] = [call[s] EXCEPT !.pc = "retried"] /\ call[s] \in Call
        BY <1>1, <2>2, <3>4 DEF Commit, Become, Inv, TypeOK
      <4>2. call'[s].pc = "retried" /\ call[s].pc = "loaded"
        BY <2>2, <4>1 DEF Call, Commit
      <4>3. Retried(p)
        BY <3>4, <4>2 DEF Retried
      <4> QED
        BY <2>1, <3>2, <4>3
    <3> QED
      BY <3>3, <3>4
  <2>3. ASSUME NEW s \in Slots, CommitDelete(s) PROVE Stays(q)
    <3> DEFINE p == call[s].period
    <3>1. Legal(run[p], call[s].new) /\ call[s].new.status = "NONE"
      <4>1. call[s].pc = "loaded" /\ call[s].new.status = "NONE"
        BY <2>3 DEF CommitDelete
      <4>2. call[s].old = run[p] /\ Prepared(call[s].old, call[s].new, call[s].after)
        BY <1>1, <4>1 DEF SerialInv, Knows
      <4> QED
        BY <4>1, <4>2 DEF Prepared
    <3>2. q # p => run'[q] = run[q]
      BY <1>1, <2>3, DeleteIsWhole
    <3> QED
      BY <2>1, <3>1, <3>2 DEF Legal, Closed
  <2>4. ASSUME NEW s \in Slots, Settle(s) PROVE Stays(q)
    <3>1. q = call[s].period \/ run'[q] = run[q]
      BY <1>1, <2>4, SettleIsWhole
    <3>2. q = call[s].period => run[q].status = "PROCESSING"
      BY <1>1, <2>4, SettleIsWhole
    <3> QED
      BY <2>1, <3>1, <3>2
  <2>5. ASSUME NEW s \in Slots, CreateRun(s) PROVE Stays(q)
    <3>1. PICK p \in Periods, u \in Users :
            /\ run[p].status = "NONE"
            /\ run' = [run EXCEPT ![p] = [NoRun EXCEPT !.status = "DRAFT", !.created = u]]
      BY <2>5 DEF CreateRun
    <3>2. q = p \/ run'[q] = run[q]
      BY <1>1, <3>1 DEF Inv, TypeOK
    <3> QED
      BY <2>1, <3>1, <3>2
  <2>6. UNCHANGED run \/ Disburse => run'[q] = run[q]
    BY DEF Disburse
  <2> HIDE DEF Stays
  <2> QED
    BY <1>1, <2>1, <2>2, <2>3, <2>4, <2>5, <2>6, FewWrite
<1>2. Inv /\ SerialInv /\ [Next]_vars => [\A p \in Periods : Stays(p)]_vars
  <2> HIDE DEF Stays
  <2> QED
    BY <1>1
<1> QED
  BY <1>2, SerialCallsAreCurrent, PTL DEF Spec, ClosedStaysClosed

\* When calls do not overlap, no payslip of a PAID run is PENDING: mark_paid
\* writes every payslip that is there, unless the bank has settled it already,
\* and a calculation, the one writer of PENDING, works on runs in PROCESSING.
THEOREM PaidRunsAreSettled ==
  ASSUME OneCall
  PROVE  Spec => []PaidIsSettled
<1> DEFINE Settled(p) ==
             run[p].status = "PAID" /\ slip[p].exists => slip[p].payment # "PENDING"
<1>1. Init => PaidIsSettled
  BY DEF Init, PaidIsSettled, NoSlip
<1>2. ASSUME Inv, SerialInv, PaidIsSettled, [Next]_vars, NEW q \in Periods PROVE Settled(q)'
  <2>0. Settled(q)
    BY <1>2 DEF PaidIsSettled
  <2>1. CASE run'[q] = run[q] /\ slip'[q] = slip[q]
    BY <2>0, <2>1
  <2>2. ASSUME NEW s \in Slots, Commit(s) PROVE Settled(q)'
    <3> DEFINE c == call[s]
               p == c.period
    <3>1. /\ p \in Periods /\ run' = [run EXCEPT ![p] = c.new] /\ slip' = PaySlips(c)
          /\ c.pc = "loaded"
      BY <1>2, <2>2, CommitIsWhole
    <3>2. run'[p] = c.new /\ (q # p => run'[q] = run[q])
      BY <1>2, <3>1 DEF Inv, TypeOK
    <3>3. c.new.status = "PAID" => Payable(c.saw, slip[p])
      BY <1>2, <3>1 DEF SerialInv, Knows
    <3>4. /\ slip'[q].exists = slip[q].exists
          /\ q # p => slip'[q] = slip[q]
          /\ slip'[q].payment = IF q = p /\ c.new.status = "PAID" /\ c.saw.exists
                                THEN Written(c.saw.payment, "PAID", slip[q].payment)
                                ELSE slip[q].payment
      BY <1>2, <3>1, PaySlipsOnlyPays
    <3>5. CASE q = p
      BY <3>2, <3>3, <3>4, <3>5 DEF Payable, Seen, Written
    <3> QED
      BY <2>1, <3>2, <3>4, <3>5
  <2>3. ASSUME NEW s \in Slots, CommitDelete(s) PROVE Settled(q)'
    <3>1. q # call[s].period => run'[q] = run[q] /\ slip'[q] = slip[q]
      BY <1>2, <2>3, DeleteIsWhole
    <3>2. q = call[s].period => run'[q].status = "NONE"
      BY <1>2, <2>3, DeleteIsWhole
    <3> QED
      BY <2>1, <3>1, <3>2
  <2>4. ASSUME NEW s \in Slots, Settle(s) PROVE Settled(q)'
    <3>1. q # call[s].period => run'[q] = run[q] /\ slip'[q] = slip[q]
      BY <1>2, <2>4, SettleIsWhole
    <3>2. q = call[s].period => run'[q].status = "PROCESSED"
      BY <1>2, <2>4, SettleIsWhole
    <3> QED
      BY <2>1, <3>1, <3>2
  <2>5. ASSUME NEW s \in Slots, CreateRun(s) PROVE Settled(q)'
    <3>1. PICK p \in Periods, u \in Users :
            /\ run[p].status = "NONE"
            /\ run' = [run EXCEPT ![p] = [NoRun EXCEPT !.status = "DRAFT", !.created = u]]
            /\ UNCHANGED slip
      BY <2>5 DEF CreateRun
    <3>2. q # p => run'[q] = run[q]
      BY <1>2, <3>1 DEF Inv, TypeOK
    <3>3. q = p => run'[q].status = "DRAFT"
      BY <1>2, <3>1 DEF Inv, TypeOK, NoRun
    <3> QED
      BY <2>1, <3>1, <3>2, <3>3
  <2>6. CASE Disburse
    BY <1>2, <2>0, <2>6, DisburseIsPayment
  <2>7. UNCHANGED <<run, slip, deducted, paid>> => run'[q] = run[q] /\ slip'[q] = slip[q]
    OBVIOUS
  <2> HIDE DEF Settled
  <2> QED
    BY <1>2, <2>1, <2>2, <2>3, <2>4, <2>5, <2>6, <2>7, FewWrite
<1>3. ASSUME Inv, SerialInv, PaidIsSettled, [Next]_vars PROVE PaidIsSettled'
  BY <1>2, <1>3 DEF PaidIsSettled
<1> QED
  BY <1>1, <1>3, SerialCallsAreCurrent, PTL DEF Spec

(***************************************************************************)
(* The loan.  Its counter is written as the value read plus one, so that   *)
(* two settlements may overlap when they belong to the same period (one of *)
(* them then finds the instalment taken) and only then.                    *)
(***************************************************************************)
OnePeriod == \A p, q \in Periods : p = q

Afters == {"idle", "retried", "processing"}

\* What a calculation read of the loan is still so, unless the instalment of
\* its period was deducted meanwhile and its settlement fails.
LoanIsRead(s) ==
  LET c == call[s] IN
  /\ c.after \in Afters
  /\ c.pc = "computed" /\ c.emi /\ c.period \notin deducted => c.loan = paid /\ paid < Instalments

LoanInv == LoanIsBooked /\ \A s \in Slots : LoanIsRead(s)

LEMMA CalledIs ==
  ASSUME Inv, NEW s \in Slots, NEW new, Become(s, new), NEW t \in Slots
  PROVE  call'[t] = IF t = s THEN new ELSE call[t]
  BY DEF Become, Inv, TypeOK

\* Only ReadEmployee brings a call to its settlement.
LEMMA OnlyReadersCompute ==
  ASSUME Inv, LoanInv, [Next]_vars, NEW t \in Slots
  PROVE  \/ call'[t] = call[t]
         \/ call'[t].pc # "computed" /\ call'[t].after \in Afters
         \/ ReadEmployee(t)
<1> DEFINE Moves == \/ call'[t] = call[t]
                    \/ call'[t].pc # "computed" /\ call'[t].after \in Afters
                    \/ ReadEmployee(t)
<1>0. call[t] \in Call /\ call[t].after \in Afters
  BY DEF Inv, TypeOK, LoanInv, LoanIsRead
<1>1. Idle.pc # "computed" /\ Idle.after \in Afters
  BY DEF Idle, Afters
<1>2. ASSUME NEW s \in Slots, Become(s, Idle) PROVE Moves
  BY <1>1, <1>2, CalledIs
<1>3. ASSUME NEW s \in Slots, NEW new, Become(s, new), new.pc # "computed", new.after \in Afters
      PROVE  Moves
  BY <1>3, CalledIs
<1>4. ASSUME NEW s \in Slots, Request(s) PROVE Moves
  <2>1. CASE CreateRun(s)
    <3>1. PICK p \in Periods : Become(s, [Idle EXCEPT !.pc = "created", !.period = p])
      BY <2>1 DEF CreateRun
    <3> DEFINE new == [Idle EXCEPT !.pc = "created", !.period = p]
    <3>2. new.pc = "created" /\ new.after = "idle"
      BY DEF Idle
    <3> HIDE DEF new
    <3>3. Become(s, new)
      BY <3>1 DEF new
    <3> QED
      BY <1>3, <3>2, <3>3 DEF Afters
  <2>2. CASE ~CreateRun(s)
    <3>1. PICK p \in Periods, u \in Users \cup {NoUser}, m \in Run, after \in Afters :
            Load(s, p, u, m, after)
      BY <1>4, <2>2, RequestsLoad DEF Inv, Afters
    <3> DEFINE new == [Idle EXCEPT !.pc = "loaded", !.period = p, !.user = u, !.old = run[p],
                            !.new = m, !.after = after,
                            !.saw = IF m.status = "PAID" THEN slip[p] ELSE NoSlip]
    <3>2. Become(s, new)
      BY <3>1 DEF Load
    <3>3. new.pc = "loaded" /\ new.after = after
      BY DEF Idle
    <3> HIDE DEF new
    <3> QED
      BY <1>3, <3>1, <3>2, <3>3
  <2> QED
    BY <2>1, <2>2
<1>5. ASSUME NEW s \in Slots, WorkerTakes(s) PROVE Moves
  <2>1. PICK p \in queue :
          \/ UNCHANGED call
          \/ Become(s, [Idle EXCEPT !.pc = "loaded", !.period = p, !.worker = TRUE,
                                    !.old = run[p], !.new = Started(run[p], NoUser),
                                    !.after = "processing"])
    BY <1>5 DEF WorkerTakes
  <2> DEFINE new == [Idle EXCEPT !.pc = "loaded", !.period = p, !.worker = TRUE,
                                 !.old = run[p], !.new = Started(run[p], NoUser),
                                 !.after = "processing"]
  <2>2. new.pc = "loaded" /\ new.after = "processing"
    BY DEF Idle
  <2>3. UNCHANGED call \/ Become(s, new)
    BY <2>1
  <2> HIDE DEF new
  <2> QED
    BY <1>3, <2>2, <2>3 DEF Afters
<1>6. ASSUME NEW s \in Slots, Commit(s) PROVE Moves
  <2>1. call[s] \in Call /\ call[s].after \in Afters
    BY DEF Inv, TypeOK, LoanInv, LoanIsRead
  <2> DEFINE new == [call[s] EXCEPT !.pc = call[s].after]
  <2>2. Become(s, Idle) \/ Become(s, new)
    BY <1>6 DEF Commit
  <2>3. new.pc = call[s].after /\ new.after = call[s].after
    BY <2>1 DEF Call
  <2> HIDE DEF new
  <2> QED
    BY <1>2, <1>3, <2>1, <2>2, <2>3 DEF Afters
<1>7. ASSUME NEW s \in Slots, CommitDelete(s) PROVE Moves
  <2>1. call'[t] = Idle \/ call'[t] = call[t]
    BY <1>7 DEF CommitDelete
  <2> QED
    BY <1>1, <2>1
<1>8. ASSUME NEW s \in Slots, ValidateCreated(s) PROVE Moves
  <2>1. call[s] \in Call /\ call[s].after \in Afters
    BY DEF Inv, TypeOK, LoanInv, LoanIsRead
  <2> DEFINE m == run[call[s].period]
             new == [call[s] EXCEPT !.pc = "loaded", !.old = m,
                                    !.new = [m EXCEPT !.status = "VALIDATED"]]
  <2>2. Become(s, Idle) \/ Become(s, new)
    BY <1>8 DEF ValidateCreated
  <2>3. new.pc = "loaded" /\ new.after = call[s].after
    BY <2>1 DEF Call
  <2> HIDE DEF new
  <2> QED
    BY <1>2, <1>3, <2>1, <2>2, <2>3 DEF Afters
<1>9. ASSUME NEW s \in Slots, ExecuteRetry(s) PROVE Moves
  <2>1. call[s] \in Call
    BY DEF Inv, TypeOK
  <2> DEFINE m == call[s].new
             new == [call[s] EXCEPT !.pc = "loaded", !.old = m,
                                    !.new = Started(m, call[s].user), !.after = "processing"]
  <2>2. Become(s, new)
    BY <1>9 DEF ExecuteRetry
  <2>3. new.pc = "loaded" /\ new.after = "processing"
    BY <2>1 DEF Call
  <2> HIDE DEF new
  <2> QED
    BY <1>3, <2>2, <2>3 DEF Afters
<1>10. ASSUME NEW s \in Slots, ClaimArrears(s) PROVE Moves
  <2>1. call[s] \in Call /\ call[s].after \in Afters
    BY DEF Inv, TypeOK, LoanInv, LoanIsRead
  <2> DEFINE new == [call[s] EXCEPT !.pc = "claimed", !.claims = PendingForRun(call[s].period)]
  <2>2. Become(s, new)
    BY <1>10 DEF ClaimArrears
  <2>3. new.pc = "claimed" /\ new.after = call[s].after
    BY <2>1 DEF Call
  <2> HIDE DEF new
  <2> QED
    BY <1>3, <2>1, <2>2, <2>3
<1>11. ASSUME NEW s \in Slots, ReadEmployee(s) PROVE Moves
  <2>1. s = t \/ call'[t] = call[t]
    BY <1>11 DEF ReadEmployee, Become, Inv, TypeOK
  <2> QED
    BY <1>11, <2>1
<1>12. ASSUME NEW s \in Slots, Settle(s) \/ SettleFails(s) \/ Fault(s) PROVE Moves
  <2>1. Become(s, Idle)
    BY <1>12 DEF Settle, SettleFails, Fault
  <2> QED
    BY <1>2, <2>1
<1>13. ASSUME DispatchRun \/ CreateArrear \/ Disburse \/ UNCHANGED vars PROVE Moves
  BY <1>13 DEF DispatchRun, CreateArrear, Disburse, vars
<1> HIDE DEF Moves
<1>14. ASSUME NEW s \in Slots, Step(s) PROVE Moves
  BY <1>6, <1>7, <1>8, <1>9, <1>10, <1>11, <1>12, <1>14 DEF Step
<1>15. Moves
  BY <1>4, <1>5, <1>12, <1>13, <1>14 DEF Next
<1> QED
  BY <1>15 DEF Moves

\* A settlement that goes through counts its instalment.
LEMMA SettleKeepsLoan ==
  ASSUME OneCall \/ OnePeriod, Inv, LoanInv, NEW s \in Slots, Settle(s)
  PROVE  LoanInv'
<1> DEFINE c == call[s]
           p == c.period
<1>1. /\ c.pc = "computed" /\ ~(c.emi /\ p \in deducted) /\ p \in Periods
      /\ deducted' = IF c.emi THEN deducted \cup {p} ELSE deducted
      /\ paid' = IF c.emi THEN c.loan + 1 ELSE paid
      /\ Become(s, Idle)
  BY DEF Settle, Conflict, Counted, Inv, TypeOK
<1>2. IsFiniteSet(deducted) /\ paid \in Nat /\ Instalments \in Nat
  BY RunAssumption, FS_Subset DEF Inv, TypeOK
<1>3. LoanIsBooked'
  <2>1. CASE c.emi
    <3>1. p \notin deducted /\ c.loan = paid /\ paid < Instalments
      BY <1>1, <2>1 DEF LoanInv, LoanIsRead
    <3>2. Cardinality(deducted \cup {p}) = Cardinality(deducted) + 1
      BY <1>2, <3>1, FS_AddElement
    <3> QED
      BY <1>1, <1>2, <2>1, <3>1, <3>2 DEF LoanInv, LoanIsBooked
  <2>2. CASE ~c.emi
    BY <1>1, <2>2 DEF LoanInv, LoanIsBooked
  <2> QED
    BY <2>1, <2>2
<1>4. ASSUME NEW t \in Slots PROVE LoanIsRead(t)'
  <2>1. call'[t] = IF t = s THEN Idle ELSE call[t]
    BY <1>1, CalledIs
  <2>2. CASE t = s
    BY <2>1, <2>2 DEF LoanIsRead, Idle, Afters
  <2>3. CASE t # s
    <3>1. OnePeriod /\ call'[t] = call[t] /\ LoanIsRead(t)
      BY <2>1, <2>3 DEF OneCall, LoanInv
    <3>2. CASE call[t].pc = "computed" /\ c.emi
      <4>1. call[t].period \in Periods
        BY <3>2 DEF Inv, TypeOK
      <4>2. call[t].period \in deducted'
        BY <1>1, <3>1, <3>2, <4>1 DEF OnePeriod
      <4> QED
        BY <3>1, <4>2 DEF LoanIsRead
    <3>3. CASE ~(call[t].pc = "computed" /\ c.emi)
      BY <1>1, <3>1, <3>3 DEF LoanIsRead
    <3> QED
      BY <3>2, <3>3
  <2> QED
    BY <2>2, <2>3
<1> QED
  BY <1>3, <1>4 DEF LoanInv

LEMMA LoanNext ==
  ASSUME OneCall \/ OnePeriod, Inv, LoanInv, [Next]_vars
  PROVE  LoanInv'
<1>1. ASSUME NEW s \in Slots, Settle(s) PROVE LoanInv'
  BY <1>1, SettleKeepsLoan
<1>2. CASE UNCHANGED <<deducted, paid>>
  <2>1. LoanIsBooked'
    BY <1>2 DEF LoanInv, LoanIsBooked
  <2>2. ASSUME NEW t \in Slots PROVE LoanIsRead(t)'
    <3>0. LoanIsRead(t) /\ call[t] \in Call
      BY DEF LoanInv, Inv, TypeOK
    <3>1. CASE call'[t] = call[t]
      BY <1>2, <3>0, <3>1 DEF LoanIsRead
    <3>2. CASE call'[t].pc # "computed" /\ call'[t].after \in Afters
      BY <3>2 DEF LoanIsRead
    <3>3. CASE ReadEmployee(t)
      <4> DEFINE p == call[t].period
      <4>1. call'[t] = [call[t] EXCEPT !.pc = "computed", !.emi = EmiDue(p),
                                       !.loan = paid, !.saw = slip[p]]
        BY <3>3 DEF ReadEmployee, Become, Inv, TypeOK
      <4>2. /\ call'[t].after = call[t].after /\ call'[t].emi = EmiDue(p)
            /\ call'[t].loan = paid
        BY <3>0, <4>1 DEF Call
      <4>3. EmiDue(p) => paid < Instalments
        BY DEF EmiDue
      <4> QED
        BY <1>2, <3>0, <4>2, <4>3 DEF LoanIsRead
    <3> QED
      BY <3>1, <3>2, <3>3, OnlyReadersCompute
  <2> QED
    BY <2>1, <2>2 DEF LoanInv
<1>3. ASSUME NEW s \in Slots, CreateRun(s) \/ Commit(s) \/ CommitDelete(s)
      PROVE  UNCHANGED <<deducted, paid>>
  BY <1>3 DEF CreateRun, Commit, CommitDelete
<1>4. Disburse => UNCHANGED <<deducted, paid>>
  BY DEF Disburse
<1> QED
  BY <1>1, <1>2, <1>3, <1>4, FewWrite

\* The loan's counter is the number of instalments deducted and never exceeds
\* the loan, when calculations do not overlap, or overlap in one period: the
\* second settlement of a period fails on the instalment's unique key.
THEOREM LoanIsDeductedOnce ==
  ASSUME OneCall \/ OnePeriod
  PROVE  Spec => []LoanIsBooked
<1>1. Init => LoanInv
  <2> SUFFICES ASSUME Init PROVE LoanInv
    OBVIOUS
  <2>1. LoanIsBooked
    BY RunAssumption, FS_EmptySet DEF Init, LoanIsBooked
  <2>2. \A s \in Slots : LoanIsRead(s)
    BY DEF Init, Idle, LoanIsRead, Afters
  <2> QED
    BY <2>1, <2>2 DEF LoanInv
<1>2. Inv /\ LoanInv /\ [Next]_vars => LoanInv'
  BY LoanNext
<1>3. LoanInv => LoanIsBooked
  BY DEF LoanInv
<1> QED
  BY <1>1, <1>2, <1>3, PayrollInvariant, PTL DEF Spec

=============================================================================
