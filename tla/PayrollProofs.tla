--------------------------- MODULE PayrollProofs ---------------------------
(***************************************************************************)
(* Proofs about PayrollRun, for every number of periods, users, arrears    *)
(* and calls that run at the same time.                                    *)
(***************************************************************************)
EXTENDS PayrollRun, TLAPS

\* The statuses that only a calculated run has on the canonical lifecycle.
Calculated == {"PROCESSED", "PENDING_APPROVAL", "APPROVED", "LOCKED", "PAID"}

(***************************************************************************)
(* Facts about the operators.                                              *)
(***************************************************************************)

\* The empty records are records of their types.
LEMMA EmptyTypes == NoRun \in Run /\ NoSlip \in Slip /\ Idle \in Call
<1>1. NoRun \in Run
  BY DEF NoRun, Run, Statuses
<1>2. NoSlip \in Slip
  BY DEF NoSlip, Slip, Payments
<1> QED
  BY <1>1, <1>2 DEF Idle, Call, PCs

\* An UPDATE of the changed columns leaves a row of the table.
LEMMA FlushRunType ==
  ASSUME NEW old \in Run, NEW new \in Run, NEW row \in Run
  PROVE  /\ FlushRun(old, new, row) \in Run
         /\ FlushRun(old, new, row).status \in {new.status, row.status}
  BY DEF FlushRun, Written, Run

LEMMA FlushSlipType ==
  ASSUME NEW old \in Slip, NEW new \in Slip, NEW row \in Slip
  PROVE  /\ FlushSlip(old, new, row) \in Slip
         /\ FlushSlip(old, new, row).exists
         /\ FlushSlip(old, new, row).emi \in {new.emi, row.emi}
         /\ FlushSlip(old, new, row).arrears \in {new.arrears, row.arrears}
  BY DEF FlushSlip, Written, Slip

\* Starting a calculation and finishing one change the run object's columns.
LEMMA StartedType ==
  ASSUME NEW m \in Run, NEW u \in Users \cup {NoUser}
  PROVE  /\ Started(m, u) \in Run /\ Started(m, u).status = "PROCESSING"
         /\ Processed(m) \in Run /\ Processed(m).status = "PROCESSED"
<1>1. Started(m, u) \in Run /\ Started(m, u).status = "PROCESSING"
  BY DEF Started, Run, Statuses
<1>2. Processed(m) \in Run /\ Processed(m).status = "PROCESSED"
  BY DEF Processed, Run, Statuses
<1> QED
  BY <1>1, <1>2

\* A change of status, and of who approved or closed, is a run object.
LEMMA EditedType ==
  ASSUME NEW m \in Run, NEW st \in Statuses, NEW u \in Users
  PROVE  /\ [m EXCEPT !.status = st] \in Run
         /\ [m EXCEPT !.status = st].status = st
         /\ [m EXCEPT !.status = st, !.approved = u] \in Run
         /\ [m EXCEPT !.status = st, !.approved = u].status = st
         /\ [m EXCEPT !.status = st, !.finalized = u] \in Run
         /\ [m EXCEPT !.status = st, !.finalized = u].status = st
  BY DEF Run

\* Every handler but create_run loads the run and leaves a changed object to be
\* committed; on the v2 routes a status that presupposes the calculation is
\* only given to a run that has such a status already.
LEMMA RequestsLoad ==
  ASSUME TypeOK, NEW s \in Slots, Request(s), ~CreateRun(s)
  PROVE  \E p \in Periods, u \in Users \cup {NoUser}, new \in Run,
            after \in {"idle", "retried", "processing"} :
            /\ Load(s, p, u, new, after)
            /\ new.status \in Calculated => Legacy \/ run[p].status \in Calculated
<1>0. \A p \in Periods : run[p] \in Run
  BY DEF TypeOK
<1>1. CASE ValidateRun(s)
  <2>1. PICK p \in Periods : Load(s, p, NoUser, [run[p] EXCEPT !.status = "VALIDATED"], "idle")
    BY <1>1 DEF ValidateRun
  <2>2. [run[p] EXCEPT !.status = "VALIDATED"] \in Run
        /\ [run[p] EXCEPT !.status = "VALIDATED"].status = "VALIDATED"
    BY <1>0 DEF Run, Statuses
  <2> QED
    BY <2>1, <2>2 DEF Calculated
<1>2. CASE CalculateRun(s)
  <2>1. PICK p \in Periods, u \in Users : Load(s, p, u, Started(run[p], u), "processing")
    BY <1>2 DEF CalculateRun
  <2> QED
    BY <2>1, <1>0, StartedType DEF Calculated
<1>3. CASE RetryRun(s)
  <2>1. PICK p \in Periods, u \in Users :
          Load(s, p, u, [run[p] EXCEPT !.status = "VALIDATED"], "retried")
    BY <1>3 DEF RetryRun
  <2>2. [run[p] EXCEPT !.status = "VALIDATED"] \in Run
        /\ [run[p] EXCEPT !.status = "VALIDATED"].status = "VALIDATED"
    BY <1>0 DEF Run, Statuses
  <2> QED
    BY <2>1, <2>2 DEF Calculated
<1>4. CASE SubmitForApproval(s)
  <2>1. PICK p \in Periods, u \in Users :
          /\ run[p].status = "PROCESSED"
          /\ Load(s, p, u, [run[p] EXCEPT !.status = "PENDING_APPROVAL"], "idle")
    BY <1>4 DEF SubmitForApproval
  <2>2. [run[p] EXCEPT !.status = "PENDING_APPROVAL"] \in Run
    BY <1>0, EditedType DEF Statuses
  <2>3. run[p].status \in Calculated
    BY <2>1 DEF Calculated
  <2> QED
    BY <2>1, <2>2, <2>3
<1>5. CASE ApproveRun(s)
  <2>1. PICK p \in Periods, u \in Users :
          /\ Legacy \/ run[p].status \in Calculated
          /\ Load(s, p, u, [run[p] EXCEPT !.status = "APPROVED", !.approved = u], "idle")
    BY <1>5 DEF ApproveRun, Approvable, Calculated
  <2> QED
    BY <2>1, <1>0, EditedType DEF Statuses
<1>6. CASE LockRun(s)
  <2>1. PICK p \in Periods, u \in Users, st \in {"LOCKED", "APPROVED"} :
          /\ run[p].status = "APPROVED"
          /\ Load(s, p, u, [run[p] EXCEPT !.status = st, !.finalized = u], "idle")
    BY <1>6 DEF LockRun
  <2>2. st \in Statuses
    BY DEF Statuses, Closed
  <2> QED
    BY <2>1, <2>2, <1>0, EditedType, ZenonT(60) DEF Calculated
<1>7. CASE FinalizeRun(s)
  <2>1. PICK p \in Periods, u \in Users :
          Load(s, p, u, [run[p] EXCEPT !.status = "FINALIZED", !.finalized = u], "idle")
    BY <1>7 DEF FinalizeRun
  <2>2. [run[p] EXCEPT !.status = "FINALIZED", !.finalized = u] \in Run
        /\ [run[p] EXCEPT !.status = "FINALIZED", !.finalized = u].status = "FINALIZED"
    BY <1>0 DEF Run, Statuses, Closed
  <2> QED
    BY <2>1, <2>2 DEF Calculated
<1>8. CASE MarkPaid(s)
  <2>1. PICK p \in Periods, u \in Users :
          /\ run[p].status = "LOCKED"
          /\ Load(s, p, u, [run[p] EXCEPT !.status = "PAID"], "idle")
    BY <1>8 DEF MarkPaid
  <2> QED
    BY <2>1, <1>0, EditedType, ZenonT(60) DEF Calculated, Statuses, Closed
<1>9. CASE RejectOrCancelOrSendBack(s)
  <2>1. PICK p \in Periods, u \in Users, st \in {"REJECTED", "CANCELLED", "DRAFT"} :
          Load(s, p, u, [run[p] EXCEPT !.status = st], "idle")
    BY <1>9 DEF RejectOrCancelOrSendBack
  <2>2. [run[p] EXCEPT !.status = st] \in Run /\ [run[p] EXCEPT !.status = st].status = st
    BY <1>0 DEF Run, Statuses
  <2> QED
    BY <2>1, <2>2 DEF Calculated
<1>10. CASE DeleteRun(s)
  <2>1. PICK p \in Periods : Load(s, p, NoUser, NoRun, "idle")
    BY <1>10 DEF DeleteRun
  <2> QED
    BY <2>1, EmptyTypes DEF Calculated, NoRun
<1> QED
  BY <1>1, <1>2, <1>3, <1>4, <1>5, <1>6, <1>7, <1>8, <1>9, <1>10 DEF Request

(***************************************************************************)
(* The inductive invariant.  LiveRuns is what it adds: a call that goes on *)
(* works on a run that is there, because the deletion ends the others.     *)
(***************************************************************************)
LiveRuns == \A s \in Slots : call[s].pc # "idle" => run[call[s].period].status # "NONE"

Inv == TypeOK /\ LiveRuns /\ SlipIsBooked

LEMMA InvInit == Init => Inv
<1> SUFFICES ASSUME Init PROVE Inv
  OBVIOUS
<1>1. TypeOK
  <2>1. run \in [Periods -> Run] /\ slip \in [Periods -> Slip] /\ call \in [Slots -> Call]
    BY EmptyTypes DEF Init
  <2>2. \A s \in Slots : call[s].pc = "idle"
    BY DEF Init, Idle
  <2>3. faults \in 0 .. MaxFaults
    BY RunAssumption DEF Init
  <2> QED
    BY <2>1, <2>2, <2>3 DEF Init, TypeOK
<1>2. LiveRuns
  BY DEF Init, LiveRuns, Idle
<1>3. SlipIsBooked
  BY DEF Init, SlipIsBooked, NoSlip
<1> QED
  BY <1>1, <1>2, <1>3 DEF Inv

\* A step that changes only what one call remembers.
LEMMA CallKeepsInv ==
  ASSUME Inv, NEW s \in Slots, NEW c \in Call, Become(s, c),
         UNCHANGED <<run, slip, deducted, paid, ledger>>,
         queue' \subseteq Periods, faults' \in 0 .. MaxFaults,
         c.pc # "idle" => c.period \in Periods /\ run[c.period].status # "NONE"
  PROVE  Inv'
<1>1. call' \in [Slots -> Call] /\ call'[s] = c /\ \A t \in Slots \ {s} : call'[t] = call[t]
  BY DEF Inv, TypeOK, Become
<1>2. TypeOK'
  BY <1>1 DEF Inv, TypeOK
<1>3. LiveRuns'
  BY <1>1 DEF Inv, LiveRuns
<1>4. SlipIsBooked'
  BY DEF Inv, SlipIsBooked
<1> QED
  BY <1>2, <1>3, <1>4 DEF Inv

\* One step of a request, the worker or the queue that loads a run.
LEMMA LoadKeepsInv ==
  ASSUME Inv, NEW s \in Slots, NEW p \in Periods, NEW u \in Users \cup {NoUser},
         NEW new \in Run, NEW after \in {"idle", "retried", "processing"},
         Load(s, p, u, new, after)
  PROVE  Inv'
<1> DEFINE saw == IF new.status = "PAID" THEN slip[p] ELSE NoSlip
           c == [Idle EXCEPT !.pc = "loaded", !.period = p, !.user = u,
                             !.old = run[p], !.new = new, !.after = after, !.saw = saw]
<1>0. saw \in Slip
  BY EmptyTypes DEF Inv, TypeOK
<1>1. c \in Call /\ c.period = p
  BY <1>0, EmptyTypes, ZenonT(60) DEF Inv, TypeOK, Call, Idle, PCs
<1>2. /\ Become(s, c) /\ UNCHANGED <<run, slip, deducted, paid, ledger>>
      /\ queue' \subseteq Periods /\ faults' \in 0 .. MaxFaults
      /\ run[p].status # "NONE"
  BY DEF Load, Inv, TypeOK
<1> HIDE DEF c
<1> QED
  BY <1>1, <1>2, CallKeepsInv

LEMMA CreateKeepsInv ==
  ASSUME Inv, NEW s \in Slots, CreateRun(s)
  PROVE  Inv'
<1>1. PICK p \in Periods, u \in Users :
        /\ call[s].pc = "idle"
        /\ run[p].status = "NONE"
        /\ run' = [run EXCEPT ![p] = [NoRun EXCEPT !.status = "DRAFT", !.created = u]]
        /\ Become(s, [Idle EXCEPT !.pc = "created", !.period = p])
        /\ UNCHANGED <<slip, deducted, paid, ledger, queue, faults>>
  BY DEF CreateRun
<1> DEFINE m == [NoRun EXCEPT !.status = "DRAFT", !.created = u]
           c == [Idle EXCEPT !.pc = "created", !.period = p]
<1>2. m \in Run /\ m.status = "DRAFT"
  BY DEF NoRun, Run, Statuses
<1>3. c \in Call /\ c.period = p
  BY EmptyTypes DEF Call, Idle, PCs
<1>4. run' = [run EXCEPT ![p] = m] /\ call' = [call EXCEPT ![s] = c]
  BY <1>1 DEF Become
<1> HIDE DEF m, c
<1>5. TypeOK'
  BY <1>1, <1>2, <1>3, <1>4 DEF Inv, TypeOK
<1>6. \A q \in Periods : run'[q].status = "NONE" => run[q].status = "NONE"
  BY <1>2, <1>4 DEF Inv, TypeOK
<1>7. LiveRuns'
  BY <1>2, <1>3, <1>4 DEF Inv, TypeOK, LiveRuns
<1>8. SlipIsBooked'
  BY <1>1, <1>6 DEF Inv, SlipIsBooked
<1> QED
  BY <1>5, <1>7, <1>8 DEF Inv

LEMMA RequestKeepsInv ==
  ASSUME Inv, NEW s \in Slots, Request(s)
  PROVE  Inv'
<1>1. CASE CreateRun(s)
  BY <1>1, CreateKeepsInv
<1>2. CASE ~CreateRun(s)
  <2>1. PICK p \in Periods, u \in Users \cup {NoUser}, new \in Run,
             after \in {"idle", "retried", "processing"} : Load(s, p, u, new, after)
    BY <1>2, RequestsLoad DEF Inv
  <2> QED
    BY <2>1, LoadKeepsInv
<1> QED
  BY <1>1, <1>2

\* The write of a handler, and of the calculation: the object's changed columns
\* are columns of a run that exists.
LEMMA CommitKeepsInv ==
  ASSUME Inv, NEW s \in Slots, Commit(s)
  PROVE  Inv'
<1> DEFINE c == call[s]
           p == c.period
           m == FlushRun(c.old, c.new, run[p])
           d == IF c.after = "idle" THEN Idle ELSE [c EXCEPT !.pc = c.after]
<1>1. c \in Call /\ c.pc = "loaded" /\ p \in Periods /\ run[p] \in Run /\ slip[p] \in Slip
  BY DEF Inv, TypeOK, Commit
<1>2. c.old \in Run /\ c.new \in Run /\ c.new.status # "NONE" /\ run[p].status # "NONE"
  BY <1>1 DEF Inv, LiveRuns, Call, Commit
<1>3. m \in Run /\ m.status # "NONE"
  BY <1>1, <1>2, FlushRunType
<1>4. d \in Call /\ (d.pc # "idle" => d.period = p)
  BY <1>1, EmptyTypes DEF Call, Idle
<1>5. run' = [run EXCEPT ![p] = m] /\ call' = [call EXCEPT ![s] = d]
      /\ UNCHANGED <<deducted, paid, ledger, queue, faults>>
  BY DEF Commit, Become
<1>6. /\ slip' \in [Periods -> Slip]
      /\ \A q \in Periods : /\ slip'[q].exists = slip[q].exists
                            /\ slip'[q].emi = slip[q].emi
                            /\ slip'[q].arrears = slip[q].arrears
  <2>1. slip' = IF c.new.status = "PAID" /\ c.saw.exists
                THEN [slip EXCEPT ![p].payment = Written(c.saw.payment, "PAID", @)] ELSE slip
    BY DEF Commit, PaySlips
  <2>2. Written(c.saw.payment, "PAID", slip[p].payment) \in Payments
    BY <1>1 DEF Written, Slip, Payments
  <2> QED
    BY <2>1, <2>2, <1>1 DEF Inv, TypeOK, Slip
<1> HIDE DEF m, d
<1>7. TypeOK'
  BY <1>1, <1>3, <1>4, <1>5, <1>6 DEF Inv, TypeOK
<1>8. \A q \in Periods : run'[q].status = "NONE" => run[q].status = "NONE"
  BY <1>1, <1>3, <1>5 DEF Inv, TypeOK
<1>9. LiveRuns'
  BY <1>1, <1>2, <1>3, <1>4, <1>5, <1>8 DEF Inv, TypeOK, LiveRuns
<1>10. SlipIsBooked'
  BY <1>5, <1>6, <1>8 DEF Inv, SlipIsBooked
<1> QED
  BY <1>7, <1>9, <1>10 DEF Inv

LEMMA DeleteKeepsInv ==
  ASSUME Inv, NEW s \in Slots, CommitDelete(s)
  PROVE  Inv'
<1> DEFINE p == call[s].period
<1>1. p \in Periods
  BY DEF Inv, TypeOK, CommitDelete
<1>2. /\ run' = [run EXCEPT ![p] = NoRun] /\ slip' = [slip EXCEPT ![p] = NoSlip]
      /\ queue' = queue \ {p}
      /\ call' = [t \in Slots |-> IF call[t].period = p THEN Idle ELSE call[t]]
      /\ UNCHANGED <<deducted, paid, ledger, faults>>
  BY DEF CommitDelete, WithoutSlips
<1>3. Idle.pc = "idle"
  BY DEF Idle
<1>4. TypeOK'
  BY <1>1, <1>2, <1>3, EmptyTypes DEF Inv, TypeOK
<1>5. LiveRuns'
  BY <1>1, <1>2, <1>3 DEF Inv, TypeOK, LiveRuns
<1>6. ~slip'[p].exists /\ ~slip'[p].emi /\ slip'[p].arrears = {}
  BY <1>1, <1>2 DEF Inv, TypeOK, NoSlip
<1>7. \A q \in Periods \ {p} : slip'[q] = slip[q] /\ run'[q] = run[q]
  BY <1>2 DEF Inv, TypeOK
<1>8. SlipIsBooked'
  BY <1>2, <1>6, <1>7 DEF Inv, SlipIsBooked
<1> QED
  BY <1>4, <1>5, <1>8 DEF Inv

\* The one transaction that books the instalment and the arrears also writes
\* the payslip that shows them.
LEMMA SettleKeepsInv ==
  ASSUME Inv, NEW s \in Slots, Settle(s)
  PROVE  Inv'
<1> DEFINE c == call[s]
           p == c.period
           new == [exists |-> TRUE, emi |-> c.emi, arrears |-> c.claims, payment |-> "PENDING"]
           ps == FlushSlip(c.saw, new, slip[p])
           m == FlushRun(c.new, Processed(c.new), run[p])
<1>1. c \in Call /\ c.pc = "computed" /\ p \in Periods /\ run[p] \in Run /\ slip[p] \in Slip
  BY DEF Inv, TypeOK, Settle
<1>2. /\ c.new \in Run /\ c.saw \in Slip /\ new \in Slip /\ run[p].status # "NONE"
      /\ c.claims \subseteq Arrears /\ c.emi \in BOOLEAN /\ c.loan \in Nat
  BY <1>1 DEF Inv, LiveRuns, Call, Slip, Payments
<1>3. Processed(c.new) \in Run /\ Processed(c.new).status = "PROCESSED"
  BY <1>2 DEF Processed, Run, Statuses
<1>4. m \in Run /\ m.status # "NONE"
  BY <1>1, <1>2, <1>3, FlushRunType
<1>5. /\ ps \in Slip /\ ps.emi \in {c.emi, slip[p].emi}
      /\ ps.arrears \in {c.claims, slip[p].arrears}
  BY <1>1, <1>2, FlushSlipType
<1>6. /\ run' = [run EXCEPT ![p] = m] /\ slip' = [slip EXCEPT ![p] = ps]
      /\ deducted' = (IF c.emi THEN deducted \cup {p} ELSE deducted)
      /\ paid' \in Nat
      /\ ledger' = [a \in Arrears |-> IF a \in c.claims THEN "APPLIED" ELSE ledger[a]]
      /\ queue' \subseteq queue /\ faults' = faults
      /\ call' = [call EXCEPT ![s] = Idle]
  <2>1. paid' \in Nat
    BY <1>2 DEF Settle, Counted, Inv, TypeOK
  <2>2. queue' \subseteq queue
    BY DEF Settle, Acked
  <2> QED
    BY <2>1, <2>2 DEF Settle, MarkApplied, Become
<1>7. Idle \in Call /\ Idle.pc = "idle"
  BY EmptyTypes DEF Idle
<1> HIDE DEF m, ps
<1>8. TypeOK'
  <2>1. deducted' \subseteq Periods /\ queue' \subseteq Periods
    BY <1>1, <1>6 DEF Inv, TypeOK
  <2>2. ledger' \in [Arrears -> {"NONE", "PENDING", "APPLIED"}]
    BY <1>6 DEF Inv, TypeOK
  <2>3. run' \in [Periods -> Run] /\ slip' \in [Periods -> Slip] /\ call' \in [Slots -> Call]
    BY <1>4, <1>5, <1>6, <1>7 DEF Inv, TypeOK
  <2>4. \A t \in Slots : call'[t].pc # "idle" => call'[t].period \in Periods
    BY <1>6, <1>7 DEF Inv, TypeOK
  <2> QED
    BY <2>1, <2>2, <2>3, <2>4, <1>6 DEF Inv, TypeOK
<1>9. \A q \in Periods : run'[q].status = "NONE" => run[q].status = "NONE"
  BY <1>1, <1>4, <1>6 DEF Inv, TypeOK
<1>10. LiveRuns'
  BY <1>6, <1>7, <1>9 DEF Inv, TypeOK, LiveRuns
<1>11. SlipIsBooked'
  <2>1. slip'[p] = ps /\ run'[p] = m /\ \A q \in Periods \ {p} : slip'[q] = slip[q]
    BY <1>1, <1>6 DEF Inv, TypeOK
  <2>2. deducted \subseteq deducted' /\ (c.emi => p \in deducted')
    BY <1>6
  <2>3. /\ \A a \in c.claims : ledger'[a] = "APPLIED"
        /\ \A a \in Arrears : ledger[a] = "APPLIED" => ledger'[a] = "APPLIED"
    BY <1>2, <1>6
  <2>4. \A q \in Periods : slip[q].arrears \subseteq Arrears
    BY DEF Inv, TypeOK, Slip
  <2>5. ps.emi => p \in deducted'
    BY <1>1, <1>5, <2>2 DEF Inv, SlipIsBooked
  <2>6. \A a \in ps.arrears : ledger'[a] = "APPLIED"
    BY <1>1, <1>5, <2>3, <2>4 DEF Inv, SlipIsBooked
  <2>7. SUFFICES ASSUME NEW q \in Periods
                 PROVE  /\ slip'[q].exists => run'[q].status # "NONE"
                        /\ slip'[q].emi => q \in deducted'
                        /\ \A a \in slip'[q].arrears : ledger'[a] = "APPLIED"
    BY DEF SlipIsBooked
  <2>8. CASE q = p
    BY <2>8, <2>1, <2>5, <2>6, <1>4
  <2>9. CASE q # p
    BY <2>9, <2>1, <2>2, <2>3, <2>4, <1>9 DEF Inv, SlipIsBooked
  <2> QED
    BY <2>8, <2>9
<1> QED
  BY <1>8, <1>10, <1>11 DEF Inv

LEMMA StepKeepsInv ==
  ASSUME Inv, NEW s \in Slots, Step(s)
  PROVE  Inv'
<1> DEFINE c == call[s]
<1>0. c \in Call /\ Idle \in Call /\ Idle.pc = "idle" /\ Acked(s) \subseteq Periods
  BY EmptyTypes DEF Inv, TypeOK, Idle, Acked
<1>1. CASE ValidateCreated(s)
  <2> DEFINE m == run[c.period]
             d == [c EXCEPT !.pc = "loaded", !.old = m, !.new = [m EXCEPT !.status = "VALIDATED"]]
  <2>1. c.period \in Periods /\ m \in Run /\ m.status # "NONE"
    BY <1>1 DEF ValidateCreated, Inv, TypeOK, LiveRuns
  <2>2. [m EXCEPT !.status = "VALIDATED"] \in Run
    BY <2>1 DEF Run, Statuses
  <2>3. d \in Call /\ d.period = c.period
    BY <1>0, <2>1, <2>2 DEF Call, PCs
  <2>4. /\ Become(s, d) \/ Become(s, Idle)
        /\ UNCHANGED <<run, slip, deducted, paid, ledger, queue, faults>>
    BY <1>1 DEF ValidateCreated
  <2> HIDE DEF d
  <2> QED
    BY <2>1, <2>3, <2>4, <1>0, CallKeepsInv DEF Inv, TypeOK
<1>2. CASE Commit(s)
  BY <1>2, CommitKeepsInv
<1>3. CASE CommitDelete(s)
  BY <1>3, DeleteKeepsInv
<1>4. CASE ExecuteRetry(s)
  <2> DEFINE d == [c EXCEPT !.pc = "loaded", !.old = c.new,
                            !.new = Started(c.new, c.user), !.after = "processing"]
  <2>1. c.period \in Periods /\ run[c.period].status # "NONE"
    BY <1>4 DEF ExecuteRetry, Inv, TypeOK, LiveRuns
  <2>2. c.new \in Run /\ c.user \in Users \cup {NoUser}
    BY <1>0 DEF Call
  <2>3. Started(c.new, c.user) \in Run
    BY <2>2, StartedType
  <2>4. d \in Call /\ d.period = c.period
    BY <1>0, <2>2, <2>3 DEF Call, PCs
  <2>5. /\ Become(s, d)
        /\ UNCHANGED <<run, slip, deducted, paid, ledger, queue, faults>>
    BY <1>4 DEF ExecuteRetry
  <2> HIDE DEF d
  <2> QED
    BY <2>1, <2>4, <2>5, CallKeepsInv DEF Inv, TypeOK
<1>5. CASE ClaimArrears(s)
  <2> DEFINE d == [c EXCEPT !.pc = "claimed", !.claims = PendingForRun(c.period)]
  <2>1. c.period \in Periods /\ run[c.period].status # "NONE"
    BY <1>5 DEF ClaimArrears, Inv, TypeOK, LiveRuns
  <2>2. PendingForRun(c.period) \in SUBSET Arrears
    BY DEF PendingForRun
  <2>3. d \in Call /\ d.period = c.period
    BY <1>0, <2>2 DEF Call, PCs
  <2>4. /\ Become(s, d)
        /\ UNCHANGED <<run, slip, deducted, paid, ledger, queue, faults>>
    BY <1>5 DEF ClaimArrears
  <2> HIDE DEF d
  <2> QED
    BY <2>1, <2>3, <2>4, CallKeepsInv DEF Inv, TypeOK
<1>6. CASE ReadEmployee(s)
  <2> DEFINE d == [c EXCEPT !.pc = "computed", !.emi = EmiDue(c.period),
                            !.loan = paid, !.saw = slip[c.period]]
  <2>1. c.period \in Periods /\ run[c.period].status # "NONE" /\ slip[c.period] \in Slip
        /\ paid \in Nat
    BY <1>6 DEF ReadEmployee, Inv, TypeOK, LiveRuns
  <2>2. EmiDue(c.period) \in BOOLEAN
    BY DEF EmiDue
  <2>3. d \in Call /\ d.period = c.period
    BY <1>0, <2>1, <2>2 DEF Call, PCs
  <2>4. /\ Become(s, d)
        /\ UNCHANGED <<run, slip, deducted, paid, ledger, queue, faults>>
    BY <1>6 DEF ReadEmployee
  <2> HIDE DEF d
  <2> QED
    BY <2>1, <2>3, <2>4, CallKeepsInv DEF Inv, TypeOK
<1>7. CASE Settle(s)
  BY <1>7, SettleKeepsInv
<1>8. CASE SettleFails(s)
  <2>1. /\ Become(s, Idle) /\ UNCHANGED <<run, slip, deducted, paid, ledger, faults>>
        /\ queue' \subseteq Periods
    BY <1>8, <1>0 DEF SettleFails
  <2> QED
    BY <2>1, <1>0, CallKeepsInv DEF Inv, TypeOK
<1> QED
  BY <1>1, <1>2, <1>3, <1>4, <1>5, <1>6, <1>7, <1>8 DEF Step

\* A bank feed or a payout changes nothing of a payslip but its payment status.
LEMMA DisburseIsPayment ==
  ASSUME Inv, Disburse
  PROVE  /\ UNCHANGED <<run, deducted, paid, ledger, queue, faults, call>>
         /\ slip' \in [Periods -> Slip]
         /\ \A q \in Periods :
              /\ slip'[q].exists = slip[q].exists
              /\ slip'[q].emi = slip[q].emi
              /\ slip'[q].arrears = slip[q].arrears
              /\ slip'[q].payment = "PENDING" => slip[q].payment = "PENDING"
<1>1. PICK p \in Periods, st \in Outcomes : slip' = [slip EXCEPT ![p].payment = st]
  BY DEF Disburse
<1>2. st \in {"PAID", "FAILED"} /\ slip \in [Periods -> Slip]
  BY RunAssumption DEF Inv, TypeOK
<1>3. /\ slip'[p] = [slip[p] EXCEPT !.payment = st]
      /\ \A q \in Periods \ {p} : slip'[q] = slip[q]
      /\ slip' = [slip EXCEPT ![p] = [slip[p] EXCEPT !.payment = st]]
  BY <1>1, <1>2
<1>4. /\ [slip[p] EXCEPT !.payment = st] \in Slip
      /\ slip'[p].exists = slip[p].exists /\ slip'[p].emi = slip[p].emi
      /\ slip'[p].arrears = slip[p].arrears /\ slip'[p].payment = st
  BY <1>2, <1>3 DEF Slip, Payments
<1> QED
  BY <1>2, <1>3, <1>4 DEF Disburse

LEMMA InvNext == Inv /\ [Next]_vars => Inv'
<1> SUFFICES ASSUME Inv, [Next]_vars PROVE Inv'
  OBVIOUS
<1>1. CASE \E s \in Slots : Request(s)
  BY <1>1, RequestKeepsInv
<1>2. ASSUME NEW s \in Slots, WorkerTakes(s) PROVE Inv'
  <2>1. PICK p \in queue :
          /\ run[p].status # "VALIDATED" => queue' = queue \ {p} /\ UNCHANGED call
          /\ run[p].status = "VALIDATED" =>
                /\ Become(s, [Idle EXCEPT !.pc = "loaded", !.period = p, !.worker = TRUE,
                                          !.old = run[p], !.new = Started(run[p], NoUser),
                                          !.after = "processing"])
                /\ UNCHANGED queue
          /\ UNCHANGED <<run, slip, deducted, paid, ledger, faults>>
    BY <1>2 DEF WorkerTakes
  <2>2. CASE run[p].status # "VALIDATED"
    BY <2>1, <2>2 DEF Inv, TypeOK, LiveRuns, SlipIsBooked
  <2>3. CASE run[p].status = "VALIDATED"
    <3> DEFINE d == [Idle EXCEPT !.pc = "loaded", !.period = p, !.worker = TRUE,
                                 !.old = run[p], !.new = Started(run[p], NoUser),
                                 !.after = "processing"]
    <3>1. p \in Periods /\ run[p] \in Run
      BY <2>1 DEF Inv, TypeOK
    <3>2. Started(run[p], NoUser) \in Run
      BY <3>1, StartedType
    <3>3. d \in Call /\ d.period = p
      BY <3>1, <3>2, EmptyTypes DEF Call, Idle, PCs
    <3>4. Become(s, d) /\ UNCHANGED <<run, slip, deducted, paid, ledger, queue, faults>>
      BY <2>1, <2>3
    <3> HIDE DEF d
    <3> QED
      BY <3>1, <3>3, <3>4, <2>3, CallKeepsInv DEF Inv, TypeOK
  <2> QED
    BY <2>2, <2>3
<1>3. CASE \E s \in Slots : Step(s)
  BY <1>3, StepKeepsInv
<1>4. ASSUME NEW s \in Slots, Fault(s) PROVE Inv'
  <2>1. Become(s, Idle) /\ UNCHANGED <<run, slip, deducted, paid, ledger>>
    BY <1>4 DEF Fault
  <2>2. Idle \in Call /\ Idle.pc = "idle"
    BY EmptyTypes DEF Idle
  <2>3. queue' \subseteq Periods
    BY <1>4 DEF Fault, Acked, Inv, TypeOK
  <2>4. faults' \in 0 .. MaxFaults
    BY <1>4, RunAssumption DEF Fault, Inv, TypeOK
  <2> QED
    BY <2>1, <2>2, <2>3, <2>4, CallKeepsInv
<1>5. CASE DispatchRun
  BY <1>5 DEF DispatchRun, Inv, TypeOK, LiveRuns, SlipIsBooked
<1>6. CASE CreateArrear
  <2>1. PICK a \in Arrears : ledger[a] = "NONE" /\ ledger' = [ledger EXCEPT ![a] = "PENDING"]
    BY <1>6 DEF CreateArrear
  <2>2. UNCHANGED <<run, slip, deducted, paid, queue, faults, call>>
    BY <1>6 DEF CreateArrear
  <2>3. TypeOK' /\ LiveRuns'
    BY <2>1, <2>2 DEF Inv, TypeOK, LiveRuns
  <2>4. \A b \in Arrears : ledger[b] = "APPLIED" => ledger'[b] = "APPLIED"
    BY <2>1 DEF Inv, TypeOK
  <2>5. \A q \in Periods : slip[q].arrears \subseteq Arrears
    BY DEF Inv, TypeOK, Slip
  <2>6. SlipIsBooked'
    BY <2>2, <2>4, <2>5 DEF Inv, SlipIsBooked
  <2> QED
    BY <2>3, <2>6 DEF Inv
<1>7. CASE Disburse
  BY <1>7, DisburseIsPayment DEF Inv, TypeOK, LiveRuns, SlipIsBooked
<1>8. CASE UNCHANGED vars
  BY <1>8 DEF vars, Inv, TypeOK, LiveRuns, SlipIsBooked
<1> QED
  BY <1>1, <1>2, <1>3, <1>4, <1>5, <1>6, <1>7, <1>8 DEF Next

\* Every variable keeps its type, and a call that goes on has its run, however
\* the handlers of run_service.py overlap, die or are repeated.
THEOREM PayrollInvariant == Spec => []Inv
  BY InvInit, InvNext, PTL DEF Spec

\* What a payslip deducts or pays is booked in the loan's instalments and in the
\* arrear ledger: execute_run_calculation settles all of it in one transaction.
THEOREM PayslipsAreBooked == Spec => []SlipIsBooked
<1>1. Inv => SlipIsBooked
  BY DEF Inv
<1> QED
  BY <1>1, PayrollInvariant, PTL

\* Every variable keeps its type: no handler writes a status, a user or a period
\* that the columns of payroll_runs and payslips do not allow.
THEOREM PayrollTypeCorrect == Spec => []TypeOK
<1>1. Inv => TypeOK
  BY DEF Inv
<1> QED
  BY <1>1, PayrollInvariant, PTL

(***************************************************************************)
(* The canonical lifecycle, without the v1 routes.  A write can be late,   *)
(* so the invariant also speaks of the writes that are still to come.      *)
(***************************************************************************)
Lifecycle ==
    /\ \A p \in Periods : run[p].status \in Calculated => slip[p].exists
    /\ \A s \in Slots : call[s].pc # "idle" /\ call[s].new.status \in Calculated
                        => slip[call[s].period].exists

\* A step that changes only what one call remembers.
LEMMA CallKeepsLifecycle ==
  ASSUME Inv, Lifecycle, NEW s \in Slots, NEW c, Become(s, c), UNCHANGED <<run, slip>>,
         c.pc # "idle" /\ c.new.status \in Calculated => slip[c.period].exists
  PROVE  Lifecycle'
<1>1. call'[s] = c /\ \A t \in Slots \ {s} : call'[t] = call[t]
  BY DEF Inv, TypeOK, Become
<1> QED
  BY <1>1 DEF Lifecycle

LEMMA RequestKeepsLifecycle ==
  ASSUME ~Legacy, Inv, Lifecycle, NEW s \in Slots, Request(s)
  PROVE  Lifecycle'
<1>1. CASE CreateRun(s)
  <2>1. PICK p \in Periods, u \in Users :
          /\ run' = [run EXCEPT ![p] = [NoRun EXCEPT !.status = "DRAFT", !.created = u]]
          /\ Become(s, [Idle EXCEPT !.pc = "created", !.period = p])
          /\ UNCHANGED slip
    BY <1>1 DEF CreateRun
  <2>2. /\ run'[p].status = "DRAFT"
        /\ \A q \in Periods \ {p} : run'[q] = run[q]
    BY <2>1 DEF NoRun, Inv, TypeOK
  <2>3. /\ call'[s].new.status = "NONE"
        /\ \A t \in Slots \ {s} : call'[t] = call[t]
    BY <2>1 DEF Become, Idle, NoRun, Inv, TypeOK
  <2> QED
    BY <2>1, <2>2, <2>3 DEF Lifecycle, Calculated
<1>2. CASE ~CreateRun(s)
  <2>1. PICK p \in Periods, u \in Users \cup {NoUser}, new \in Run,
             after \in {"idle", "retried", "processing"} :
          /\ Load(s, p, u, new, after)
          /\ new.status \in Calculated => run[p].status \in Calculated
    BY <1>2, RequestsLoad DEF Inv
  <2> DEFINE c == [Idle EXCEPT !.pc = "loaded", !.period = p, !.user = u,
                               !.old = run[p], !.new = new, !.after = after,
                               !.saw = IF new.status = "PAID" THEN slip[p] ELSE NoSlip]
  <2>2. Become(s, c) /\ UNCHANGED <<run, slip>>
    BY <2>1 DEF Load
  <2>3. c.period = p /\ c.new = new
    BY DEF Idle
  <2>4. c.new.status \in Calculated => slip[c.period].exists
    BY <2>1, <2>3 DEF Lifecycle
  <2> HIDE DEF c
  <2> QED
    BY <2>2, <2>4, CallKeepsLifecycle
<1> QED
  BY <1>1, <1>2

\* The writes: what is calculated stays so, and a run that becomes PROCESSED
\* gets its payslip in the same transaction.
LEMMA WriteKeepsLifecycle ==
  ASSUME Inv, Lifecycle, NEW s \in Slots, Commit(s) \/ CommitDelete(s) \/ Settle(s)
  PROVE  Lifecycle'
<1> DEFINE c == call[s]
           p == c.period
<1>1. c \in Call /\ c.pc # "idle" /\ p \in Periods /\ run[p] \in Run /\ slip[p] \in Slip
  BY DEF Inv, TypeOK, Commit, CommitDelete, Settle
<1>2. c.old \in Run /\ c.new \in Run /\ c.saw \in Slip /\ Idle.pc = "idle"
  BY <1>1 DEF Call, Idle
<1>3. CASE Commit(s)
  <2> DEFINE m == FlushRun(c.old, c.new, run[p])
             d == IF c.after = "idle" THEN Idle ELSE [c EXCEPT !.pc = c.after]
  <2>1. m.status \in {c.new.status, run[p].status}
    BY <1>1, <1>2, FlushRunType
  <2>2. run'[p] = m /\ \A q \in Periods \ {p} : run'[q] = run[q]
    BY <1>1, <1>3 DEF Commit, Inv, TypeOK
  <2>3. \A q \in Periods : slip'[q].exists = slip[q].exists
    BY <1>1, <1>3 DEF Commit, PaySlips, Inv, TypeOK, Slip
  <2>4. d.pc # "idle" => d.period = p /\ d.new = c.new
    BY <1>1, <1>2 DEF Call
  <2>5. call'[s] = d /\ \A t \in Slots \ {s} : call'[t] = call[t]
    BY <1>3 DEF Commit, Become, Inv, TypeOK
  <2> HIDE DEF m, d
  <2>6. m.status \in Calculated => slip[p].exists
    BY <2>1, <1>1 DEF Lifecycle
  <2>7. \A q \in Periods : run'[q].status \in Calculated => slip'[q].exists
    BY <2>2, <2>3, <2>6 DEF Lifecycle
  <2>8. \A t \in Slots : call'[t].pc # "idle" /\ call'[t].new.status \in Calculated
                         => slip'[call'[t].period].exists
    BY <2>3, <2>4, <2>5, <1>1 DEF Lifecycle, Inv, TypeOK
  <2> QED
    BY <2>7, <2>8 DEF Lifecycle
<1>4. CASE CommitDelete(s)
  <2>1. /\ run' = [run EXCEPT ![p] = NoRun] /\ slip' = [slip EXCEPT ![p] = NoSlip]
        /\ call' = [t \in Slots |-> IF call[t].period = p THEN Idle ELSE call[t]]
    BY <1>4 DEF CommitDelete, WithoutSlips
  <2>2. run'[p].status = "NONE" /\ \A q \in Periods \ {p} : run'[q] = run[q] /\ slip'[q] = slip[q]
    BY <2>1, <1>1 DEF Inv, TypeOK, NoRun
  <2>3. \A t \in Slots : call'[t].pc # "idle" => call'[t] = call[t] /\ call[t].period \in Periods \ {p}
    BY <2>1, <1>2 DEF Inv, TypeOK
  <2>4. \A q \in Periods : run'[q].status \in Calculated => slip'[q].exists
    BY <2>2 DEF Lifecycle, Calculated
  <2>5. \A t \in Slots : call'[t].pc # "idle" /\ call'[t].new.status \in Calculated
                         => slip'[call'[t].period].exists
    BY <2>2, <2>3 DEF Lifecycle
  <2> QED
    BY <2>4, <2>5 DEF Lifecycle
<1>5. CASE Settle(s)
  <2> DEFINE new == [exists |-> TRUE, emi |-> c.emi, arrears |-> c.claims, payment |-> "PENDING"]
  <2>1. /\ slip' = [slip EXCEPT ![p] = FlushSlip(c.saw, new, slip[p])]
        /\ run' = [run EXCEPT ![p] = FlushRun(c.new, Processed(c.new), run[p])]
        /\ call' = [call EXCEPT ![s] = Idle]
    BY <1>5 DEF Settle, Become
  <2>2. slip'[p].exists
    BY <2>1, <1>1 DEF FlushSlip, Inv, TypeOK
  <2>3. \A q \in Periods \ {p} : run'[q] = run[q] /\ slip'[q] = slip[q]
    BY <2>1 DEF Inv, TypeOK
  <2>4. call'[s] = Idle /\ \A t \in Slots \ {s} : call'[t] = call[t]
    BY <2>1 DEF Inv, TypeOK
  <2>5. \A q \in Periods : run'[q].status \in Calculated => slip'[q].exists
    BY <2>2, <2>3 DEF Lifecycle
  <2>6. \A t \in Slots : call'[t].pc # "idle" /\ call'[t].new.status \in Calculated
                         => slip'[call'[t].period].exists
    BY <2>2, <2>3, <2>4, <1>2 DEF Lifecycle, Inv, TypeOK
  <2> QED
    BY <2>5, <2>6 DEF Lifecycle
<1> QED
  BY <1>3, <1>4, <1>5

LEMMA LifecycleNext ==
  ASSUME ~Legacy
  PROVE  Inv /\ Lifecycle /\ [Next]_vars => Lifecycle'
<1> SUFFICES ASSUME Inv, Lifecycle, [Next]_vars PROVE Lifecycle'
  OBVIOUS
<1>0. Idle.pc = "idle" /\ \A t \in Slots : call[t] \in Call
  BY DEF Idle, Inv, TypeOK
<1>1. CASE \E s \in Slots : Request(s)
  BY <1>1, RequestKeepsLifecycle
<1>2. ASSUME NEW s \in Slots, WorkerTakes(s) PROVE Lifecycle'
  <2>1. PICK p \in queue :
          /\ \/ UNCHANGED call
             \/ Become(s, [Idle EXCEPT !.pc = "loaded", !.period = p, !.worker = TRUE,
                                       !.old = run[p], !.new = Started(run[p], NoUser),
                                       !.after = "processing"])
          /\ UNCHANGED <<run, slip>>
    BY <1>2 DEF WorkerTakes
  <2>2. CASE UNCHANGED call
    BY <2>1, <2>2 DEF Lifecycle
  <2>3. CASE ~UNCHANGED call
    <3> DEFINE d == [Idle EXCEPT !.pc = "loaded", !.period = p, !.worker = TRUE,
                                 !.old = run[p], !.new = Started(run[p], NoUser),
                                 !.after = "processing"]
    <3>1. Become(s, d)
      BY <2>1, <2>3
    <3>2. run[p] \in Run
      BY <2>1 DEF Inv, TypeOK
    <3>3. d.new.status = "PROCESSING"
      BY <3>2, StartedType DEF Idle
    <3> HIDE DEF d
    <3> QED
      BY <3>1, <3>3, <2>1, CallKeepsLifecycle DEF Calculated
  <2> QED
    BY <2>2, <2>3
<1>3. ASSUME NEW s \in Slots, Step(s) PROVE Lifecycle'
  <2> DEFINE c == call[s]
  <2>0. c \in Call
    BY <1>0
  <2>1. CASE ValidateCreated(s)
    <3> DEFINE m == [run[c.period] EXCEPT !.status = "VALIDATED"]
               d == [c EXCEPT !.pc = "loaded", !.old = run[c.period], !.new = m]
    <3>1. run[c.period] \in Run
      BY <2>1 DEF ValidateCreated, Inv, TypeOK
    <3>2. m.status = "VALIDATED"
      BY <3>1 DEF Run
    <3>3. d.new = m
      BY <2>0 DEF Call
    <3>4. (Become(s, d) \/ Become(s, Idle)) /\ UNCHANGED <<run, slip>>
      BY <2>1 DEF ValidateCreated
    <3> HIDE DEF d, m
    <3> QED
      BY <3>2, <3>3, <3>4, <1>0, CallKeepsLifecycle DEF Calculated
  <2>2. CASE Commit(s) \/ CommitDelete(s) \/ Settle(s)
    BY <2>2, WriteKeepsLifecycle
  <2>3. CASE ExecuteRetry(s)
    <3> DEFINE d == [c EXCEPT !.pc = "loaded", !.old = c.new,
                              !.new = Started(c.new, c.user), !.after = "processing"]
    <3>1. Become(s, d) /\ UNCHANGED <<run, slip>>
      BY <2>3 DEF ExecuteRetry
    <3>2. c.new \in Run /\ c.user \in Users \cup {NoUser}
      BY <2>0 DEF Call
    <3>3. d.new.status = "PROCESSING"
      BY <2>0, <3>2, StartedType DEF Call
    <3> HIDE DEF d
    <3> QED
      BY <3>1, <3>3, CallKeepsLifecycle DEF Calculated
  <2>4. CASE ClaimArrears(s)
    <3> DEFINE d == [c EXCEPT !.pc = "claimed", !.claims = PendingForRun(c.period)]
    <3>1. Become(s, d) /\ UNCHANGED <<run, slip>> /\ c.pc # "idle"
      BY <2>4 DEF ClaimArrears
    <3>2. d.new = c.new /\ d.period = c.period
      BY <2>0 DEF Call
    <3> HIDE DEF d
    <3> QED
      BY <3>1, <3>2, CallKeepsLifecycle DEF Lifecycle
  <2>5. CASE ReadEmployee(s)
    <3> DEFINE d == [c EXCEPT !.pc = "computed", !.emi = EmiDue(c.period),
                              !.loan = paid, !.saw = slip[c.period]]
    <3>1. Become(s, d) /\ UNCHANGED <<run, slip>> /\ c.pc # "idle"
      BY <2>5 DEF ReadEmployee
    <3>2. d.new = c.new /\ d.period = c.period
      BY <2>0 DEF Call
    <3> HIDE DEF d
    <3> QED
      BY <3>1, <3>2, CallKeepsLifecycle DEF Lifecycle
  <2>6. CASE SettleFails(s)
    BY <2>6, <1>0, CallKeepsLifecycle DEF SettleFails
  <2> QED
    BY <1>3, <2>1, <2>2, <2>3, <2>4, <2>5, <2>6 DEF Step
<1>4. ASSUME NEW s \in Slots, Fault(s) PROVE Lifecycle'
  BY <1>4, <1>0, CallKeepsLifecycle DEF Fault
<1>5. CASE DispatchRun \/ CreateArrear \/ UNCHANGED vars
  BY <1>5 DEF DispatchRun, CreateArrear, vars, Lifecycle
<1>6. CASE Disburse
  BY <1>6, DisburseIsPayment DEF Lifecycle, Inv, TypeOK
<1> QED
  BY <1>1, <1>2, <1>3, <1>4, <1>5, <1>6 DEF Next

\* Where the v1 routes, which may approve and finalize from any status, are not
\* used, a run that is submitted, approved, locked or paid has its payslips,
\* although every handler of run_service.py decides on a copy of the run that
\* other calls may have overtaken.
THEOREM OnlyCalculatedIsApproved ==
  ASSUME ~Legacy
  PROVE  Spec => []ApprovedWasCalculated
<1>1. Init => Lifecycle
  BY DEF Init, Lifecycle, Calculated, NoRun, Idle
<1>2. Inv /\ Lifecycle /\ [Next]_vars => Lifecycle'
  BY LifecycleNext
<1>3. Lifecycle => ApprovedWasCalculated
  BY DEF Lifecycle, ApprovedWasCalculated, Calculated
<1> QED
  BY <1>1, <1>2, <1>3, PayrollInvariant, PTL DEF Spec

=============================================================================
