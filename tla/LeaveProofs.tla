---------------------------- MODULE LeaveProofs ----------------------------
(***************************************************************************)
(* Proofs about Leave, for every number of requests, transactions, leave   *)
(* types and days.                                                         *)
(***************************************************************************)
EXTENDS Leave, FiniteSetTheorems, TLAPS

(***************************************************************************)
(* Facts about the constants and the operators.                            *)
(***************************************************************************)

\* A transaction that has ended is a transaction record.
LEMMA IdleType == Idle \in Tx
<1>1. PICK type \in LeaveTypes, d \in Dates : TRUE
  BY PolicyAssumption
<1>2. [type |-> type, start |-> d, end |-> d] \in Form
  BY <1>1, FiniteAssumption DEF Form
<1>3. (CHOOSE f \in Form : TRUE) \in Form
  BY <1>2
<1> QED
  BY <1>3 DEF Idle, Tx, PCs, Statuses

\* The policy row of a request is one of the policies; a leave has whole days,
\* at least one.
LEMMA FormFacts ==
  ASSUME NEW f \in Form
  PROVE  /\ PolicyOf(f) \in Policies
         /\ PolicyOf(f)[1] = f.type
         /\ Days(f) \in Nat \ {0}
  BY FiniteAssumption DEF Form, PolicyOf, Policies, Years, Days

\* Sums of days are finite: get_pending_leave_days_by_type is a natural number.
LEMMA DaysOfFinite ==
  ASSUME NEW R
  PROVE  IsFiniteSet(DaysOf(R)) /\ Cardinality(DaysOf(R)) \in Nat
<1>1. IsFiniteSet(Requests \X Dates)
  BY FiniteAssumption, FS_Product
<1>2. DaysOf(R) \in SUBSET (Requests \X Dates)
  BY DEF DaysOf
<1>3. IsFiniteSet(DaysOf(R))
  BY <1>1, <1>2, FS_Subset
<1> QED
  BY <1>3, FS_CardinalityType

LEMMA PendingDaysNat ==
  ASSUME NEW type, NEW exclude
  PROVE  PendingDays(type, exclude) \in Nat
  BY DaysOfFinite DEF PendingDays

(***************************************************************************)
(* Types.                                                                  *)
(***************************************************************************)

\* Every step of every handler keeps the state well typed; used_days in
\* particular stays a natural number, although review_leave writes back a
\* value it read earlier and cancel_leave subtracts.
THEOREM TypeCorrect == Spec => []TypeOK
<1>1. Init => TypeOK
  <2>1. (CHOOSE f \in Form : TRUE) \in Form
    BY IdleType DEF Idle, Tx
  <2>2. Idle.pc = "idle"
    BY DEF Idle
  <2> QED
    BY <2>1, <2>2, IdleType DEF Init, TypeOK, Statuses, Holding
<1>2. TypeOK /\ [Next]_vars => TypeOK'
  <2> SUFFICES ASSUME TypeOK, [Next]_vars PROVE TypeOK'
    OBVIOUS
  <2> USE IdleType DEF TypeOK, Holding
  <2>1. ASSUME NEW t \in Txns, NEW new \in Tx, Become(t, new),
               new.pc \in Holding \cup {"agent_loaded"} => new.req \in Requests
        PROVE  /\ tx' \in [Txns -> Tx]
               /\ \A u \in Txns : tx'[u].pc \in Holding \cup {"agent_loaded"}
                                    => tx'[u].req \in Requests
    BY <2>1 DEF Become
  <2>0. Idle.pc = "idle" /\ "idle" \notin Holding \cup {"agent_loaded"}
    BY DEF Idle
  <2>2. ASSUME NEW t \in Txns, Call(t) \/ Rollback(t) PROVE TypeOK'
    <3>1. CASE ApplyChecks(t)
      BY <3>1, <2>1, <2>0 DEF ApplyChecks, Tx, PCs
    <3>2. CASE ReviewLocksLeave(t, "approving")
      <4> PICK r \in Requests : Become(t, [Idle EXCEPT !.pc = "approving",
             !.req = r, !.seen = status[r], !.retro = PeriodBlocked(form[r].start)])
        BY <3>2 DEF ReviewLocksLeave
      <4>1. PeriodBlocked(form[r].start) \in BOOLEAN
        BY DEF PeriodBlocked
      <4> QED BY <3>2, <4>1, <2>1, <2>0, ZenonT(60) DEF ReviewLocksLeave, Tx, PCs, Statuses
    <3>3. CASE ReviewLocksLeave(t, "rejecting")
      <4> PICK r \in Requests : Become(t, [Idle EXCEPT !.pc = "rejecting",
             !.req = r, !.seen = status[r], !.retro = PeriodBlocked(form[r].start)])
        BY <3>3 DEF ReviewLocksLeave
      <4>1. PeriodBlocked(form[r].start) \in BOOLEAN
        BY DEF PeriodBlocked
      <4> QED BY <3>3, <4>1, <2>1, <2>0, ZenonT(60) DEF ReviewLocksLeave, Tx, PCs, Statuses
    <3>4. CASE CancelLocksLeave(t)
      BY <3>4, <2>1, <2>0 DEF CancelLocksLeave, Tx, PCs, Statuses
    <3>5. CASE AgentLoadsLeave(t)
      BY <3>5, <2>1, <2>0 DEF AgentLoadsLeave, Tx, PCs, Statuses
    <3>6. CASE Rollback(t)
      BY <3>6, <2>1, <2>0 DEF Rollback, End
    <3> QED
      BY <2>2, <3>1, <3>2, <3>3, <3>4, <3>5, <3>6 DEF Call
  <2>3. ASSUME NEW t \in Txns, Step(t) PROVE TypeOK'
    <3>1. CASE ApplyReadsPolicy(t)
      BY <3>1, <2>1, <2>0, FormFacts, ZenonT(60) DEF ApplyReadsPolicy, Tx, PCs
    <3>2. CASE ApplyReadsPending(t)
      BY <3>2, <2>1, <2>0 DEF ApplyReadsPending, End, Tx, PCs
    <3>3. CASE ApplyCommits(t)
      BY <3>3, <2>1, <2>0, FormFacts DEF ApplyCommits, InsertPolicy, End, Tx, Statuses
    <3>4. CASE ReviewLocksPolicy(t)
      BY <3>4, <2>1, <2>0, FormFacts DEF ReviewLocksPolicy, Tx, PCs
    <3>5. CASE ReviewApproves(t)
      BY <3>5, <2>1, <2>0, FormFacts DEF ReviewApproves, End, Tx, Statuses
    <3>6. CASE ReviewIsShort(t)
      BY <3>6, <2>1, <2>0 DEF ReviewIsShort, End
    <3>7. CASE ReviewRejects(t)
      BY <3>7, <2>1, <2>0 DEF ReviewRejects, End, Tx, Statuses
    <3>8. CASE AgentLocksLeave(t)
      BY <3>8, <2>1, <2>0 DEF AgentLocksLeave, End, Tx, PCs
    <3>9. CASE CancelCommits(t)
      <4>1. tx[t].req \in Requests /\ form[tx[t].req] \in Form
        BY <3>9 DEF CancelCommits
      <4>2. used' \in [Policies -> Nat]
        <5>1. PolicyOf(form[tx[t].req]) \in Policies /\ Days(form[tx[t].req]) \in Nat
          BY <4>1, FormFacts
        <5> QED
          BY <3>9, <5>1 DEF CancelCommits, Refunded
      <4> QED
        BY <3>9, <2>1, <2>0, <4>1, <4>2 DEF CancelCommits, End, Statuses
    <3> QED
      BY <2>3, <3>1, <3>2, <3>3, <3>4, <3>5, <3>6, <3>7, <3>8, <3>9 DEF Step
  <2>4. CASE GetLeaveBalances
    BY <2>4 DEF GetLeaveBalances, Policies, Years
  <2>5. CASE LockAttendance
    BY <2>5 DEF LockAttendance
  <2>6. CASE UnlockAttendance
    BY <2>6 DEF UnlockAttendance
  <2>7. CASE NextDay
    BY <2>7 DEF NextDay
  <2>8. CASE UNCHANGED vars
    BY <2>8 DEF vars
  <2> QED
    BY <2>2, <2>3, <2>4, <2>5, <2>6, <2>7, <2>8 DEF Next
<1> QED
  BY <1>1, <1>2, PTL DEF Spec

(***************************************************************************)
(* Safety of the balance.                                                  *)
(***************************************************************************)

\* The upper bound of NeverOverdrawn; TypeOK has the lower one.
AtMostAllocated == \A p \in Policies : used[p] <= TotalDays[p[1]]

\* It is not inductive alone: review_leave writes used_days from the value it
\* read under the policy lock, so the proof needs to know that this value is
\* still current, which in turn needs both locks.
Inv == TypeOK /\ LocksHold /\ AtMostAllocated /\ PolicyExists

\* A step of one transaction leaves the others where they were.
LEMMA OthersStay ==
  ASSUME NEW t \in Txns, NEW new, Become(t, new), tx \in [Txns -> Tx]
  PROVE  tx'[t] = new /\ \A u \in Txns \ {t} : tx'[u] = tx[u]
  BY DEF Become

LEMMA IdlePC == Idle.pc = "idle" /\ "idle" \notin Holding /\ "idle" # "charging"
  BY DEF Idle, Holding

\* The handlers that only read, or that start a transaction.
LEMMA ReadersKeepInv ==
  ASSUME Inv, NEW t \in Txns, TypeOK', Call(t) \/ Rollback(t)
  PROVE  Inv'
<1> USE OthersStay, IdlePC DEF Inv
<1>0. tx \in [Txns -> Tx] /\ UNCHANGED <<status, form, used, hasPolicy>>
  BY DEF TypeOK, Call, Rollback, ApplyChecks, ReviewLocksLeave, CancelLocksLeave,
         AgentLoadsLeave
<1>1. AtMostAllocated' /\ PolicyExists'
  BY <1>0 DEF AtMostAllocated, PolicyExists
<1>2. LocksHold'
  <2>1. CASE ApplyChecks(t)
    <3>1. PICK f : Become(t, [Idle EXCEPT !.pc = "apply_checked", !.form = f])
      BY <2>1 DEF ApplyChecks
    <3>2. tx'[t].pc = "apply_checked"
      BY <1>0, <3>1, ZenonT(60) DEF Idle
    <3> QED
      BY <1>0, <3>1, <3>2 DEF LocksHold, LeaveRowExclusive, PolicyRowExclusive, StatusIsCurrent, PaidIsCurrent, Holding
  <2>2. ASSUME NEW d \in {"approving", "rejecting"}, ReviewLocksLeave(t, d)
        PROVE  LocksHold'
    <3>1. PICK r, b :
            /\ r \in Requests
            /\ status[r] = "PENDING" /\ LeaveRowFree(r)
            /\ Become(t, [Idle EXCEPT !.pc = d, !.req = r, !.seen = status[r], !.retro = b])
      BY <2>2 DEF ReviewLocksLeave, Reviewable
    <3>2. tx'[t] = [Idle EXCEPT !.pc = d, !.req = r, !.seen = status[r], !.retro = b]
      BY <1>0, <3>1
    <3>3. tx'[t].pc = d /\ tx'[t].req = r
      BY <3>2 DEF Idle
    <3> QED
      BY <1>0, <3>1, <3>3 DEF LocksHold, LeaveRowExclusive, PolicyRowExclusive, StatusIsCurrent, PaidIsCurrent, Holding, LeaveRowFree
  <2>3. CASE CancelLocksLeave(t)
    <3>1. PICK r \in Requests :
            /\ LeaveRowFree(r) /\ status[r] # "NONE"
            /\ Become(t, [Idle EXCEPT !.pc = "cancelling", !.req = r, !.seen = status[r]])
      BY <2>3 DEF CancelLocksLeave, MayCancel
    <3>2. tx'[t] = [Idle EXCEPT !.pc = "cancelling", !.req = r, !.seen = status[r]]
      BY <1>0, <3>1
    <3>3. tx'[t].pc = "cancelling" /\ tx'[t].req = r
      BY <3>2 DEF Idle
    <3> QED
      BY <1>0, <3>1, <3>3 DEF LocksHold, LeaveRowExclusive, PolicyRowExclusive, StatusIsCurrent, PaidIsCurrent, Holding, LeaveRowFree
  <2>4. CASE AgentLoadsLeave(t)
    <3>1. PICK r \in Requests :
            /\ status[r] # "NONE"
            /\ Become(t, [Idle EXCEPT !.pc = "agent_loaded", !.req = r, !.seen = status[r]])
      BY <2>4 DEF AgentLoadsLeave
    <3>2. tx'[t] = [Idle EXCEPT !.pc = "agent_loaded", !.req = r, !.seen = status[r]]
      BY <1>0, <3>1
    <3>3. tx'[t].pc = "agent_loaded" /\ tx'[t].req = r
      BY <3>2 DEF Idle
    <3> QED
      BY <1>0, <3>1, <3>3 DEF LocksHold, LeaveRowExclusive, PolicyRowExclusive, StatusIsCurrent, PaidIsCurrent, Holding
  <2>5. CASE Rollback(t)
    BY <1>0, <2>5 DEF Rollback, End, LocksHold, LeaveRowExclusive, PolicyRowExclusive, StatusIsCurrent, PaidIsCurrent, Holding
  <2> QED
    BY <2>1, <2>2, <2>3, <2>4, <2>5 DEF Call
<1> QED
  BY <1>1, <1>2

\* The handlers' later steps.
LEMMA StepsKeepInv ==
  ASSUME Inv, NEW t \in Txns, TypeOK', Step(t)
  PROVE  Inv'
<1> USE OthersStay, IdlePC DEF Inv
<1>0. tx \in [Txns -> Tx]
  BY DEF TypeOK
<1>1. CASE ApplyReadsPolicy(t) \/ ApplyReadsPending(t) \/ AgentLocksLeave(t)
           \/ ReviewIsShort(t) \/ ReviewLocksPolicy(t)
  <2>1. UNCHANGED <<status, form, used, hasPolicy>>
    BY <1>1 DEF ApplyReadsPolicy, ApplyReadsPending, AgentLocksLeave, ReviewIsShort,
                ReviewLocksPolicy
  <2>2. AtMostAllocated' /\ PolicyExists'
    BY <2>1 DEF AtMostAllocated, PolicyExists
  <2>3. LocksHold'
    <3>1. CASE ApplyReadsPolicy(t)
      <4>1. PICK n, b : Become(t, [tx[t] EXCEPT !.pc = "apply_policy", !.paid = n, !.ins = b])
        BY <3>1 DEF ApplyReadsPolicy
      <4>2. tx'[t] = [tx[t] EXCEPT !.pc = "apply_policy", !.paid = n, !.ins = b]
        BY <1>0, <4>1
      <4>3. tx'[t].pc = "apply_policy"
        BY <1>0, <4>2 DEF Tx
      <4> QED
        BY <1>0, <2>1, <4>1, <4>3 DEF LocksHold, LeaveRowExclusive, PolicyRowExclusive, StatusIsCurrent, PaidIsCurrent, Holding
    <3>2. CASE ApplyReadsPending(t)
      <4>1. tx'[t].pc \in {"apply_reserved", "idle"}
        BY <1>0, <3>2 DEF ApplyReadsPending, End, Tx
      <4>2. \A u \in Txns \ {t} : tx'[u] = tx[u]
        BY <1>0, <3>2 DEF ApplyReadsPending, End
      <4> QED
        BY <1>0, <2>1, <4>1, <4>2 DEF LocksHold, LeaveRowExclusive, PolicyRowExclusive, StatusIsCurrent, PaidIsCurrent, Holding
    <3>3. CASE AgentLocksLeave(t)
      <4>1. /\ tx'[t].pc \in {"cancelling", "idle"}
            /\ tx'[t].pc = "cancelling" => tx'[t].req = tx[t].req
        BY <1>0, <3>3 DEF AgentLocksLeave, End, Tx
      <4>2. \A u \in Txns \ {t} : tx'[u] = tx[u]
        BY <1>0, <3>3 DEF AgentLocksLeave, End
      <4> QED
        BY <1>0, <2>1, <3>3, <4>1, <4>2 DEF AgentLocksLeave, LeaveRowFree, LocksHold, LeaveRowExclusive, PolicyRowExclusive, StatusIsCurrent, PaidIsCurrent, Holding
    <3>4. CASE ReviewIsShort(t)
      BY <1>0, <2>1, <3>4 DEF ReviewIsShort, End, LocksHold, LeaveRowExclusive, PolicyRowExclusive, StatusIsCurrent, PaidIsCurrent, Holding
    <3>5. CASE ReviewLocksPolicy(t)
      <4>0. tx'[t] = [tx[t] EXCEPT !.pc = "charging", !.paid = used[PolicyOf(form[tx[t].req])]]
        BY <1>0, <3>5 DEF ReviewLocksPolicy
      <4>1. /\ tx'[t].pc = "charging"
            /\ tx'[t].req = tx[t].req
            /\ tx'[t].paid = used[PolicyOf(form[tx[t].req])]
        BY <1>0, <4>0 DEF Tx
      <4>2. \A u \in Txns \ {t} : tx'[u] = tx[u]
        BY <1>0, <3>5 DEF ReviewLocksPolicy
      <4>3. tx[t].pc = "approving" /\ PolicyRowFree(PolicyOf(form[tx[t].req]))
        BY <3>5 DEF ReviewLocksPolicy
      <4> QED
        <5>1. form' = form /\ status' = status /\ used' = used
          BY <2>1
        <5>2. LeaveRowExclusive'
          BY <4>1, <4>2, <4>3 DEF LocksHold, LeaveRowExclusive, Holding
        <5>3. PolicyRowExclusive'
          <6>1. \A u \in Txns \ {t} : tx[u].pc = "charging" =>
                   PolicyOf(form[tx[u].req]) # PolicyOf(form[tx[t].req])
            BY <4>3 DEF PolicyRowFree
          <6> QED
            <7> SUFFICES ASSUME NEW u \in Txns, NEW v \in Txns, u # v,
                                tx'[u].pc = "charging", tx'[v].pc = "charging"
                         PROVE  PolicyOf(form[tx'[u].req]) # PolicyOf(form[tx'[v].req])
              BY <5>1, Zenon DEF PolicyRowExclusive
            <7>1. CASE u = t
              BY <4>1, <4>2, <6>1, <7>1
            <7>2. CASE v = t
              BY <4>1, <4>2, <6>1, <7>2
            <7>3. CASE u # t /\ v # t
              BY <4>2, <7>3 DEF LocksHold, PolicyRowExclusive
            <7> QED
              BY <7>1, <7>2, <7>3
        <5>4. StatusIsCurrent'
          BY <4>1, <4>2, <4>3, <5>1 DEF LocksHold, StatusIsCurrent, Holding
        <5>5. PaidIsCurrent'
          BY <4>1, <4>2, <5>1 DEF LocksHold, PaidIsCurrent
        <5> QED
          BY <5>2, <5>3, <5>4, <5>5 DEF LocksHold
    <3> QED
      BY <1>1, <3>1, <3>2, <3>3, <3>4, <3>5
  <2> QED
    BY <2>2, <2>3
<1>2. CASE ApplyCommits(t)
  <2>1. PICK r \in Requests :
          /\ status[r] = "NONE"
          /\ status' = [status EXCEPT ![r] = "PENDING"]
          /\ form' = [form EXCEPT ![r] = tx[t].form]
    BY <1>2 DEF ApplyCommits
  <2>2. \A s \in Requests \ {r} : status'[s] = status[s] /\ form'[s] = form[s]
    BY <2>1 DEF TypeOK
  <2>3. UNCHANGED used /\ tx'[t] = Idle /\ \A u \in Txns \ {t} : tx'[u] = tx[u]
    BY <1>0, <1>2 DEF ApplyCommits, End
  <2>4. AtMostAllocated'
    BY <2>3 DEF AtMostAllocated
  <2>5. PolicyExists'
    <3>1. form'[r] = tx[t].form
      BY <2>1 DEF TypeOK
    <3> QED
      BY <1>2, <2>1, <2>2, <3>1 DEF ApplyCommits, InsertPolicy, PolicyExists, PolicyOf
  <2>6. LocksHold'
    <3>1. \A u \in Txns \ {t} : tx[u].pc \in {"approving", "rejecting", "charging"}
                => tx[u].req \in Requests \ {r}
      BY <2>1 DEF LocksHold, StatusIsCurrent, TypeOK, Holding
    <3>2. \A u \in Txns \ {t} : tx[u].pc = "charging"
                => PolicyOf(form'[tx[u].req]) = PolicyOf(form[tx[u].req])
      BY <2>2, <3>1
    <3> QED
      <4>1. LeaveRowExclusive'
        BY <2>3 DEF LocksHold, LeaveRowExclusive
      <4>2. PolicyRowExclusive'
        BY <2>3, <3>2 DEF LocksHold, PolicyRowExclusive
      <4>3. StatusIsCurrent'
        BY <2>1, <2>2, <2>3, <3>1 DEF LocksHold, StatusIsCurrent, TypeOK, Statuses
      <4>4. PaidIsCurrent'
        BY <2>3, <3>2 DEF LocksHold, PaidIsCurrent
      <4> QED
        BY <4>1, <4>2, <4>3, <4>4 DEF LocksHold
  <2> QED
    BY <2>4, <2>5, <2>6
<1>3. CASE ReviewApproves(t) \/ ReviewRejects(t) \/ CancelCommits(t)
  <2> DEFINE r == tx[t].req
             p == PolicyOf(form[r])
  <2>1. /\ r \in Requests /\ form[r] \in Form /\ tx[t].pc \in Holding
        /\ p \in Policies /\ p[1] = form[r].type /\ Days(form[r]) \in Nat
    <3>1. tx[t].pc \in Holding
      BY <1>3 DEF ReviewApproves, ReviewRejects, CancelCommits, Holding
    <3>2. r \in Requests /\ form[r] \in Form
      BY <3>1 DEF TypeOK
    <3> QED
      BY <3>1, <3>2, FormFacts
  <2>2. UNCHANGED <<form, hasPolicy>> /\ tx'[t] = Idle
        /\ \A u \in Txns \ {t} : tx'[u] = tx[u]
    BY <1>0, <1>3 DEF ReviewApproves, ReviewRejects, CancelCommits, End
  <2>3. \A s \in Requests \ {r} : status'[s] = status[s]
    BY <1>3, <2>1 DEF ReviewApproves, ReviewRejects, CancelCommits, TypeOK
  <2>4. status[r] # "NONE" /\ status'[r] # "NONE"
    <3>1. status[r] # "NONE"
      BY <2>1 DEF LocksHold, StatusIsCurrent
    <3> QED
      BY <1>3, <2>1, <3>1 DEF ReviewApproves, ReviewRejects, CancelCommits, TypeOK
  <2>5. \A q \in Policies \ {p} : used'[q] = used[q]
    BY <1>3, <2>1 DEF ReviewApproves, ReviewRejects, CancelCommits, TypeOK
  <2>6. \A u \in Txns \ {t} : tx[u].pc = "charging"
            => used'[PolicyOf(form[tx[u].req])] = used[PolicyOf(form[tx[u].req])]
    <3> SUFFICES ASSUME NEW u \in Txns \ {t}, tx[u].pc = "charging"
                 PROVE  used'[PolicyOf(form[tx[u].req])] = used[PolicyOf(form[tx[u].req])]
      OBVIOUS
    <3>1. PolicyOf(form[tx[u].req]) \in Policies
      BY FormFacts DEF TypeOK, Holding
    <3>2. CASE ReviewApproves(t)
      <4>1. p # PolicyOf(form[tx[u].req])
        BY <3>2 DEF ReviewApproves, LocksHold, PolicyRowExclusive
      <4> QED
        BY <2>5, <3>1, <4>1
    <3>3. CASE ReviewRejects(t)
      BY <3>3 DEF ReviewRejects
    <3>4. CASE CancelCommits(t)
      <4>1. UNCHANGED used \/ PolicyRowFree(p)
        BY <3>4 DEF CancelCommits
      <4> QED
        BY <2>5, <3>1, <4>1 DEF PolicyRowFree
    <3> QED
      BY <1>3, <3>2, <3>3, <3>4
  <2>7. LocksHold'
    <3>1. \A u \in Txns \ {t} : tx[u].pc \in Holding => tx[u].req \in Requests \ {r}
      BY <2>1 DEF LocksHold, LeaveRowExclusive, TypeOK
    <3> QED
      <4>1. LeaveRowExclusive'
        BY <2>2 DEF LocksHold, LeaveRowExclusive
      <4>2. PolicyRowExclusive'
        BY <2>2 DEF LocksHold, PolicyRowExclusive
      <4>3. StatusIsCurrent'
        BY <2>2, <2>3, <2>4, <3>1 DEF LocksHold, StatusIsCurrent, Holding, TypeOK
      <4>4. PaidIsCurrent'
        BY <2>2, <2>6 DEF LocksHold, PaidIsCurrent
      <4> QED
        BY <4>1, <4>2, <4>3, <4>4 DEF LocksHold
  <2>8. PolicyExists'
    <3>1. status[r] # "NONE" => p \in hasPolicy
      BY <2>1 DEF PolicyExists
    <3> QED
      BY <2>1, <2>2, <2>3, <2>4, <3>1 DEF PolicyExists, PolicyOf
  <2>9. AtMostAllocated'
    <3>1. used[p] \in Nat /\ used[p] <= TotalDays[p[1]] /\ TotalDays[p[1]] \in Nat
      BY <2>1, PolicyAssumption DEF AtMostAllocated, TypeOK, Policies
    <3>2. used'[p] <= TotalDays[p[1]]
      <4>1. CASE ReviewApproves(t)
        <5>1. tx[t].paid = used[p]
          BY <4>1 DEF ReviewApproves, LocksHold, PaidIsCurrent
        <5>2. TotalDays[p[1]] - used[p] - PendingDays(form[r].type, r) >= Days(form[r])
          BY <2>1, <4>1, <5>1 DEF ReviewApproves, Covers
        <5>3. used'[p] = used[p] + Days(form[r])
          BY <2>1, <4>1, <5>1 DEF ReviewApproves, TypeOK
        <5> QED
          BY <2>1, <3>1, <5>2, <5>3, PendingDaysNat
      <4>2. CASE ReviewRejects(t)
        BY <3>1, <4>2 DEF ReviewRejects
      <4>3. CASE CancelCommits(t)
        <5>1. \/ used'[p] = used[p]
              \/ used'[p] = IF used[p] - Days(form[r]) < 0 THEN 0 ELSE used[p] - Days(form[r])
          BY <2>1, <4>3 DEF CancelCommits, Refunded, TypeOK
        <5> QED
          BY <2>1, <3>1, <5>1
      <4> QED
        BY <1>3, <4>1, <4>2, <4>3
    <3> QED
      BY <2>5, <3>2 DEF AtMostAllocated
  <2> QED
    BY <2>7, <2>8, <2>9
<1> QED
  BY <1>1, <1>2, <1>3 DEF Step

\* The rest of the world touches neither rows nor transactions, except that
\* get_leave_balances adds policy rows.
LEMMA OthersKeepInv ==
  ASSUME Inv, TypeOK',
         GetLeaveBalances \/ LockAttendance \/ UnlockAttendance \/ NextDay \/ UNCHANGED vars
  PROVE  Inv'
<1>1. UNCHANGED <<status, form, used, tx>> /\ hasPolicy \subseteq hasPolicy'
  BY DEF GetLeaveBalances, LockAttendance, UnlockAttendance, NextDay, vars
<1>2. LocksHold'
  BY <1>1 DEF Inv, LocksHold, LeaveRowExclusive, PolicyRowExclusive, StatusIsCurrent,
              PaidIsCurrent
<1>3. AtMostAllocated' /\ PolicyExists'
  BY <1>1 DEF Inv, AtMostAllocated, PolicyExists
<1> QED
  BY <1>2, <1>3 DEF Inv

\* Init satisfies the inductive invariant and every step keeps it.
THEOREM InvHolds == Spec => []Inv
<1>1. Init => Inv
  <2> SUFFICES ASSUME Init PROVE LocksHold /\ AtMostAllocated /\ PolicyExists /\ TypeOK
    BY DEF Inv
  <2>1. TypeOK
    <3>1. (CHOOSE f \in Form : TRUE) \in Form
      BY IdleType DEF Idle, Tx
    <3> QED
      BY <3>1, IdleType, IdlePC DEF Init, TypeOK, Statuses, Holding
  <2>2. LocksHold
    BY IdlePC DEF Init, LocksHold, LeaveRowExclusive, PolicyRowExclusive,
       StatusIsCurrent, PaidIsCurrent, Holding
  <2>3. AtMostAllocated
    BY PolicyAssumption DEF Init, AtMostAllocated, Policies
  <2>4. PolicyExists
    BY DEF Init, PolicyExists
  <2> QED
    BY <2>1, <2>2, <2>3, <2>4
<1>2. Inv /\ TypeOK' /\ [Next]_vars => Inv'
  <2> SUFFICES ASSUME Inv, TypeOK', [Next]_vars PROVE Inv'
    OBVIOUS
  <2>1. ASSUME NEW t \in Txns, Call(t) \/ Rollback(t) PROVE Inv'
    BY <2>1, ReadersKeepInv
  <2>2. ASSUME NEW t \in Txns, Step(t) PROVE Inv'
    BY <2>2, StepsKeepInv
  <2> QED
    BY <2>1, <2>2, OthersKeepInv DEF Next
<1> QED
  BY <1>1, <1>2, TypeCorrect, PTL DEF Spec

\* Whatever the interleaving of applications, reviews, cancellations (by the
\* API or by the AI agent), used_days never exceeds total_days nor falls below 0.
THEOREM BalanceNeverOverdrawn == Spec => []NeverOverdrawn
<1>1. Inv => NeverOverdrawn
  BY PolicyAssumption DEF Inv, TypeOK, AtMostAllocated, NeverOverdrawn, Policies
<1> QED
  BY <1>1, InvHolds, PTL

\* The row locks exclude, and what was read under them is still current.
THEOREM RowLocksHold == Spec => []LocksHold
<1>1. Inv => LocksHold
  BY DEF Inv
<1> QED
  BY <1>1, InvHolds, PTL

(***************************************************************************)
(* The balance is the sum of the approved leaves, when every cancellation  *)
(* goes through the API (AgentCancels = FALSE).                            *)
(***************************************************************************)

\* The days of the requests in R when their forms are F, which may be those of
\* this state or of the next.
DaysUnder(F, R) == {x \in Requests \X Dates :
                      /\ x[1] \in R
                      /\ F[x[1]].start <= x[2]
                      /\ x[2] <= F[x[1]].end}

LEMMA DaysUnderFinite ==
  ASSUME NEW F, NEW R
  PROVE  IsFiniteSet(DaysUnder(F, R)) /\ Cardinality(DaysUnder(F, R)) \in Nat
<1>1. IsFiniteSet(Requests \X Dates)
  BY FiniteAssumption, FS_Product
<1>2. DaysUnder(F, R) \in SUBSET (Requests \X Dates)
  BY DEF DaysUnder
<1>3. IsFiniteSet(DaysUnder(F, R))
  BY <1>1, <1>2, FS_Subset
<1> QED
  BY <1>3, FS_CardinalityType

\* One leave has as many days as calculate_leave_days says.
LEMMA DaysUnderOne ==
  ASSUME NEW F \in [Requests -> Form], NEW r \in Requests
  PROVE  Cardinality(DaysUnder(F, {r})) = Days(F[r])
<1> DEFINE a == F[r].start
           b == F[r].end
           f == [d \in a .. b |-> <<r, d>>]
<1>1. a \in Dates /\ b \in Dates /\ a \in Int /\ b \in Int /\ a <= b
  BY FiniteAssumption DEF Form
<1>2. a .. b \subseteq Dates
  BY <1>1, CalendarAssumption
<1>3. DaysUnder(F, {r}) = {<<r, d>> : d \in a .. b}
  <2>1. ASSUME NEW d \in a .. b PROVE <<r, d>> \in DaysUnder(F, {r})
    BY <1>1, <1>2, FiniteAssumption DEF DaysUnder
  <2>2. ASSUME NEW x \in DaysUnder(F, {r}) PROVE \E d \in a .. b : x = <<r, d>>
    <3>1. PICK q \in Requests, d \in Dates : x = <<q, d>>
      BY DEF DaysUnder
    <3>2. q = r /\ a <= d /\ d <= b
      BY <3>1 DEF DaysUnder
    <3>3. d \in a .. b
      BY <1>1, <3>2, FiniteAssumption
    <3> QED
      BY <3>1, <3>2, <3>3
  <2> QED
    BY <2>1, <2>2
<1>4. f \in Bijection(a .. b, DaysUnder(F, {r}))
  <2>1. f \in [a .. b -> DaysUnder(F, {r})]
    BY <1>3
  <2>2. \A d, e \in a .. b : f[d] = f[e] => d = e
    OBVIOUS
  <2>3. \A x \in DaysUnder(F, {r}) : \E d \in a .. b : f[d] = x
    BY <1>3
  <2> QED
    BY <2>1, <2>2, <2>3 DEF Bijection, Injection, Surjection, IsInjective
<1>5. ExistsBijection(a .. b, DaysUnder(F, {r}))
  BY <1>4 DEF ExistsBijection
<1>6. IsFiniteSet(a .. b) /\ Cardinality(a .. b) = (b - a) + 1
  BY <1>1, FS_Interval
<1>7. Cardinality(DaysUnder(F, {r})) = Cardinality(a .. b)
  BY <1>5, <1>6, FS_Bijection
<1> QED
  BY <1>6, <1>7 DEF Days

\* The days of a set of leaves are those of one of them and of the others.
LEMMA DaysUnderSplit ==
  ASSUME NEW F \in [Requests -> Form], NEW R, NEW r \in Requests, r \notin R
  PROVE  Cardinality(DaysUnder(F, R \cup {r})) = Cardinality(DaysUnder(F, R)) + Days(F[r])
<1>1. DaysUnder(F, R \cup {r}) = DaysUnder(F, R) \cup DaysUnder(F, {r})
  BY DEF DaysUnder
<1>2. DaysUnder(F, R) \cap DaysUnder(F, {r}) = {}
  BY DEF DaysUnder
<1>3. /\ IsFiniteSet(DaysUnder(F, R)) /\ IsFiniteSet(DaysUnder(F, {r}))
      /\ Cardinality(DaysUnder(F, R)) \in Nat /\ Cardinality(DaysUnder(F, {r})) \in Nat
  BY DaysUnderFinite
<1>4. Cardinality(DaysUnder(F, R) \cup DaysUnder(F, {r}))
        = Cardinality(DaysUnder(F, R)) + Cardinality(DaysUnder(F, {r}))
            - Cardinality(DaysUnder(F, R) \cap DaysUnder(F, {r}))
  BY <1>3, FS_Union
<1>5. Cardinality(DaysUnder(F, R) \cap DaysUnder(F, {r})) = 0
  BY <1>2, FS_EmptySet
<1>6. Cardinality(DaysUnder(F, {r})) = Days(F[r])
  BY DaysUnderOne
<1>7. Cardinality(DaysUnder(F, R \cup {r})) = Cardinality(DaysUnder(F, R) \cup DaysUnder(F, {r}))
  BY <1>1
<1> QED
  BY <1>3, <1>4, <1>5, <1>6, <1>7

LEMMA DaysOfSplit ==
  ASSUME TypeOK, NEW R, NEW r \in Requests, r \notin R
  PROVE  Cardinality(DaysOf(R \cup {r})) = Cardinality(DaysOf(R)) + Days(form[r])
<1>1. DaysOf(R) = DaysUnder(form, R) /\ DaysOf(R \cup {r}) = DaysUnder(form, R \cup {r})
  BY DEF DaysOf, DaysUnder
<1>2. form \in [Requests -> Form]
  BY DEF TypeOK
<1>3. Cardinality(DaysUnder(form, R \cup {r})) = Cardinality(DaysUnder(form, R)) + Days(form[r])
  BY <1>2, DaysUnderSplit
<1> QED
  BY <1>1, <1>3

\* What cancel_leave needs: the status its ORM object carries is the one in
\* the row it has locked.  It is false of the agent's cancellations.
SeenIsCurrent ==
  \A t \in Txns :
    /\ tx[t].pc # "agent_loaded"
    /\ tx[t].pc = "cancelling" => tx[t].seen = status[tx[t].req]
                                   /\ tx[t].seen \in {"PENDING", "APPROVED"}

ApiInv == SeenIsCurrent /\ UsedIsApproved

LEMMA CallsKeepApiInv ==
  ASSUME ~AgentCancels, Inv, ApiInv, NEW t \in Txns, Call(t) \/ Rollback(t)
  PROVE  ApiInv'
<1> USE OthersStay, IdlePC
<1>0. tx \in [Txns -> Tx] /\ UNCHANGED <<status, form, used>>
  BY DEF Inv, TypeOK, Call, Rollback, ApplyChecks, ReviewLocksLeave, CancelLocksLeave,
         AgentLoadsLeave
<1>1. UsedIsApproved'
  BY <1>0 DEF ApiInv, UsedIsApproved, DaysOf, Approved
<1>2. SeenIsCurrent'
  <2>1. CASE CancelLocksLeave(t)
    <3>1. PICK r \in Requests :
            /\ MayCancel(status[r], form[r])
            /\ Become(t, [Idle EXCEPT !.pc = "cancelling", !.req = r, !.seen = status[r]])
      BY <2>1 DEF CancelLocksLeave
    <3>2. tx'[t] = [Idle EXCEPT !.pc = "cancelling", !.req = r, !.seen = status[r]]
      BY <1>0, <3>1
    <3>3. tx'[t].pc = "cancelling" /\ tx'[t].req = r /\ tx'[t].seen = status[r]
      BY <3>2 DEF Idle
    <3> QED
      BY <1>0, <3>1, <3>3 DEF ApiInv, SeenIsCurrent, MayCancel
  <2>2. ASSUME tx'[t].pc \notin {"agent_loaded", "cancelling"},
               \A u \in Txns \ {t} : tx'[u] = tx[u]
        PROVE  SeenIsCurrent'
    BY <1>0, <2>2 DEF ApiInv, SeenIsCurrent
  <2>3. CASE ApplyChecks(t)
    <3>1. PICK f : Become(t, [Idle EXCEPT !.pc = "apply_checked", !.form = f])
      BY <2>3 DEF ApplyChecks
    <3>2. tx'[t] = [Idle EXCEPT !.pc = "apply_checked", !.form = f]
      BY <1>0, <3>1
    <3>3. tx'[t].pc = "apply_checked"
      BY <3>2 DEF Idle
    <3> QED
      BY <1>0, <2>2, <3>1, <3>3
  <2>4. ASSUME NEW d \in {"approving", "rejecting"}, ReviewLocksLeave(t, d)
        PROVE  SeenIsCurrent'
    <3>1. PICK r, b :
            r \in Requests /\ Become(t, [Idle EXCEPT !.pc = d, !.req = r, !.seen = status[r], !.retro = b])
      BY <2>4 DEF ReviewLocksLeave
    <3>2. tx'[t] = [Idle EXCEPT !.pc = d, !.req = r, !.seen = status[r], !.retro = b]
      BY <1>0, <3>1
    <3>3. tx'[t].pc = d
      BY <3>2 DEF Idle
    <3> QED
      BY <1>0, <2>2, <3>1, <3>3
  <2>5. CASE Rollback(t)
    BY <1>0, <2>2, <2>5 DEF Rollback, End
  <2> QED
    BY <2>1, <2>3, <2>4, <2>5 DEF Call, AgentLoadsLeave
<1> QED
  BY <1>1, <1>2 DEF ApiInv

LEMMA StepsKeepApiInv ==
  ASSUME Inv, ApiInv, TypeOK', NEW t \in Txns, Step(t)
  PROVE  ApiInv'
<1> USE OthersStay, IdlePC
<1>0. tx \in [Txns -> Tx] /\ tx[t].pc # "agent_loaded"
  BY DEF Inv, TypeOK, ApiInv, SeenIsCurrent
<1>1. CASE ApplyReadsPolicy(t) \/ ApplyReadsPending(t) \/ ReviewIsShort(t) \/ ReviewLocksPolicy(t)
  <2>1. UNCHANGED <<status, form, used>>
    BY <1>1 DEF ApplyReadsPolicy, ApplyReadsPending, ReviewIsShort, ReviewLocksPolicy
  <2>2. \A u \in Txns \ {t} : tx'[u] = tx[u]
    BY <1>0, <1>1 DEF ApplyReadsPolicy, ApplyReadsPending, ReviewIsShort, ReviewLocksPolicy, End
  <2>3. tx'[t].pc \notin {"agent_loaded", "cancelling"}
    <3>1. ASSUME NEW pc, NEW n, NEW b, Become(t, [tx[t] EXCEPT !.pc = pc, !.paid = n, !.ins = b])
          PROVE  tx'[t].pc = pc
      <4>1. tx'[t] = [tx[t] EXCEPT !.pc = pc, !.paid = n, !.ins = b]
        BY <1>0, <3>1
      <4> QED
        BY <1>0, <4>1 DEF Tx
    <3>2. CASE ApplyReadsPolicy(t)
      <4>1. PICK n, b : Become(t, [tx[t] EXCEPT !.pc = "apply_policy", !.paid = n, !.ins = b])
        BY <3>2 DEF ApplyReadsPolicy
      <4> QED
        BY <3>1, <4>1
    <3>3. CASE ApplyReadsPending(t)
      <4>1. tx'[t] = Idle \/ tx'[t] = [tx[t] EXCEPT !.pc = "apply_reserved"]
        BY <1>0, <3>3 DEF ApplyReadsPending, End
      <4> QED
        BY <1>0, <4>1 DEF Tx
    <3>4. CASE ReviewIsShort(t)
      BY <1>0, <3>4 DEF ReviewIsShort, End
    <3>5. CASE ReviewLocksPolicy(t)
      <4>1. PICK n : tx'[t] = [tx[t] EXCEPT !.pc = "charging", !.paid = n]
        BY <1>0, <3>5 DEF ReviewLocksPolicy
      <4> QED
        BY <1>0, <4>1 DEF Tx
    <3> QED
      BY <1>1, <3>2, <3>3, <3>4, <3>5
  <2> QED
    BY <2>1, <2>2, <2>3 DEF ApiInv, SeenIsCurrent, UsedIsApproved, DaysOf, Approved
<1>2. CASE ApplyCommits(t)
  <2>1. PICK r \in Requests :
          /\ status[r] = "NONE"
          /\ status' = [status EXCEPT ![r] = "PENDING"]
          /\ form' = [form EXCEPT ![r] = tx[t].form]
    BY <1>2 DEF ApplyCommits
  <2>2. status'[r] = "PENDING" /\ \A s \in Requests \ {r} : status'[s] = status[s] /\ form'[s] = form[s]
    BY <2>1 DEF Inv, TypeOK
  <2>3. UNCHANGED used /\ tx'[t] = Idle /\ \A u \in Txns \ {t} : tx'[u] = tx[u]
    BY <1>0, <1>2 DEF ApplyCommits, End
  <2>4. SeenIsCurrent'
    <3>1. \A u \in Txns \ {t} : tx[u].pc = "cancelling" => tx[u].req \in Requests \ {r}
      BY <2>1 DEF Inv, LocksHold, StatusIsCurrent, TypeOK, Holding
    <3> QED
      BY <2>2, <2>3, <3>1 DEF ApiInv, SeenIsCurrent
  <2>5. \A p \in Policies : Approved(p)' = Approved(p) /\ r \notin Approved(p)
    BY <2>1, <2>2 DEF Approved, PolicyOf
  <2>6. \A p \in Policies : DaysOf(Approved(p))' = DaysOf(Approved(p))
    BY <2>2, <2>5 DEF DaysOf, Approved
  <2> QED
    BY <2>3, <2>4, <2>6 DEF ApiInv, UsedIsApproved
<1>3. CASE ReviewApproves(t) \/ ReviewRejects(t) \/ CancelCommits(t)
  <2>0. PICK r, p : r = tx[t].req /\ p = PolicyOf(form[r])
    OBVIOUS
  <2> USE <2>0
  <2>1. /\ r \in Requests /\ form[r] \in Form /\ tx[t].pc \in Holding
        /\ p \in Policies /\ Days(form[r]) \in Nat
    <3>1. tx[t].pc \in Holding
      BY <1>3 DEF ReviewApproves, ReviewRejects, CancelCommits, Holding
    <3>2. r \in Requests /\ form[r] \in Form
      BY <3>1 DEF Inv, TypeOK
    <3> QED
      BY <3>1, <3>2, FormFacts
  <2>2. form' = form /\ tx'[t] = Idle /\ \A u \in Txns \ {t} : tx'[u] = tx[u]
    BY <1>0, <1>3 DEF ReviewApproves, ReviewRejects, CancelCommits, End
  <2>3. \A s \in Requests \ {r} : status'[s] = status[s]
    BY <1>3, <2>1 DEF ReviewApproves, ReviewRejects, CancelCommits, Inv, TypeOK
  <2>4. SeenIsCurrent'
    <3>1. \A u \in Txns \ {t} : tx[u].pc = "cancelling" => tx[u].req \in Requests \ {r}
      BY <2>1 DEF Inv, LocksHold, LeaveRowExclusive, TypeOK, Holding
    <3> QED
      BY <2>2, <2>3, <3>1 DEF ApiInv, SeenIsCurrent
  <2>5. \A q \in Policies \ {p} : used'[q] = used[q] /\ Approved(q)' = Approved(q)
    BY <1>3, <2>1, <2>2, <2>3
    DEF ReviewApproves, ReviewRejects, CancelCommits, Inv, TypeOK, Approved
  <2>6. \A q \in Policies \ {p} : used'[q] = Cardinality(DaysOf(Approved(q)))'
    BY <2>2, <2>5 DEF ApiInv, UsedIsApproved, DaysOf
  <2>7. used'[p] = Cardinality(DaysOf(Approved(p)))'
    <3>0. used[p] = Cardinality(DaysOf(Approved(p))) /\ used[p] \in Nat
      BY <2>1 DEF ApiInv, UsedIsApproved, Inv, TypeOK
    <3>1. CASE ReviewApproves(t)
      <4>1. tx[t].paid = used[p] /\ status[r] = "PENDING"
        BY <3>1 DEF ReviewApproves, Inv, LocksHold, PaidIsCurrent, StatusIsCurrent
      <4>2. used'[p] = used[p] + Days(form[r]) /\ status'[r] = "APPROVED"
        BY <2>1, <3>1, <4>1 DEF ReviewApproves, Inv, TypeOK
      <4>3. r \notin Approved(p) /\ Approved(p)' = Approved(p) \cup {r}
        BY <2>1, <2>2, <2>3, <4>1, <4>2 DEF Approved
      <4>4. DaysOf(Approved(p))' = DaysOf(Approved(p) \cup {r})
        BY <2>2, <4>3 DEF DaysOf
      <4>5. Cardinality(DaysOf(Approved(p) \cup {r})) = Cardinality(DaysOf(Approved(p))) + Days(form[r])
        BY <2>1, <4>3, DaysOfSplit DEF Inv
      <4> QED
        BY <3>0, <4>2, <4>4, <4>5
    <3>2. CASE ReviewRejects(t) \/ (CancelCommits(t) /\ tx[t].seen = "PENDING")
      <4>1. status[r] = "PENDING" /\ used' = used /\ status'[r] # "APPROVED"
        BY <2>1, <3>2 DEF ReviewRejects, CancelCommits, Inv, LocksHold, StatusIsCurrent,
                          ApiInv, SeenIsCurrent, TypeOK
      <4>2. Approved(p)' = Approved(p)
        BY <2>1, <2>2, <2>3, <4>1 DEF Approved
      <4> QED
        BY <2>2, <3>0, <4>1, <4>2 DEF DaysOf
    <3>3. CASE CancelCommits(t) /\ tx[t].seen = "APPROVED"
      <4>1. status[r] = "APPROVED" /\ status'[r] = "CANCELLED" /\ p \in hasPolicy
        BY <2>1, <3>3 DEF CancelCommits, ApiInv, SeenIsCurrent, Inv, TypeOK, PolicyExists
      <4>2. used'[p] = IF used[p] - Days(form[r]) < 0 THEN 0 ELSE used[p] - Days(form[r])
        BY <2>1, <3>3, <4>1, <3>0 DEF CancelCommits, Refunded, Inv, TypeOK
      <4>3. r \notin Approved(p)' /\ Approved(p) = Approved(p)' \cup {r}
        BY <2>1, <2>2, <2>3, <4>1 DEF Approved
      <4> DEFINE A == Approved(p) \ {r}
      <4>4. A = Approved(p)' /\ Approved(p) = A \cup {r} /\ r \notin A
        BY <4>3
      <4>5. Cardinality(DaysOf(A \cup {r})) = Cardinality(DaysOf(A)) + Days(form[r])
        BY <2>1, <4>4, DaysOfSplit DEF Inv
      <4>6. DaysOf(Approved(p))' = DaysOf(A)
        BY <2>2, <4>4 DEF DaysOf
      <4>7. Cardinality(DaysOf(A)) \in Nat
        BY DaysOfFinite
      <4>8. used[p] = Cardinality(DaysOf(A)) + Days(form[r])
        BY <3>0, <4>4, <4>5
      <4>9. used'[p] = Cardinality(DaysOf(A))
        BY <2>1, <4>2, <4>7, <4>8
      <4> QED
        BY <4>6, <4>9
    <3> QED
      BY <1>3, <3>1, <3>2, <3>3 DEF CancelCommits
  <2> QED
    BY <2>4, <2>6, <2>7 DEF ApiInv, UsedIsApproved
<1> QED
  BY <1>0, <1>1, <1>2, <1>3 DEF Step, AgentLocksLeave

\* Without the agent: every step keeps the invariant of the API.
THEOREM ApiInvHolds ==
  ASSUME ~AgentCancels
  PROVE  Spec => []ApiInv
<1>1. Init => ApiInv
  <2> SUFFICES ASSUME Init PROVE ApiInv
    OBVIOUS
  <2>1. \A p \in Policies : DaysOf(Approved(p)) = {}
    BY DEF Init, DaysOf, Approved
  <2> QED
    BY <2>1, FS_EmptySet, IdlePC DEF Init, ApiInv, SeenIsCurrent, UsedIsApproved
<1>2. Inv /\ TypeOK' /\ ApiInv /\ [Next]_vars => ApiInv'
  <2> SUFFICES ASSUME Inv, TypeOK', ApiInv, [Next]_vars PROVE ApiInv'
    OBVIOUS
  <2>1. ASSUME NEW t \in Txns, Call(t) \/ Rollback(t) PROVE ApiInv'
    BY <2>1, CallsKeepApiInv
  <2>2. ASSUME NEW t \in Txns, Step(t) PROVE ApiInv'
    BY <2>2, StepsKeepApiInv
  <2>3. CASE GetLeaveBalances \/ LockAttendance \/ UnlockAttendance \/ NextDay \/ UNCHANGED vars
    <3>1. UNCHANGED <<status, form, used, tx>>
      BY <2>3 DEF GetLeaveBalances, LockAttendance, UnlockAttendance, NextDay, vars
    <3> QED
      BY <3>1 DEF ApiInv, SeenIsCurrent, UsedIsApproved, DaysOf, Approved
  <2> QED
    BY <2>1, <2>2, <2>3 DEF Next
<1> QED
  BY <1>1, <1>2, TypeCorrect, InvHolds, PTL DEF Spec

\* Without the agent, used_days is at all times the sum of the days of the
\* APPROVED requests: every approval is charged once, every cancellation of an
\* approved leave is refunded once, and nothing else moves the balance.
THEOREM BalanceIsApprovedDays ==
  ASSUME ~AgentCancels
  PROVE  Spec => []UsedIsApproved
<1>1. ApiInv => UsedIsApproved
  BY DEF ApiInv
<1> QED
  BY <1>1, ApiInvHolds, PTL

\* Every stored request has its policy row, with the agent too: review_leave
\* always finds it and cancel_leave never skips a refund for want of one.
THEOREM PolicyIsFound == Spec => []PolicyExists
<1>1. Inv => PolicyExists
  BY DEF Inv
<1> QED
  BY <1>1, InvHolds, PTL

(***************************************************************************)
(* The leave desk.                                                         *)
(***************************************************************************)

\* What an approved leave cost is still charged, so that the max(0, ...) of
\* cancel_leave gives back all of it.
LEMMA CostIsCharged ==
  ASSUME Inv, ApiInv, NEW r \in Requests, status[r] = "APPROVED"
  PROVE  Days(form[r]) <= used[PolicyOf(form[r])]
<1> DEFINE p == PolicyOf(form[r])
           A == Approved(p) \ {r}
<1>1. form[r] \in Form /\ p \in Policies /\ Days(form[r]) \in Nat
  <2>1. form[r] \in Form
    BY DEF Inv, TypeOK
  <2> QED
    BY <2>1, FormFacts
<1>2. Approved(p) = A \cup {r} /\ r \notin A
  BY DEF Approved
<1>3. Cardinality(DaysOf(A \cup {r})) = Cardinality(DaysOf(A)) + Days(form[r])
  BY <1>1, <1>2, DaysOfSplit DEF Inv
<1>4. used[p] = Cardinality(DaysOf(Approved(p)))
  BY <1>1 DEF ApiInv, UsedIsApproved
<1>5. Cardinality(DaysOf(A)) \in Nat
  BY DaysOfFinite
<1> HIDE DEF A
<1> QED
  BY <1>1, <1>2, <1>3, <1>4, <1>5

\* What the desk has left in the account of each policy row.
Left == [p \in Policies |-> TotalDays[p[1]] - used[p]]

\* A charge (d > 0) or a refund (d < 0), seen from the desk.
LEMMA LeftFollowsUsed ==
  ASSUME used \in [Policies -> Nat], NEW p \in Policies, NEW d \in Int,
         used' = [used EXCEPT ![p] = used[p] + d]
  PROVE  Left' = [Left EXCEPT ![p] = @ - d]
<1>1. \A q \in Policies : TotalDays[q[1]] \in Nat
  BY PolicyAssumption DEF Policies
<1>2. \A q \in Policies : used[q] \in Int /\ used'[q] = IF q = p THEN used[p] + d ELSE used[q]
  OBVIOUS
<1>3. \A q \in Policies : TotalDays[q[1]] - used'[q] =
          IF q = p THEN (TotalDays[p[1]] - used[p]) - d ELSE TotalDays[q[1]] - used[q]
  BY <1>1, <1>2
<1> QED
  BY <1>3 DEF Left

\* What a form costs, and on which account, is what the service computes.
LEMMA DeskReads ==
  ASSUME Inv, NEW r \in Requests
  PROVE  /\ form[r] \in Form
         /\ PolicyOf(form[r]) \in Policies
         /\ Days(form[r]) \in Nat
         /\ [f \in Form |-> PolicyOf(f)][form[r]] = PolicyOf(form[r])
         /\ [f \in Form |-> Days(f)][form[r]] = Days(form[r])
<1>1. form[r] \in Form
  BY DEF Inv, TypeOK
<1> QED
  BY <1>1, FormFacts

\* The commit of an application hands a request in.
LEMMA ApplyIsHandIn ==
  ASSUME Inv, NEW t \in Txns, ApplyCommits(t)
  PROVE  Desk!Next
<1>1. PICK r \in Requests :
        /\ status[r] = "NONE"
        /\ status' = [status EXCEPT ![r] = "PENDING"]
        /\ form' = [form EXCEPT ![r] = tx[t].form]
  BY DEF ApplyCommits
<1>2. tx[t].form \in Form
  BY DEF Inv, TypeOK, Tx
<1>3. UNCHANGED <<used, arrears>>
  BY DEF ApplyCommits
<1>4. Desk!HandIn(r)
  BY <1>1, <1>2, <1>3 DEF Desk!HandIn, Desk!Decide
<1> QED
  BY <1>4 DEF Desk!Next

\* The commit of an approval charges what the account still covers: used_days
\* was read under the lock, so the balance that was verified is the balance
\* that is charged.
LEMMA ApproveIsApprove ==
  ASSUME Inv, NEW t \in Txns, ReviewApproves(t)
  PROVE  Desk!Next
<1>0. PICK r, p, d : r = tx[t].req /\ p = PolicyOf(form[r]) /\ d = Days(form[r])
  OBVIOUS
<1> USE <1>0
<1>1. r \in Requests /\ status[r] = "PENDING" /\ tx[t].paid = used[p]
  BY DEF ReviewApproves, Inv, TypeOK, Holding, LocksHold, StatusIsCurrent, PaidIsCurrent
<1>2. form[r] \in Form /\ p \in Policies /\ d \in Nat /\ used \in [Policies -> Nat]
  BY <1>1, DeskReads DEF Inv, TypeOK
<1>3. used' = [used EXCEPT ![p] = used[p] + d]
  BY <1>1 DEF ReviewApproves
<1>4. d <= TotalDays[p[1]] - used[p]
  <2>1. p[1] = form[r].type /\ TotalDays[p[1]] \in Nat
    BY <1>2, FormFacts, PolicyAssumption DEF Policies
  <2>2. PendingDays(form[r].type, r) \in Nat
    BY PendingDaysNat
  <2>3. TotalDays[p[1]] - used[p] - PendingDays(form[r].type, r) >= d
    BY <1>1, <2>1 DEF ReviewApproves, Covers
  <2> QED
    BY <1>2, <2>1, <2>2, <2>3
<1>5. Left' = [Left EXCEPT ![p] = @ - d]
  <2>1. d \in Int
    BY <1>2
  <2> QED
    BY <1>2, <1>3, <2>1, LeftFollowsUsed
<1>6. Desk!Approve(r)
  BY <1>1, <1>2, <1>4, <1>5, DeskReads
  DEF ReviewApproves, Desk!Approve, Desk!Decide, Left
<1> QED
  BY <1>1, <1>6 DEF Desk!Next

\* A rejection, and the cancellation of a pending request, drop it.
LEMMA RejectIsDrop ==
  ASSUME Inv, ApiInv, NEW t \in Txns,
         ReviewRejects(t) \/ (CancelCommits(t) /\ tx[t].seen = "PENDING")
  PROVE  Desk!Next
<1>0. PICK r : r = tx[t].req
  OBVIOUS
<1> USE <1>0
<1>1. r \in Requests /\ status[r] = "PENDING"
  BY DEF ReviewRejects, CancelCommits, Inv, TypeOK, Holding, LocksHold, StatusIsCurrent,
         ApiInv, SeenIsCurrent
<1>2. UNCHANGED <<form, used, arrears>>
  BY DEF ReviewRejects, CancelCommits
<1>3. Desk!Drop(r)
  BY <1>1, <1>2 DEF ReviewRejects, CancelCommits, Desk!Drop, Desk!Decide
<1> QED
  BY <1>1, <1>3 DEF Desk!Next

\* The cancellation of an approved leave gives back all it cost.
LEMMA CancelIsTakeBack ==
  ASSUME Inv, ApiInv, NEW t \in Txns, CancelCommits(t), tx[t].seen = "APPROVED"
  PROVE  Desk!Next
<1>0. PICK r, p, d : r = tx[t].req /\ p = PolicyOf(form[r]) /\ d = Days(form[r])
  OBVIOUS
<1> USE <1>0
<1>1. r \in Requests /\ status[r] = "APPROVED"
  BY DEF CancelCommits, Inv, TypeOK, Holding, ApiInv, SeenIsCurrent
<1>2. p \in Policies /\ d \in Nat /\ used \in [Policies -> Nat] /\ p \in hasPolicy
  BY <1>1, DeskReads DEF Inv, TypeOK, PolicyExists
<1>3. d <= used[p]
  BY <1>1, CostIsCharged
<1>4. used' = [used EXCEPT ![p] = used[p] + (-d)]
  <2>1. used[p] \in Nat /\ Refunded(used[p], d) = used[p] + (-d)
    BY <1>2, <1>3 DEF Refunded
  <2> QED
    BY <1>2, <2>1 DEF CancelCommits
<1>5. Left' = [Left EXCEPT ![p] = @ - (-d)]
  <2>1. -d \in Int
    BY <1>2
  <2> QED
    BY <1>2, <1>4, <2>1, LeftFollowsUsed
<1>6. Left[p] - (-d) = Left[p] + d
  <2>1. Left[p] \in Int
    BY <1>2, PolicyAssumption DEF Left, Policies
  <2> QED
    BY <1>2, <2>1
<1>7. Left' = [Left EXCEPT ![p] = @ + d]
  BY <1>5, <1>6
<1>8. Desk!TakeBack(r)
  BY <1>1, <1>7, DeskReads DEF CancelCommits, Desk!TakeBack, Desk!Decide, Left
<1> QED
  BY <1>1, <1>8 DEF Desk!Next

\* Every other step is invisible at the desk.
LEMMA OtherStepsAreHidden ==
  ASSUME NEW t \in Txns,
         \/ Call(t) \/ Rollback(t)
         \/ ApplyReadsPolicy(t) \/ ApplyReadsPending(t) \/ ReviewLocksPolicy(t)
         \/ ReviewIsShort(t) \/ AgentLocksLeave(t)
  PROVE  UNCHANGED <<status, form, used, arrears>>
  BY DEF Call, Rollback, ApplyChecks, ReviewLocksLeave, CancelLocksLeave, AgentLoadsLeave,
         ApplyReadsPolicy, ApplyReadsPending, ReviewLocksPolicy, ReviewIsShort, AgentLocksLeave

LEMMA StepIsDeskStep ==
  ASSUME Inv, ApiInv, [Next]_vars
  PROVE  [Desk!Next]_(Desk!vars)
<1>1. ASSUME UNCHANGED <<status, form, used, arrears>> PROVE UNCHANGED Desk!vars
  BY <1>1 DEF Desk!vars
<1>2. ASSUME NEW t \in Txns, Call(t) \/ Rollback(t) PROVE UNCHANGED Desk!vars
  BY <1>1, <1>2, OtherStepsAreHidden
<1>3. ASSUME NEW t \in Txns, Step(t) PROVE [Desk!Next]_(Desk!vars)
  <2>1. CASE ApplyCommits(t)
    BY <2>1, ApplyIsHandIn
  <2>2. CASE ReviewApproves(t)
    BY <2>2, ApproveIsApprove
  <2>3. CASE ReviewRejects(t)
    BY <2>3, RejectIsDrop
  <2>4. CASE CancelCommits(t)
    <3>1. tx[t].seen \in {"PENDING", "APPROVED"}
      BY <2>4 DEF CancelCommits
    <3> QED
      BY <2>4, <3>1, RejectIsDrop, CancelIsTakeBack
  <2> QED
    BY <1>1, <1>3, <2>1, <2>2, <2>3, <2>4, OtherStepsAreHidden DEF Step
<1>4. CASE GetLeaveBalances \/ LockAttendance \/ UnlockAttendance \/ NextDay \/ UNCHANGED vars
  BY <1>1, <1>4 DEF GetLeaveBalances, LockAttendance, UnlockAttendance, NextDay, vars
<1> QED
  BY <1>2, <1>3, <1>4 DEF Next

\* Without the agent the service implements LeaveDesk: to its callers every
\* decision is made on the current status of the request and moves exactly its
\* days, in one step, however the transactions interleave.
THEOREM ServiceIsDesk ==
  ASSUME ~AgentCancels
  PROVE  Spec => ImplementsDesk
<1>1. Init => Desk!Init
  <2> SUFFICES ASSUME Init PROVE Desk!Init
    OBVIOUS
  <2>1. form \in [Requests -> Form]
    BY IdleType DEF Init, Idle, Tx
  <2>2. \A p \in Policies : TotalDays[p[1]] - used[p] = TotalDays[p[1]]
    BY PolicyAssumption DEF Init, Policies
  <2> QED
    BY <2>1, <2>2 DEF Init, Desk!Init
<1>2. Inv /\ ApiInv /\ [Next]_vars => [Desk!Next]_(Desk!vars)
  BY StepIsDeskStep
<1> QED
  BY <1>1, <1>2, InvHolds, ApiInvHolds, PTL DEF Spec, ImplementsDesk, Desk!Spec

\* Without the agent no decision is revised but by the cancellation of an
\* approved leave: it follows from the desk's rules.
THEOREM DecisionsStand ==
  ASSUME ~AgentCancels
  PROVE  Spec => DecisionsAreFinal
<1>1. ASSUME TypeOK, [Desk!Next]_(Desk!vars)
      PROVE  \A r \in Requests :
               /\ status[r] \in {"REJECTED", "CANCELLED"} => status'[r] = status[r]
               /\ status[r] = "APPROVED" => status'[r] \in {"APPROVED", "CANCELLED"}
  <2>1. CASE UNCHANGED Desk!vars
    BY <2>1 DEF Desk!vars
  <2>2. CASE Desk!Next
    <3>1. PICK r \in Requests :
            /\ \A q \in Requests \ {r} : status'[q] = status[q]
            /\ \/ status[r] \in {"NONE", "PENDING"}
               \/ status[r] = "APPROVED" /\ status'[r] = "CANCELLED"
      BY <1>1, <2>2 DEF TypeOK, Desk!Next, Desk!HandIn, Desk!Approve, Desk!Drop, Desk!TakeBack,
                        Desk!Decide
    <3> QED
      BY <1>1, <3>1 DEF TypeOK
  <2> QED
    BY <1>1, <2>1, <2>2
<1>2. Inv /\ ApiInv /\ [Next]_vars =>
        [\A r \in Requests :
           /\ status[r] \in {"REJECTED", "CANCELLED"} => status'[r] = status[r]
           /\ status[r] = "APPROVED" => status'[r] \in {"APPROVED", "CANCELLED"}]_vars
  BY <1>1, StepIsDeskStep DEF Inv
<1> QED
  BY <1>2, InvHolds, ApiInvHolds, PTL DEF Spec, DecisionsAreFinal

(***************************************************************************)
(* Reservations.  apply_leave locks nothing: it checks the dates and the   *)
(* balance in statements of their own and inserts later.  What it checks   *)
(* holds when no other transaction of the employee runs meanwhile.         *)
(***************************************************************************)
OneAtATime == \A t, u \in Txns : t = u

\* Some request of Q fits the allocation of its type together with all of Q and
\* what is charged to its own policy row.
Fits(type, Q) ==
  \E r \in Q : used[PolicyOf(form[r])] + Cardinality(DaysOf(Q)) <= TotalDays[type]

\* Neither reservation property is inductive: a request that could be approved
\* may be decided first and leave others, of another year, behind.  But the
\* request of a set that was applied for last was checked against all of it,
\* and that stays true of every set of pending requests.
Reserved ==
  \A type \in LeaveTypes : \A Q \in SUBSET PendingOf(type, NoRequest) :
    Q # {} => Fits(type, Q)

\* What an application has checked so far is still so.
ApplyIsCurrent ==
  \A t \in Txns :
    /\ tx[t].pc \in {"apply_checked", "apply_policy", "apply_reserved"}
         => ~HasOverlap(tx[t].form)
    /\ tx[t].pc = "apply_policy" => tx[t].paid = used[PolicyOf(tx[t].form)]
    /\ tx[t].pc = "apply_reserved" =>
         used[PolicyOf(tx[t].form)] + PendingDays(tx[t].form.type, NoRequest)
           + Days(tx[t].form) <= TotalDays[tx[t].form.type]

SerialInv == Reserved /\ NoDayTwice /\ ApplyIsCurrent

LEMMA DaysOfMonotone ==
  ASSUME NEW R, NEW S, R \subseteq S
  PROVE  Cardinality(DaysOf(R)) <= Cardinality(DaysOf(S))
<1>1. DaysOf(R) \in SUBSET DaysOf(S)
  BY DEF DaysOf
<1> QED
  BY <1>1, DaysOfFinite, FS_Subset

\* A step that changes no row keeps what was true of the rows.
LEMMA RowsKeepReserved ==
  ASSUME UNCHANGED <<status, form, used>>, Reserved, NoDayTwice
  PROVE  Reserved' /\ NoDayTwice'
<1>1. Reserved'
  BY DEF Reserved, Fits, DaysOf, PendingOf
<1>2. NoDayTwice'
  BY DEF NoDayTwice
<1> QED
  BY <1>1, <1>2

\* Decisions that only release days.
LEMMA ReleaseKeepsReserved ==
  ASSUME Inv, Reserved, NoDayTwice, UNCHANGED form, used' \in [Policies -> Nat],
         \A r \in Requests : status'[r] = status[r] \/ status'[r] \notin {"PENDING", "APPROVED"},
         \A p \in Policies : used'[p] <= used[p]
  PROVE  Reserved' /\ NoDayTwice'
<1>1. NoDayTwice'
  BY DEF NoDayTwice
<1>2. Reserved'
  <2> SUFFICES ASSUME NEW type \in LeaveTypes, NEW Q \in SUBSET PendingOf(type, NoRequest)',
                      Q # {}
               PROVE  Fits(type, Q)'
    BY DEF Reserved
  <2>1. Q \in SUBSET PendingOf(type, NoRequest)
    BY DEF PendingOf
  <2>2. PICK r \in Q : used[PolicyOf(form[r])] + Cardinality(DaysOf(Q)) <= TotalDays[type]
    BY <2>1 DEF Reserved, Fits
  <2>3. PolicyOf(form[r]) \in Policies
    BY <2>1, FormFacts DEF PendingOf, Inv, TypeOK
  <2>4. DaysOf(Q)' = DaysOf(Q) /\ Cardinality(DaysOf(Q)) \in Nat
    BY DaysOfFinite DEF DaysOf
  <2>5. TotalDays[type] \in Nat
    BY PolicyAssumption
  <2>6. used'[PolicyOf(form[r])] + Cardinality(DaysOf(Q)) <= TotalDays[type]
    BY <2>2, <2>3, <2>4, <2>5 DEF Inv, TypeOK
  <2> QED
    BY <2>4, <2>6 DEF Fits
<1> QED
  BY <1>1, <1>2

\* The insert of an application: the new request fits every set it is in.
LEMMA ApplyKeepsReserved ==
  ASSUME Inv, SerialInv, NEW t \in Txns, ApplyCommits(t)
  PROVE  Reserved' /\ NoDayTwice'
<1>0. PICK f, p : f = tx[t].form /\ p = PolicyOf(f)
  OBVIOUS
<1>1. PICK n \in Requests :
        /\ status[n] = "NONE"
        /\ status' = [status EXCEPT ![n] = "PENDING"]
        /\ form' = [form EXCEPT ![n] = f]
  BY <1>0 DEF ApplyCommits
<1>2. f \in Form /\ p \in Policies /\ p[1] = f.type /\ Days(f) \in Nat
  BY <1>0, FormFacts DEF Inv, TypeOK, Tx
<1>3. /\ form' \in [Requests -> Form] /\ form'[n] = f /\ status'[n] = "PENDING"
      /\ \A q \in Requests \ {n} : form'[q] = form[q] /\ status'[q] = status[q]
  BY <1>1, <1>2 DEF Inv, TypeOK
<1>4. /\ ~HasOverlap(f) /\ UNCHANGED used
      /\ used[p] + PendingDays(f.type, NoRequest) + Days(f) <= TotalDays[f.type]
  BY <1>0 DEF ApplyCommits, SerialInv, ApplyIsCurrent
<1>5. NoDayTwice'
  <2> SUFFICES ASSUME NEW q \in Requests, NEW r \in Requests, q # r,
                      status'[q] \in {"PENDING", "APPROVED"},
                      status'[r] \in {"PENDING", "APPROVED"}
               PROVE  ~Overlaps(form'[q], form'[r])
    BY DEF NoDayTwice, Overlaps
  <2>1. CASE q # n /\ r # n
    BY <2>1, <1>3 DEF SerialInv, NoDayTwice
  <2>2. CASE q = n
    BY <2>2, <1>3, <1>4 DEF HasOverlap, Overlaps
  <2>3. CASE r = n
    BY <2>3, <1>3, <1>4 DEF HasOverlap, Overlaps
  <2> QED
    BY <2>1, <2>2, <2>3
<1>6. Reserved'
  <2> SUFFICES ASSUME NEW type \in LeaveTypes, NEW Q \in SUBSET PendingOf(type, NoRequest)',
                      Q # {}
               PROVE  Fits(type, Q)'
    BY DEF Reserved
  <2>1. Q \ {n} \subseteq PendingOf(type, NoRequest) /\ Q \subseteq Requests
    BY <1>3 DEF PendingOf
  <2>2. DaysUnder(form', Q \ {n}) = DaysOf(Q \ {n}) /\ DaysOf(Q)' = DaysUnder(form', Q)
    BY <1>3 DEF DaysOf, DaysUnder
  <2>3. CASE n \notin Q
    <3>1. Q \ {n} = Q
      BY <2>3
    <3>2. PICK r \in Q : used[PolicyOf(form[r])] + Cardinality(DaysOf(Q)) <= TotalDays[type]
      BY <2>1, <3>1 DEF SerialInv, Reserved, Fits
    <3>3. form'[r] = form[r] /\ DaysOf(Q)' = DaysOf(Q)
      BY <1>3, <2>1, <2>2, <2>3, <3>1
    <3> QED
      BY <1>4, <3>2, <3>3 DEF Fits, PolicyOf
  <2>4. CASE n \in Q
    <3>1. type = f.type
      BY <1>3, <2>4 DEF PendingOf
    <3>2. (Q \ {n}) \cup {n} = Q /\ n \notin Q \ {n}
      BY <2>4
    <3>3. Cardinality(DaysUnder(form', (Q \ {n}) \cup {n}))
            = Cardinality(DaysUnder(form', Q \ {n})) + Days(form'[n])
      BY <1>3, <3>2, DaysUnderSplit
    <3>4. Cardinality(DaysOf(Q))' = Cardinality(DaysOf(Q \ {n})) + Days(f)
      BY <1>3, <2>2, <3>2, <3>3
    <3>5. Cardinality(DaysOf(Q \ {n})) <= PendingDays(f.type, NoRequest)
      BY <2>1, <3>1, DaysOfMonotone DEF PendingDays
    <3>6. /\ Cardinality(DaysOf(Q \ {n})) \in Nat /\ PendingDays(f.type, NoRequest) \in Nat
          /\ used[p] \in Nat /\ TotalDays[f.type] \in Nat
      BY <1>2, <3>1, DaysOfFinite, PendingDaysNat, PolicyAssumption DEF Inv, TypeOK
    <3>7. used[p] + (Cardinality(DaysOf(Q \ {n})) + Days(f)) <= TotalDays[f.type]
      BY <1>2, <1>4, <3>5, <3>6
    <3>8. used'[PolicyOf(form'[n])] + Cardinality(DaysOf(Q))' <= TotalDays[type]
      BY <1>0, <1>3, <1>4, <3>1, <3>4, <3>7
    <3> QED
      BY <2>4, <3>8 DEF Fits, PolicyOf
  <2> QED
    BY <2>3, <2>4
<1> QED
  BY <1>5, <1>6

\* An approval moves the days from pending to used.  A set of the same policy
\* row still fits, since review_leave has verified the approved request against
\* everything pending; a set of another row is not touched.
LEMMA ApproveKeepsReserved ==
  ASSUME Inv, Reserved, NoDayTwice, NEW t \in Txns, ReviewApproves(t)
  PROVE  Reserved' /\ NoDayTwice'
<1>0. PICK w, p, f : w = tx[t].req /\ f = form[w] /\ p = PolicyOf(f)
  OBVIOUS
<1>1. w \in Requests /\ status[w] = "PENDING" /\ tx[t].paid = used[p]
  BY <1>0 DEF ReviewApproves, Inv, TypeOK, Holding, LocksHold, StatusIsCurrent, PaidIsCurrent
<1>2. f \in Form /\ p \in Policies /\ p[1] = f.type /\ Days(f) \in Nat /\ TotalDays[f.type] \in Nat
  <2>1. f \in Form
    BY <1>0, <1>1 DEF Inv, TypeOK
  <2>2. f.type \in LeaveTypes
    BY <2>1 DEF Form
  <2> QED
    BY <1>0, <2>1, <2>2, FormFacts, PolicyAssumption
<1>3. /\ UNCHANGED form /\ status'[w] = "APPROVED"
      /\ \A q \in Requests \ {w} : status'[q] = status[q]
      /\ used'[p] = used[p] + Days(f)
      /\ \A q \in Policies \ {p} : used'[q] = used[q]
  BY <1>0, <1>1, <1>2 DEF ReviewApproves, Inv, TypeOK
<1>4. used[p] \in Nat /\ PendingDays(f.type, w) \in Nat
  BY <1>2, PendingDaysNat DEF Inv, TypeOK
<1>5. TotalDays[f.type] - used[p] - PendingDays(f.type, w) >= Days(f)
  BY <1>0, <1>1 DEF ReviewApproves, Covers
<1>6. NoDayTwice'
  BY <1>1, <1>3 DEF NoDayTwice
<1>7. Reserved'
  <2> SUFFICES ASSUME NEW type \in LeaveTypes, NEW Q \in SUBSET PendingOf(type, NoRequest)',
                      Q # {}
               PROVE  Fits(type, Q)'
    BY DEF Reserved
  <2>1. Q \in SUBSET PendingOf(type, NoRequest) /\ w \notin Q
    BY <1>3 DEF PendingOf
  <2>2. PICK r \in Q : used[PolicyOf(form[r])] + Cardinality(DaysOf(Q)) <= TotalDays[type]
    BY <2>1 DEF Reserved, Fits
  <2>3. form[r] \in Form /\ PolicyOf(form[r]) \in Policies /\ PolicyOf(form[r])[1] = type
    <3>1. form[r] \in Form /\ form[r].type = type
      BY <2>1 DEF PendingOf, Inv, TypeOK
    <3> QED
      BY <3>1, FormFacts
  <2>4. DaysOf(Q)' = DaysOf(Q) /\ Cardinality(DaysOf(Q)) \in Nat
    BY <1>3, DaysOfFinite DEF DaysOf
  <2>5. used'[PolicyOf(form[r])] + Cardinality(DaysOf(Q)) <= TotalDays[type]
    <3>1. CASE PolicyOf(form[r]) # p
      BY <1>3, <2>2, <2>3, <3>1
    <3>2. CASE PolicyOf(form[r]) = p
      <4>1. type = f.type
        BY <1>2, <2>3, <3>2
      <4>2. Q \subseteq PendingOf(f.type, w)
        BY <2>1, <4>1 DEF PendingOf
      <4>3. Cardinality(DaysOf(Q)) <= PendingDays(f.type, w)
        BY <4>2, DaysOfMonotone DEF PendingDays
      <4> QED
        BY <1>2, <1>3, <1>4, <1>5, <2>4, <3>2, <4>1, <4>3
    <3> QED
      BY <3>1, <3>2
  <2> QED
    BY <1>3, <2>4, <2>5 DEF Fits
<1> QED
  BY <1>6, <1>7

\* The one transaction: what its next program point knows.
LEMMA ApplyStaysCurrent ==
  ASSUME OneAtATime, Inv, ApplyIsCurrent, NEW t \in Txns, Call(t) \/ Step(t) \/ Rollback(t)
  PROVE  ApplyIsCurrent'
<1>0. tx \in [Txns -> Tx] /\ tx[t] \in Tx
  BY DEF Inv, TypeOK
<1>1. ASSUME tx'[t].pc \notin {"apply_checked", "apply_policy", "apply_reserved"}
      PROVE  ApplyIsCurrent'
  BY <1>1 DEF ApplyIsCurrent, OneAtATime
<1>2. CASE ApplyChecks(t)
  <2>1. PICK f \in Form :
          ~HasOverlap(f) /\ Become(t, [Idle EXCEPT !.pc = "apply_checked", !.form = f])
    BY <1>2 DEF ApplyChecks
  <2>2. tx'[t] = [Idle EXCEPT !.pc = "apply_checked", !.form = f]
    BY <1>0, <2>1 DEF Become
  <2>3. tx'[t].pc = "apply_checked" /\ tx'[t].form = f
    BY <2>2 DEF Idle
  <2>4. UNCHANGED <<status, form>>
    BY <1>2 DEF ApplyChecks
  <2>5. ~HasOverlap(f)'
    BY <2>1, <2>4 DEF HasOverlap
  <2> QED
    BY <2>3, <2>5 DEF ApplyIsCurrent, OneAtATime, HasOverlap
<1>3. CASE ApplyReadsPolicy(t)
  <2>1. tx'[t] = [tx[t] EXCEPT !.pc = "apply_policy", !.paid = used[PolicyOf(tx[t].form)],
                               !.ins = PolicyOf(tx[t].form) \notin hasPolicy]
    BY <1>0, <1>3 DEF ApplyReadsPolicy, Become
  <2>2. /\ tx'[t].pc = "apply_policy" /\ tx'[t].form = tx[t].form
        /\ tx'[t].paid = used[PolicyOf(tx[t].form)]
    BY <1>0, <2>1 DEF Tx
  <2>3. UNCHANGED <<status, form, used>> /\ tx[t].pc = "apply_checked"
    BY <1>3 DEF ApplyReadsPolicy
  <2>4. ~HasOverlap(tx[t].form)
    BY <2>3 DEF ApplyIsCurrent
  <2> QED
    BY <2>2, <2>3, <2>4 DEF ApplyIsCurrent, OneAtATime, HasOverlap, PolicyOf
<1>4. CASE ApplyReadsPending(t)
  <2>1. UNCHANGED <<status, form, used>> /\ tx[t].pc = "apply_policy"
    BY <1>4 DEF ApplyReadsPending
  <2>2. CASE AvailableDays(t) >= Days(tx[t].form)
    <3>1. tx'[t] = [tx[t] EXCEPT !.pc = "apply_reserved"]
      BY <1>0, <1>4, <2>2 DEF ApplyReadsPending, Become
    <3>2. tx'[t].pc = "apply_reserved" /\ tx'[t].form = tx[t].form
      BY <1>0, <3>1 DEF Tx
    <3>3. tx[t].paid = used[PolicyOf(tx[t].form)] /\ ~HasOverlap(tx[t].form)
      BY <2>1 DEF ApplyIsCurrent
    <3>4. /\ tx[t].form \in Form /\ tx[t].form.type \in LeaveTypes
          /\ tx[t].paid \in Nat /\ Days(tx[t].form) \in Nat
      BY <1>0, FormFacts DEF Tx, Form
    <3>5. TotalDays[tx[t].form.type] \in Nat /\ PendingDays(tx[t].form.type, NoRequest) \in Nat
      BY <3>4, PolicyAssumption, PendingDaysNat
    <3>6. used[PolicyOf(tx[t].form)] + PendingDays(tx[t].form.type, NoRequest)
            + Days(tx[t].form) <= TotalDays[tx[t].form.type]
      BY <2>2, <3>3, <3>4, <3>5 DEF AvailableDays
    <3>7. ASSUME NEW f
          PROVE  /\ HasOverlap(f)' = HasOverlap(f)
                 /\ PendingDays(f.type, NoRequest)' = PendingDays(f.type, NoRequest)
      BY <2>1 DEF HasOverlap, PendingDays, PendingOf, DaysOf
    <3>8. PICK g : g = tx[t].form
      OBVIOUS
    <3>9. /\ ~HasOverlap(g)'
          /\ used'[PolicyOf(g)] + PendingDays(g.type, NoRequest)' + Days(g) <= TotalDays[g.type]
      BY <2>1, <3>3, <3>6, <3>7, <3>8
    <3>10. tx'[t].form = g
      BY <3>2, <3>8
    <3> QED
      BY <3>2, <3>9, <3>10 DEF ApplyIsCurrent, OneAtATime
  <2>3. CASE ~(AvailableDays(t) >= Days(tx[t].form))
    BY <1>0, <1>1, <1>4, <2>3, IdlePC DEF ApplyReadsPending, Become, End
  <2> QED
    BY <2>2, <2>3
<1>5. ASSUME tx'[t] = Idle PROVE ApplyIsCurrent'
  BY <1>1, <1>5, IdlePC
<1>6. CASE Rollback(t) \/ ApplyCommits(t) \/ ReviewApproves(t) \/ ReviewIsShort(t)
           \/ ReviewRejects(t) \/ CancelCommits(t)
  BY <1>0, <1>5, <1>6
  DEF Rollback, ApplyCommits, ReviewApproves, ReviewIsShort, ReviewRejects, CancelCommits,
      End, Become
<1>7. ASSUME NEW d \in {"approving", "rejecting"}, ReviewLocksLeave(t, d) PROVE ApplyIsCurrent'
  <2>1. PICK r \in Requests, u \in Users :
          Become(t, [Idle EXCEPT !.pc = d, !.req = r, !.seen = status[r],
                                 !.retro = PeriodBlocked(form[r].start)])
    BY <1>7 DEF ReviewLocksLeave
  <2>2. tx'[t].pc = d
    BY <1>0, <2>1 DEF Become, Idle
  <2> QED
    BY <1>1, <2>2
<1>8. CASE CancelLocksLeave(t)
  <2>1. PICK r : tx'[t] = [Idle EXCEPT !.pc = "cancelling", !.req = r, !.seen = status[r]]
    BY <1>0, <1>8 DEF CancelLocksLeave, Become
  <2>2. tx'[t].pc = "cancelling"
    BY <2>1 DEF Idle
  <2> QED
    BY <1>1, <2>2
<1>9. CASE AgentLoadsLeave(t)
  <2>1. PICK r : tx'[t] = [Idle EXCEPT !.pc = "agent_loaded", !.req = r, !.seen = status[r]]
    BY <1>0, <1>9 DEF AgentLoadsLeave, Become
  <2>2. tx'[t].pc = "agent_loaded"
    BY <2>1 DEF Idle
  <2> QED
    BY <1>1, <2>2
<1>10. CASE AgentLocksLeave(t)
  <2>1. tx'[t] = Idle \/ tx'[t] = [tx[t] EXCEPT !.pc = "cancelling"]
    BY <1>0, <1>10 DEF AgentLocksLeave, Become, End
  <2>2. tx'[t].pc \in {"idle", "cancelling"}
    BY <1>0, <2>1, IdlePC DEF Tx
  <2> QED
    BY <1>1, <2>2
<1>11. CASE ReviewLocksPolicy(t)
  <2>1. PICK n : tx'[t] = [tx[t] EXCEPT !.pc = "charging", !.paid = n]
    BY <1>0, <1>11 DEF ReviewLocksPolicy, Become
  <2>2. tx'[t].pc = "charging"
    BY <1>0, <2>1 DEF Tx
  <2> QED
    BY <1>1, <2>2
<1> QED
  BY <1>2, <1>3, <1>4, <1>6, <1>7, <1>8, <1>9, <1>10, <1>11 DEF Call, Step

LEMMA StepsKeepReserved ==
  ASSUME Inv, SerialInv, TypeOK', NEW t \in Txns, Call(t) \/ Step(t) \/ Rollback(t)
  PROVE  Reserved' /\ NoDayTwice'
<1>1. CASE UNCHANGED <<status, form, used>>
  BY <1>1, RowsKeepReserved DEF SerialInv
<1>2. CASE ApplyCommits(t)
  BY <1>2, ApplyKeepsReserved
<1>3. CASE ReviewApproves(t)
  BY <1>3, ApproveKeepsReserved DEF SerialInv
<1>4. CASE ReviewRejects(t) \/ CancelCommits(t)
  <2>1. tx[t].req \in Requests /\ form[tx[t].req] \in Form
    BY <1>4 DEF ReviewRejects, CancelCommits, Inv, TypeOK, Holding
  <2>2. PolicyOf(form[tx[t].req]) \in Policies /\ Days(form[tx[t].req]) \in Nat
    BY <2>1, FormFacts
  <2>3. used' \in [Policies -> Nat] /\ UNCHANGED form
    BY <1>4 DEF ReviewRejects, CancelCommits, TypeOK
  <2>4. \A r \in Requests : status'[r] = status[r] \/ status'[r] \notin {"PENDING", "APPROVED"}
    BY <1>4, <2>1 DEF ReviewRejects, CancelCommits, Inv, TypeOK
  <2>5. \A p \in Policies : used'[p] <= used[p]
    <3>1. CASE UNCHANGED used
      BY <3>1 DEF Inv, TypeOK
    <3>2. CASE used' = [used EXCEPT ![PolicyOf(form[tx[t].req])]
                          = Refunded(used[PolicyOf(form[tx[t].req])], Days(form[tx[t].req]))]
      BY <2>2, <3>2 DEF Refunded, Inv, TypeOK
    <3> QED
      BY <1>4, <3>1, <3>2 DEF ReviewRejects, CancelCommits
  <2> QED
    BY <2>3, <2>4, <2>5, ReleaseKeepsReserved DEF SerialInv
<1> QED
  BY <1>1, <1>2, <1>3, <1>4, OtherStepsAreHidden DEF Step

\* Init satisfies the invariant of the reservations and every step keeps it, when
\* no two transactions of apply_leave, review_leave and cancel_leave overlap.
THEOREM SerialInvHolds ==
  ASSUME OneAtATime
  PROVE  Spec => []SerialInv
<1>1. Init => SerialInv
  <2> SUFFICES ASSUME Init PROVE SerialInv
    OBVIOUS
  <2>1. Reserved
    BY DEF Init, Reserved, PendingOf
  <2>2. NoDayTwice
    BY DEF Init, NoDayTwice
  <2>3. ApplyIsCurrent
    BY IdlePC DEF Init, ApplyIsCurrent, Idle
  <2> QED
    BY <2>1, <2>2, <2>3 DEF SerialInv
<1>2. Inv /\ TypeOK' /\ SerialInv /\ [Next]_vars => SerialInv'
  <2> SUFFICES ASSUME Inv, TypeOK', SerialInv, [Next]_vars PROVE SerialInv'
    OBVIOUS
  <2>1. ASSUME NEW t \in Txns, Call(t) \/ Step(t) \/ Rollback(t) PROVE SerialInv'
    BY <2>1, StepsKeepReserved, ApplyStaysCurrent DEF SerialInv
  <2>2. CASE GetLeaveBalances \/ LockAttendance \/ UnlockAttendance \/ NextDay \/ UNCHANGED vars
    <3>1. UNCHANGED <<status, form, used, tx>>
      BY <2>2 DEF GetLeaveBalances, LockAttendance, UnlockAttendance, NextDay, vars
    <3>2. ApplyIsCurrent'
      BY <3>1 DEF SerialInv, ApplyIsCurrent, HasOverlap, PendingDays, PendingOf, DaysOf
    <3> QED
      BY <3>1, <3>2, RowsKeepReserved DEF SerialInv
  <2> QED
    BY <2>1, <2>2 DEF Next
<1> QED
  BY <1>1, <1>2, TypeCorrect, InvHolds, PTL DEF Spec

\* When the employee's transactions do not overlap, the days that are used and
\* the days that wait for a decision fit the allocation together, whoever
\* decides and cancels: the check in apply_leave is a reservation.
THEOREM PendingDaysAreReserved ==
  ASSUME OneAtATime
  PROVE  Spec => []PendingIsReserved
<1>1. Inv /\ SerialInv => PendingIsReserved
  <2> SUFFICES ASSUME Inv, SerialInv, NEW p \in Policies
               PROVE  used[p] + Cardinality(DaysOf(Pending(p))) <= TotalDays[p[1]]
    BY DEF PendingIsReserved
  <2>1. p[1] \in LeaveTypes /\ used[p] \in Nat /\ used[p] <= TotalDays[p[1]]
    BY DEF Policies, Inv, TypeOK, AtMostAllocated
  <2>2. CASE Pending(p) = {}
    <3>1. DaysOf(Pending(p)) = {}
      BY <2>2 DEF DaysOf
    <3>2. Cardinality(DaysOf(Pending(p))) = 0
      BY <3>1, FS_EmptySet
    <3> QED
      BY <2>1, <3>2
  <2>3. CASE Pending(p) # {}
    <3>1. \A r \in Pending(p) : form[r].type = p[1]
      BY FormFacts DEF Pending, Inv, TypeOK
    <3>2. Pending(p) \in SUBSET PendingOf(p[1], NoRequest)
      BY <3>1, PolicyAssumption DEF Pending, PendingOf
    <3>3. PICK r \in Pending(p) :
            used[PolicyOf(form[r])] + Cardinality(DaysOf(Pending(p))) <= TotalDays[p[1]]
      BY <2>1, <2>3, <3>2 DEF SerialInv, Reserved, Fits
    <3> QED
      BY <3>3 DEF Pending
  <2> QED
    BY <2>2, <2>3
<1> QED
  BY <1>1, InvHolds, SerialInvHolds, PTL

\* When the employee's transactions do not overlap, no day is asked for twice:
\* the overlap query of apply_leave still holds at its insert.
THEOREM DaysAreAskedOnce ==
  ASSUME OneAtATime
  PROVE  Spec => []NoDayTwice
<1>1. SerialInv => NoDayTwice
  BY DEF SerialInv
<1> QED
  BY <1>1, SerialInvHolds, PTL

\* When the employee's transactions do not overlap, pending requests never block
\* each other for good: review_leave lets the one applied for last through.
THEOREM ReviewsAreNotStuck ==
  ASSUME OneAtATime
  PROVE  Spec => []SomeoneCanBeApproved
<1>1. Inv /\ SerialInv => SomeoneCanBeApproved
  <2> SUFFICES ASSUME Inv, SerialInv, NEW type \in LeaveTypes,
                      PendingOf(type, NoRequest) # {}
               PROVE  \E r \in PendingOf(type, NoRequest) :
                        TotalDays[type] - used[PolicyOf(form[r])] - PendingDays(type, r)
                            >= Days(form[r])
    BY DEF SomeoneCanBeApproved
  <2> DEFINE Q == PendingOf(type, NoRequest)
  <2>1. PICK r \in Q : used[PolicyOf(form[r])] + Cardinality(DaysOf(Q)) <= TotalDays[type]
    BY DEF SerialInv, Reserved, Fits
  <2>2. /\ r \in Requests /\ form[r] \in Form /\ PolicyOf(form[r]) \in Policies
        /\ Days(form[r]) \in Nat
    <3>1. r \in Requests /\ form[r] \in Form
      BY DEF PendingOf, Inv, TypeOK
    <3> QED
      BY <3>1, FormFacts
  <2>3. Q = PendingOf(type, r) \cup {r} /\ r \notin PendingOf(type, r)
    BY PolicyAssumption DEF PendingOf
  <2>4. Cardinality(DaysOf(PendingOf(type, r) \cup {r})) = PendingDays(type, r) + Days(form[r])
    BY <2>2, <2>3, DaysOfSplit DEF Inv, PendingDays
  <2>5. /\ PendingDays(type, r) \in Nat /\ TotalDays[type] \in Nat
        /\ used[PolicyOf(form[r])] \in Nat
    BY <2>2, PendingDaysNat, PolicyAssumption DEF Inv, TypeOK
  <2> HIDE DEF Q
  <2>6. used[PolicyOf(form[r])] + (PendingDays(type, r) + Days(form[r])) <= TotalDays[type]
    BY <2>1, <2>3, <2>4
  <2>7. TotalDays[type] - used[PolicyOf(form[r])] - PendingDays(type, r) >= Days(form[r])
    BY <2>2, <2>5, <2>6
  <2> QED
    BY <2>7 DEF Q
<1> QED
  BY <1>1, InvHolds, SerialInvHolds, PTL

============================================================================
