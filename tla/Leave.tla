------------------------------- MODULE Leave -------------------------------
(***************************************************************************)
(* Leave requests and leave balances of one employee.                      *)
(*                                                                         *)
(* Code: app/services/leave_service.py, app/repositories/                  *)
(* leave_repository.py, app/agents/leave_agent.py and the payroll cut-off  *)
(* guard of app/attendance/services/validation_service.py.                 *)
(*                                                                         *)
(* Every API call runs in a database transaction of its own (PostgreSQL,   *)
(* READ COMMITTED: each SELECT sees what is committed when it runs).       *)
(* apply_leave takes no row lock; review_leave and cancel_leave lock the   *)
(* leave row and then the policy row (SELECT ... FOR UPDATE) and keep both *)
(* locks to the end.  One action below is one stretch of a transaction     *)
(* between two such statements.  Leaves and policies of different          *)
(* employees share no row and no query, so one employee is modelled, with  *)
(* all the leave types and years that its requests can be about.           *)
(*                                                                         *)
(* Operators called Bug... are never used by the specification: each is a  *)
(* plausible mistake in the definition that follows it, and some property  *)
(* must fail when it takes that definition's place.                        *)
(***************************************************************************)
EXTENDS Integers, FiniteSets

CONSTANTS
    Requests,      \* identities of leave_requests rows
    NoRequest,     \* "this transaction has no row yet"
    Txns,          \* database transactions that may run at the same time
    LeaveTypes,    \* keys of DEFAULT_LEAVE_ALLOCATIONS
    TotalDays,     \* [LeaveTypes -> Nat], the default allocation of a type
    Dates,         \* calendar dates, as numbers
    YearOf,        \* [Dates -> year]: a policy row covers one year
    PeriodOf,      \* [Dates -> payroll period]
    Deadline,      \* [period -> date], its regularisation_deadline
    BackdateDays,  \* LEAVE_BACKDATE_DAYS
    Users,         \* users of the employee's company
    RoleOf,        \* [Users -> role]
    Owner,         \* the employee's own user
    Managers,      \* the employee's reporting manager and manager
    AgentCancels   \* whether the AI support agent also cancels leaves

Years    == {YearOf[d] : d \in Dates}
Periods  == {PeriodOf[d] : d \in Dates}
Policies == LeaveTypes \X Years

\* What the applicant submits; an application with start > end is refused.
Form == {f \in [type : LeaveTypes, start : Dates, end : Dates] : f.start <= f.end}

Statuses == {"NONE", "PENDING", "APPROVED", "REJECTED", "CANCELLED"}

\* Program points of a transaction, named after what it has done so far.
PCs == {"idle", "apply_checked", "apply_policy", "apply_reserved",
        "approving", "rejecting", "charging", "agent_loaded", "cancelling"}

HRRoles    == {"hr_admin", "super_admin"}
RetroRoles == {"admin", "hr_admin", "super_admin", "cfo", "ceo"}

ASSUME FiniteAssumption ==
    IsFiniteSet(Requests) /\ IsFiniteSet(Dates) /\ Dates \subseteq Int

ASSUME CalendarAssumption ==
    /\ \A d \in Dates, e \in Dates : d .. e \subseteq Dates
    /\ \A p \in Periods : Deadline[p] \in Int

ASSUME PolicyAssumption ==
    /\ TotalDays \in [LeaveTypes -> Nat]
    /\ BackdateDays \in Nat
    /\ LeaveTypes # {} /\ Dates # {}
    /\ NoRequest \notin Requests
    /\ AgentCancels \in BOOLEAN

VARIABLES
    status,     \* [Requests -> Statuses], LeaveRequest.status
    form,       \* [Requests -> Form], its type and dates
    hasPolicy,  \* the employee_leave_policies rows that are committed
    used,       \* [Policies -> Nat], EmployeeLeavePolicy.used_days
    arrears,    \* requests with a LEAVE_REVERSAL row in the arrear ledger
    locked,     \* periods whose attendance_locked_at is set
    today,      \* date.today()
    tx          \* [Txns -> Tx]

vars == <<status, form, hasPolicy, used, arrears, locked, today, tx>>

PolicyOf(f) == <<f.type, YearOf[f.start]>>

\* calculate_leave_days: inclusive calendar days.
Days(f) == (f.end - f.start) + 1

\* The (request, day) pairs of the requests in R: a set whose size is the sum
\* of their total_days.
DaysOf(R) == {x \in Requests \X Dates :
                /\ x[1] \in R
                /\ form[x[1]].start <= x[2]
                /\ x[2] <= form[x[1]].end}

\* get_pending_leave_days_by_type: every PENDING request of the type, whatever
\* its year, but the excluded one.
PendingOf(type, exclude) ==
    {r \in Requests \ {exclude} : status[r] = "PENDING" /\ form[r].type = type}

PendingDays(type, exclude) == Cardinality(DaysOf(PendingOf(type, exclude)))

\* attendance_period_block_reason: locked, or past the deadline.
PeriodBlocked(date) ==
    \/ PeriodOf[date] \in locked
    \/ today > Deadline[PeriodOf[date]]

\* check_leave_overlap
Overlaps(f, g) == f.start <= g.end /\ g.start <= f.end

BugOverlapApprovedOnly(f) ==
    \E r \in Requests : status[r] = "APPROVED" /\ Overlaps(form[r], f)

HasOverlap(f) ==
    \E r \in Requests : status[r] \in {"PENDING", "APPROVED"} /\ Overlaps(form[r], f)

(***************************************************************************)
(* Transactions and their row locks.                                       *)
(***************************************************************************)

\* "seen" is the status the ORM object of the transaction carries, "paid" the
\* used_days it read, "retro" whether the period was closed at review, "ins"
\* whether the transaction inserted the policy row and has not committed.
Tx == [pc : PCs, req : Requests \cup {NoRequest}, form : Form,
       seen : Statuses, paid : Nat, retro : BOOLEAN, ins : BOOLEAN]

Idle == [pc |-> "idle", req |-> NoRequest, form |-> CHOOSE f \in Form : TRUE,
         seen |-> "NONE", paid |-> 0, retro |-> FALSE, ins |-> FALSE]

\* The program points at which the leave row is locked.
Holding == {"approving", "rejecting", "charging", "cancelling"}

BugNoLeaveLock(r) == TRUE

LeaveRowFree(r) == \A t \in Txns : tx[t].req = r => tx[t].pc \notin Holding

PolicyRowFree(p) ==
    \A t \in Txns : tx[t].pc = "charging" => PolicyOf(form[tx[t].req]) # p

\* ON CONFLICT DO NOTHING waits for a concurrent insert of the same key.
PolicyKeyFree(p) == \A t \in Txns : tx[t].ins => PolicyOf(tx[t].form) # p

Become(t, new) == tx' = [tx EXCEPT ![t] = new]

\* Commit or rollback: the locks go, and so does everything not committed.
End(t) == Become(t, Idle)

Init ==
    /\ status = [r \in Requests |-> "NONE"]
    /\ form = [r \in Requests |-> CHOOSE f \in Form : TRUE]
    /\ hasPolicy = {}
    /\ used = [p \in Policies |-> 0]
    /\ arrears = {}
    /\ locked = {}
    /\ today \in Dates
    /\ tx = [t \in Txns |-> Idle]

(***************************************************************************)
(* apply_leave                                                             *)
(***************************************************************************)

\* Bound of the model: an application starts only while a row is left for it.
RowLeft ==
    Cardinality({t \in Txns : tx[t].pc \in {"apply_checked", "apply_policy", "apply_reserved"}})
        < Cardinality({r \in Requests : status[r] = "NONE"})

\* Validation, backdating rule, payroll cut-off and overlap query.
ApplyChecks(t) ==
    /\ tx[t].pc = "idle"
    /\ RowLeft
    /\ \E f \in Form :
        /\ RoleOf[Owner] \in HRRoles \/ f.start >= today - BackdateDays
        /\ ~PeriodBlocked(f.start)
        /\ ~HasOverlap(f)
        /\ Become(t, [Idle EXCEPT !.pc = "apply_checked", !.form = f])
    /\ UNCHANGED <<status, form, hasPolicy, used, arrears, locked, today>>

\* Read the policy row without a lock, or insert the default one.
ApplyReadsPolicy(t) ==
    LET p == PolicyOf(tx[t].form) IN
    /\ tx[t].pc = "apply_checked"
    /\ p \in hasPolicy \/ PolicyKeyFree(p)
    /\ Become(t, [tx[t] EXCEPT !.pc = "apply_policy", !.paid = used[p],
                               !.ins = p \notin hasPolicy])
    /\ UNCHANGED <<status, form, hasPolicy, used, arrears, locked, today>>

BugPendingNotReserved(t) == TotalDays[tx[t].form.type] - tx[t].paid

AvailableDays(t) ==
    TotalDays[tx[t].form.type] - tx[t].paid - PendingDays(tx[t].form.type, NoRequest)

\* Sum the PENDING requests and compare; too few days raise, which rolls back.
ApplyReadsPending(t) ==
    /\ tx[t].pc = "apply_policy"
    /\ IF AvailableDays(t) >= Days(tx[t].form)
       THEN Become(t, [tx[t] EXCEPT !.pc = "apply_reserved"])
       ELSE End(t)
    /\ UNCHANGED <<status, form, hasPolicy, used, arrears, locked, today>>

InsertPolicy(t) == hasPolicy' = hasPolicy \cup {PolicyOf(tx[t].form)}

\* INSERT the request (and the policy row, if it is new) and commit.
ApplyCommits(t) ==
    /\ tx[t].pc = "apply_reserved"
    /\ \E r \in Requests :
        /\ status[r] = "NONE"
        /\ status' = [status EXCEPT ![r] = "PENDING"]
        /\ form' = [form EXCEPT ![r] = tx[t].form]
    /\ InsertPolicy(t)
    /\ End(t)
    /\ UNCHANGED <<used, arrears, locked, today>>

(***************************************************************************)
(* review_leave                                                            *)
(***************************************************************************)

BugReviewTwice(r) == status[r] # "NONE"

Reviewable(r) == status[r] = "PENDING"

\* Self-review, hierarchy and cut-off: a closed period needs a senior role.
MayReview(u, r) ==
    /\ u # Owner
    /\ RoleOf[u] = "manager" => u \in Managers
    /\ PeriodBlocked(form[r].start) => RoleOf[u] \in RetroRoles

\* Lock the leave row and check.
ReviewLocksLeave(t, decision) ==
    /\ tx[t].pc = "idle"
    /\ \E r \in Requests, u \in Users :
        /\ LeaveRowFree(r)
        /\ Reviewable(r)
        /\ MayReview(u, r)
        /\ Become(t, [Idle EXCEPT !.pc = decision, !.req = r, !.seen = status[r],
                                  !.retro = PeriodBlocked(form[r].start)])
    /\ UNCHANGED <<status, form, hasPolicy, used, arrears, locked, today>>

\* (The pending rows are locked as well when they are summed.)
BugPendingLocked(t) ==
    LET p == PolicyOf(form[tx[t].req]) IN
    /\ tx[t].pc = "approving"
    /\ p \in hasPolicy
    /\ PolicyRowFree(p)
    /\ \A r \in PendingOf(p[1], tx[t].req) : LeaveRowFree(r)
    /\ Become(t, [tx[t] EXCEPT !.pc = "charging", !.paid = used[p]])
    /\ UNCHANGED <<status, form, hasPolicy, used, arrears, locked, today>>

\* APPROVED: lock the policy row and read used_days.  No such row raises,
\* which is a Rollback (PolicyExists says that it never happens).
ReviewLocksPolicy(t) ==
    LET p == PolicyOf(form[tx[t].req]) IN
    /\ tx[t].pc = "approving"
    /\ p \in hasPolicy
    /\ PolicyRowFree(p)
    /\ Become(t, [tx[t] EXCEPT !.pc = "charging", !.paid = used[p]])
    /\ UNCHANGED <<status, form, hasPolicy, used, arrears, locked, today>>

BugNotReverified(t) == TRUE

\* Re-verify the balance against the other PENDING requests.
Covers(t) ==
    LET f == form[tx[t].req] IN
    TotalDays[f.type] - tx[t].paid - PendingDays(f.type, tx[t].req) >= Days(f)

\* Deduct (used_days is written as the value read plus the days), approve,
\* record the arrear of a retroactive approval, commit.
ReviewApproves(t) ==
    LET r == tx[t].req
        p == PolicyOf(form[r])
    IN
    /\ tx[t].pc = "charging"
    /\ Covers(t)
    /\ used' = [used EXCEPT ![p] = tx[t].paid + Days(form[r])]
    /\ status' = [status EXCEPT ![r] = "APPROVED"]
    /\ arrears' = IF tx[t].retro THEN arrears \cup {r} ELSE arrears
    /\ End(t)
    /\ UNCHANGED <<form, hasPolicy, locked, today>>

ReviewIsShort(t) ==
    /\ tx[t].pc = "charging"
    /\ ~Covers(t)
    /\ End(t)
    /\ UNCHANGED <<status, form, hasPolicy, used, arrears, locked, today>>

BugRejectionRecovered(t) ==
    /\ tx[t].pc = "rejecting"
    /\ status' = [status EXCEPT ![tx[t].req] = "REJECTED"]
    /\ arrears' = IF tx[t].retro THEN arrears \cup {tx[t].req} ELSE arrears
    /\ End(t)
    /\ UNCHANGED <<form, hasPolicy, used, locked, today>>

ReviewRejects(t) ==
    /\ tx[t].pc = "rejecting"
    /\ status' = [status EXCEPT ![tx[t].req] = "REJECTED"]
    /\ End(t)
    /\ UNCHANGED <<form, hasPolicy, used, arrears, locked, today>>

(***************************************************************************)
(* cancel_leave, called by the API or by the AI support agent.  The agent  *)
(* loads the row first, without a lock; the later SELECT ... FOR UPDATE    *)
(* returns the object that is already in the session's identity map, whose *)
(* loaded attributes it does not overwrite.                                *)
(***************************************************************************)

MayCancel(seen, f) ==
    /\ ~PeriodBlocked(f.start)
    /\ seen = "PENDING" \/ (seen = "APPROVED" /\ f.start > today)

CancelLocksLeave(t) ==
    /\ tx[t].pc = "idle"
    /\ \E r \in Requests, u \in Users :
        /\ LeaveRowFree(r)
        /\ u = Owner \/ RoleOf[u] \in HRRoles
        /\ MayCancel(status[r], form[r])
        /\ Become(t, [Idle EXCEPT !.pc = "cancelling", !.req = r, !.seen = status[r]])
    /\ UNCHANGED <<status, form, hasPolicy, used, arrears, locked, today>>

AgentLoadsLeave(t) ==
    /\ AgentCancels
    /\ tx[t].pc = "idle"
    /\ \E r \in Requests :
        /\ status[r] \in {"PENDING", "APPROVED"}
        /\ Become(t, [Idle EXCEPT !.pc = "agent_loaded", !.req = r, !.seen = status[r]])
    /\ UNCHANGED <<status, form, hasPolicy, used, arrears, locked, today>>

AgentLocksLeave(t) ==
    LET f == form[tx[t].req] IN
    /\ tx[t].pc = "agent_loaded"
    /\ LeaveRowFree(tx[t].req)
    /\ IF MayCancel(tx[t].seen, f)
       THEN Become(t, [tx[t] EXCEPT !.pc = "cancelling"])
       ELSE End(t)
    /\ UNCHANGED <<status, form, hasPolicy, used, arrears, locked, today>>

\* max(0, used_days - total_days)
Refunded(days, back) == IF days < back THEN 0 ELSE days - back

\* A PENDING request just ends; an APPROVED one locks the policy row, gives
\* the days back (never below zero) if there is a row, and commits.
CancelCommits(t) ==
    LET r == tx[t].req
        p == PolicyOf(form[r])
    IN
    /\ tx[t].pc = "cancelling"
    /\ status' = [status EXCEPT ![r] = "CANCELLED"]
    /\ \/ /\ tx[t].seen = "APPROVED"
          /\ PolicyRowFree(p)
          /\ used' = IF p \in hasPolicy
                     THEN [used EXCEPT ![p] = Refunded(used[p], Days(form[r]))]
                     ELSE used
       \/ tx[t].seen = "PENDING" /\ UNCHANGED used
    /\ End(t)
    /\ UNCHANGED <<form, hasPolicy, arrears, locked, today>>

(***************************************************************************)
(* The rest of the world.                                                  *)
(***************************************************************************)

\* The session is closed before it commits: an error, a lost connection.
Rollback(t) ==
    /\ tx[t].pc # "idle"
    /\ End(t)
    /\ UNCHANGED <<status, form, hasPolicy, used, arrears, locked, today>>

\* get_leave_balances inserts the current year's missing rows and commits.
GetLeaveBalances ==
    LET rows == {<<type, YearOf[today]>> : type \in LeaveTypes} IN
    /\ \A p \in rows \ hasPolicy : PolicyKeyFree(p)
    /\ hasPolicy' = hasPolicy \cup rows
    /\ UNCHANGED <<status, form, used, arrears, locked, today, tx>>

LockAttendance ==
    /\ \E p \in Periods \ locked : locked' = locked \cup {p}
    /\ UNCHANGED <<status, form, hasPolicy, used, arrears, today, tx>>

UnlockAttendance ==
    /\ \E p \in locked : locked' = locked \ {p}
    /\ UNCHANGED <<status, form, hasPolicy, used, arrears, today, tx>>

NextDay ==
    /\ today + 1 \in Dates
    /\ today' = today + 1
    /\ UNCHANGED <<status, form, hasPolicy, used, arrears, locked, tx>>

Step(t) ==
    \/ ApplyReadsPolicy(t)
    \/ ApplyReadsPending(t)
    \/ ApplyCommits(t)
    \/ ReviewLocksPolicy(t)
    \/ ReviewApproves(t)
    \/ ReviewIsShort(t)
    \/ ReviewRejects(t)
    \/ AgentLocksLeave(t)
    \/ CancelCommits(t)

Call(t) ==
    \/ ApplyChecks(t)
    \/ ReviewLocksLeave(t, "approving")
    \/ ReviewLocksLeave(t, "rejecting")
    \/ CancelLocksLeave(t)
    \/ AgentLoadsLeave(t)

Next ==
    \/ \E t \in Txns : Call(t) \/ Step(t) \/ Rollback(t)
    \/ GetLeaveBalances
    \/ LockAttendance
    \/ UnlockAttendance
    \/ NextDay

Spec == Init /\ [][Next]_vars

(***************************************************************************)
(* Properties.                                                             *)
(***************************************************************************)

TypeOK ==
    /\ status \in [Requests -> Statuses]
    /\ form \in [Requests -> Form]
    /\ hasPolicy \subseteq Policies
    /\ used \in [Policies -> Nat]
    /\ arrears \subseteq Requests
    /\ locked \subseteq Periods
    /\ today \in Dates
    /\ tx \in [Txns -> Tx]
    /\ \A t \in Txns : tx[t].pc \in Holding \cup {"agent_loaded"} => tx[t].req \in Requests

Approved(p) == {r \in Requests : status[r] = "APPROVED" /\ PolicyOf(form[r]) = p}
Pending(p)  == {r \in Requests : status[r] = "PENDING" /\ PolicyOf(form[r]) = p}

\* The row locks do their work.  No two transactions are past the lock of the
\* same leave row, or past the lock of the same policy row; and what such a
\* transaction read is still what the database holds: a request under review
\* is PENDING, and the used_days about to be written back is the current one.
LeaveRowExclusive ==
    \A t, u \in Txns : t # u /\ tx[t].pc \in Holding /\ tx[u].pc \in Holding
        => tx[t].req # tx[u].req

PolicyRowExclusive ==
    \A t, u \in Txns : t # u /\ tx[t].pc = "charging" /\ tx[u].pc = "charging"
        => PolicyOf(form[tx[t].req]) # PolicyOf(form[tx[u].req])

StatusIsCurrent ==
    \A t \in Txns :
        /\ tx[t].pc \in Holding \cup {"agent_loaded"} => status[tx[t].req] # "NONE"
        /\ tx[t].pc \in {"approving", "rejecting", "charging"} => status[tx[t].req] = "PENDING"

PaidIsCurrent ==
    \A t \in Txns : tx[t].pc = "charging" => tx[t].paid = used[PolicyOf(form[tx[t].req])]

LocksHold == LeaveRowExclusive /\ PolicyRowExclusive /\ StatusIsCurrent /\ PaidIsCurrent

\* However reviews, cancellations and applications interleave, the balance of
\* a policy row is never overdrawn and no refund makes it negative: 0 <=
\* used_days <= total_days.  It rests on the FOR UPDATE of the policy row in
\* review_leave, since used_days is written back as "the value read, plus the
\* days", and on the max(0, ...) of cancel_leave where the agent refunds twice.
NeverOverdrawn == \A p \in Policies : used[p] \in 0 .. TotalDays[p[1]]

\* Every day charged belongs to a leave that is approved now, and every
\* approved leave is charged, once: used_days is the sum of the days of the
\* APPROVED requests.  review_leave charges under the lock of the leave row,
\* cancel_leave refunds under the same lock, so neither happens twice.
UsedIsApproved == \A p \in Policies : used[p] = Cardinality(DaysOf(Approved(p)))

\* A request that is stored has a policy row, so review_leave never ends in
\* "No active leave policy found" and cancel_leave never skips its refund.
PolicyExists ==
    \A r \in Requests : status[r] # "NONE" => PolicyOf(form[r]) \in hasPolicy

\* A decision is final: an APPROVED request can only be CANCELLED, and REJECTED
\* and CANCELLED ones never change ("Leave request is already rejected").
DecisionsAreFinal ==
    [][\A r \in Requests :
         /\ status[r] \in {"REJECTED", "CANCELLED"} => status'[r] = status[r]
         /\ status[r] = "APPROVED" => status'[r] \in {"APPROVED", "CANCELLED"}]_vars

\* The leave desk: an account per policy row, and what it has left.
Desk == INSTANCE LeaveDesk WITH
    Forms     <- Form,
    Accounts  <- Policies,
    AccountOf <- [f \in Form |-> PolicyOf(f)],
    Cost      <- [f \in Form |-> Days(f)],
    Allowance <- [p \in Policies |-> TotalDays[p[1]]],
    left      <- [p \in Policies |-> TotalDays[p[1]] - used[p]]

\* To its callers the service is that desk: however the statements of
\* apply_leave, review_leave and cancel_leave interleave, every change of a
\* request is one decision on its current status, with the days it costs
\* charged or given back in the same step; the max(0, ...) of cancel_leave
\* never hides a day.
ImplementsDesk == Desk!Spec

\* "Count PENDING requests of the same type as reserved": what is charged and
\* what is waiting for a decision fit the allocation together.
PendingIsReserved ==
    \A p \in Policies :
        used[p] + Cardinality(DaysOf(Pending(p))) <= TotalDays[p[1]]

\* apply_leave refuses dates that overlap an active or pending request, so no
\* day is asked for (and charged) twice.
NoDayTwice ==
    \A r, s \in Requests :
        /\ r # s
        /\ status[r] \in {"PENDING", "APPROVED"}
        /\ status[s] \in {"PENDING", "APPROVED"}
        => ~Overlaps(form[r], form[s])

\* Reservations never block each other for good: while requests are pending,
\* the balance check of review_leave lets at least one of them through.
SomeoneCanBeApproved ==
    \A type \in LeaveTypes : PendingOf(type, NoRequest) # {} =>
        \E r \in PendingOf(type, NoRequest) :
            TotalDays[type] - used[PolicyOf(form[r])] - PendingDays(type, r)
                >= Days(form[r])

(***************************************************************************)
(* Liveness.  A handler that was started runs on, and PostgreSQL queues    *)
(* the waiters of a row lock, so that a transaction waiting for a row that *)
(* is free again and again gets it.  (For the steps that never wait this   *)
(* strong fairness is weak fairness: they stay enabled until taken.)       *)
(* Calls, days, closed periods and lost connections are nobody's duty.     *)
(***************************************************************************)
Fairness == \A t \in Txns : SF_vars(Step(t))

FairSpec == Spec /\ Fairness

\* No handler waits for ever: the leave row is always locked before the policy
\* row, so every transaction ends without a rollback from outside.
EveryCallEnds == \A t \in Txns : tx[t].pc # "idle" ~> tx[t].pc = "idle"

============================================================================
