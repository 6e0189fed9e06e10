---------------------------- MODULE PayrollRun ----------------------------
(***************************************************************************)
(* The payroll runs of one company, and what they settle for one employee: *)
(* the payslip, the instalment (EMI) of a loan and the arrears.            *)
(*                                                                         *)
(* Code: app/services/payroll/run_service.py, arrear_service.py,           *)
(* app/api/payroll/permissions.py (dual control) and app/workers/          *)
(* payroll_tasks.py.                                                       *)
(*                                                                         *)
(* A handler reads the run with a plain SELECT, decides on the object it   *)
(* got, and later writes the attributes it changed with an UPDATE by id:   *)
(* there is no lock and no version column, so the write never looks at the *)
(* row again.  Each handler is therefore two actions, the load and the     *)
(* commit, and the calculation, which commits PROCESSING first and settles *)
(* in a second transaction, is several.  There is one run per period       *)
(* (uq_payroll_run_company_period) and one payslip per employee and period *)
(* (uq_payslip_employee_period), so both are indexed by period.            *)
(*                                                                         *)
(* An older engine (services/payroll_service.py, the pay cycles) writes the*)
(* same tables: it replaces the payslips of a period and sets its run to   *)
(* PROCESSED from any status.  The module is about periods that it does    *)
(* not process; of its writes only batch_payout is here, in Disburse.      *)
(*                                                                         *)
(* Operators called Bug... are never used by the specification: each is a  *)
(* plausible mistake in the definition that follows it.                    *)
(***************************************************************************)
EXTENDS Integers, FiniteSets

CONSTANTS
    Periods,       \* payroll periods
    Users,         \* users who may act on payroll
    NoUser,        \* NULL in created_by, processed_by, ...
    Arrears,       \* identities of arrear_ledger rows of the employee
    NoPeriod,      \* NULL in target_period_id
    TargetOf,      \* [Arrears -> Periods \cup {NoPeriod}]
    Instalments,   \* AdvanceLoan.total_installments
    Slots,         \* requests and worker tasks that may run at the same time
    MakerChecker,  \* the company's payroll_maker_checker_enforced
    Legacy,        \* whether the v1 routes (allow_legacy, legacy) are used
    Retries,       \* whether the v1 retry route is used
    Outcomes,      \* payment statuses that bank feeds and payouts report
    MaxFaults      \* bound: calls that die before they finish

ASSUME RunAssumption ==
    /\ Instalments \in Nat /\ MaxFaults \in Nat
    /\ {MakerChecker, Legacy, Retries} \subseteq BOOLEAN
    /\ Outcomes \subseteq {"PAID", "FAILED"}
    /\ NoUser \notin Users /\ NoPeriod \notin Periods
    /\ TargetOf \in [Arrears -> Periods \cup {NoPeriod}]
    /\ IsFiniteSet(Periods)

VARIABLES
    run,       \* [Periods -> Run], payroll_runs; status "NONE" is no row
    slip,      \* [Periods -> Slip], the employee's payslips
    deducted,  \* periods whose AdvanceLoanInstallment is DEDUCTED
    paid,      \* AdvanceLoan.installments_paid
    ledger,    \* [Arrears -> ...], ArrearLedger.status
    queue,     \* periods with a processing task that is not acknowledged
    faults,    \* how many calls have died
    call       \* [Slots -> Call]

vars == <<run, slip, deducted, paid, ledger, queue, faults, call>>

Closed == {"LOCKED", "FINALIZED", "PAID"}

Statuses == {"NONE", "DRAFT", "VALIDATED", "PROCESSING", "PROCESSED", "PENDING_APPROVAL",
             "APPROVED", "REJECTED", "CANCELLED"} \cup Closed

Run == [status : Statuses, created : Users \cup {NoUser}, processed : Users \cup {NoUser},
        approved : Users \cup {NoUser}, finalized : Users \cup {NoUser}]

NoRun == [status |-> "NONE", created |-> NoUser, processed |-> NoUser,
          approved |-> NoUser, finalized |-> NoUser]

\* emi: the instalment is among other_deductions; arrears: the ledger rows in
\* the arrears column; payment: the payment_status column.
Payments == {"PENDING", "PAID", "FAILED"}

Slip == [exists : BOOLEAN, emi : BOOLEAN, arrears : SUBSET Arrears, payment : Payments]

NoSlip == [exists |-> FALSE, emi |-> FALSE, arrears |-> {}, payment |-> "PENDING"]

PCs == {"idle", "created", "loaded", "retried", "processing", "claimed", "computed"}

\* old and new are the run object as loaded and as the handler left it; after
\* is where the call goes on when new is committed; claims, emi, loan and saw
\* (the payslip) are what a calculation, or mark_paid, read.
Call == [pc : PCs, period : Periods \cup {NoPeriod}, user : Users \cup {NoUser},
         worker : BOOLEAN, old : Run, new : Run, after : PCs,
         claims : SUBSET Arrears, emi : BOOLEAN, loan : Nat, saw : Slip]

Idle == [pc |-> "idle", period |-> NoPeriod, user |-> NoUser, worker |-> FALSE,
         old |-> NoRun, new |-> NoRun, after |-> "idle",
         claims |-> {}, emi |-> FALSE, loan |-> 0, saw |-> NoSlip]

Become(s, new) == call' = [call EXCEPT ![s] = new]

\* SQLAlchemy writes the attributes that changed since the object was loaded
\* and leaves the other columns of the row as they are now.
Written(old, new, now) == IF new # old THEN new ELSE now

FlushRun(old, new, row) ==
    [status    |-> Written(old.status, new.status, row.status),
     created   |-> Written(old.created, new.created, row.created),
     processed |-> Written(old.processed, new.processed, row.processed),
     approved  |-> Written(old.approved, new.approved, row.approved),
     finalized |-> Written(old.finalized, new.finalized, row.finalized)]

FlushSlip(old, new, row) ==
    [exists  |-> TRUE,
     emi     |-> Written(old.emi, new.emi, row.emi),
     arrears |-> Written(old.arrears, new.arrears, row.arrears),
     payment |-> Written(old.payment, new.payment, row.payment)]

\* A task is acknowledged when its function returns, also after an error.
Acked(s) == IF call[s].worker THEN queue \ {call[s].period} ELSE queue

Init ==
    /\ run = [p \in Periods |-> NoRun]
    /\ slip = [p \in Periods |-> NoSlip]
    /\ deducted = {}
    /\ paid = 0
    /\ ledger = [a \in Arrears |-> "NONE"]
    /\ queue = {}
    /\ faults = 0
    /\ call = [s \in Slots |-> Idle]

(***************************************************************************)
(* Handlers that load the run, decide, change the object, and commit.      *)
(***************************************************************************)

\* get_run, the handler's checks and its assignments; mark_paid also reads the
\* payslips of the run.
Load(s, p, u, new, after) ==
    /\ call[s].pc = "idle"
    /\ run[p].status # "NONE"
    /\ Become(s, [Idle EXCEPT !.pc = "loaded", !.period = p, !.user = u,
                              !.old = run[p], !.new = new, !.after = after,
                              !.saw = IF new.status = "PAID" THEN slip[p] ELSE NoSlip])
    /\ UNCHANGED <<run, slip, deducted, paid, ledger, queue, faults>>

\* maker_ids_for_run; run_by is always created_by.
BugProcessorIsNoMaker(m) == {m.created}

Makers(m) == {m.created, m.processed}

\* enforce_maker_checker
MayCheck(u, m) == MakerChecker => u \notin Makers(m)

\* submit_for_approval
SubmitForApproval(s) ==
    \E p \in Periods, u \in Users :
        /\ run[p].status = "PROCESSED"
        /\ Load(s, p, u, [run[p] EXCEPT !.status = "PENDING_APPROVAL"], "idle")

BugApprovesProcessing == {"PENDING_APPROVAL", "PROCESSING"}

Approvable == {"PENDING_APPROVAL"} \cup (IF Legacy THEN {"DRAFT", "VALIDATED", "PROCESSED"} ELSE {})

\* approve_run
ApproveRun(s) ==
    \E p \in Periods, u \in Users :
        /\ run[p].status \in Approvable
        /\ MayCheck(u, run[p])
        /\ Load(s, p, u, [run[p] EXCEPT !.status = "APPROVED", !.approved = u], "idle")

\* finalize_run of the v2 routes: LOCKED, or APPROVED still if lock is false.
LockRun(s) ==
    \E p \in Periods, u \in Users, st \in {"LOCKED", "APPROVED"} :
        /\ run[p].status = "APPROVED"
        /\ MayCheck(u, run[p])
        /\ Load(s, p, u, [run[p] EXCEPT !.status = st, !.finalized = u], "idle")

\* finalize_run of the v1 route.
FinalizeRun(s) ==
    /\ Legacy
    /\ \E p \in Periods, u \in Users :
        /\ run[p].status \in {"APPROVED", "PROCESSED", "DRAFT", "VALIDATED", "PENDING_APPROVAL"}
        /\ MayCheck(u, run[p])
        /\ Load(s, p, u, [run[p] EXCEPT !.status = "FINALIZED", !.finalized = u], "idle")

\* mark_paid (the payslips are written by Commit)
MarkPaid(s) ==
    \E p \in Periods, u \in Users :
        /\ run[p].status = "LOCKED"
        /\ Load(s, p, u, [run[p] EXCEPT !.status = "PAID"], "idle")

\* reject_run, cancel_run, send_back_run and delete_run refuse closed runs.
BugLockedIsOpen(m) == m.status \notin {"FINALIZED", "PAID"}

StillOpen(m) == m.status \notin Closed

RejectOrCancelOrSendBack(s) ==
    \E p \in Periods, u \in Users, st \in {"REJECTED", "CANCELLED", "DRAFT"} :
        /\ StillOpen(run[p])
        /\ Load(s, p, u, [run[p] EXCEPT !.status = st], "idle")

DeleteRun(s) ==
    \E p \in Periods :
        /\ StillOpen(run[p])
        /\ Load(s, p, NoUser, NoRun, "idle")

\* create_run: INSERT and commit, then validate_run in the same session.
CreateRun(s) ==
    \E p \in Periods, u \in Users :
        /\ call[s].pc = "idle"
        /\ run[p].status = "NONE"
        /\ run' = [run EXCEPT ![p] = [NoRun EXCEPT !.status = "DRAFT", !.created = u]]
        /\ Become(s, [Idle EXCEPT !.pc = "created", !.period = p])
        /\ UNCHANGED <<slip, deducted, paid, ledger, queue, faults>>

\* validate_run moves a DRAFT to VALIDATED and leaves any other status alone.
ValidateRun(s) ==
    \E p \in Periods :
        /\ run[p].status = "DRAFT"
        /\ Load(s, p, NoUser, [run[p] EXCEPT !.status = "VALIDATED"], "idle")

ValidateCreated(s) ==
    LET m == run[call[s].period] IN
    /\ call[s].pc = "created"
    /\ IF m.status = "DRAFT"
       THEN Become(s, [call[s] EXCEPT !.pc = "loaded", !.old = m,
                                      !.new = [m EXCEPT !.status = "VALIDATED"]])
       ELSE Become(s, Idle)
    /\ UNCHANGED <<run, slip, deducted, paid, ledger, queue, faults>>

BugPayslipsNotPaid(c) == slip

\* mark_paid sets the payslips it read to PAID in the same transaction.
PaySlips(c) ==
    IF c.new.status = "PAID" /\ c.saw.exists
    THEN [slip EXCEPT ![c.period].payment = Written(c.saw.payment, "PAID", @)]
    ELSE slip

\* The UPDATE and the commit.
Commit(s) ==
    LET c == call[s]
        p == c.period
    IN
    /\ c.pc = "loaded"
    /\ c.new.status # "NONE"
    /\ run' = [run EXCEPT ![p] = FlushRun(c.old, c.new, run[p])]
    /\ slip' = PaySlips(c)
    /\ Become(s, IF c.after = "idle" THEN Idle ELSE [c EXCEPT !.pc = c.after])
    /\ UNCHANGED <<deducted, paid, ledger, queue, faults>>

BugPayslipsLeft(p) == slip

\* ON DELETE CASCADE
WithoutSlips(p) == [slip EXCEPT ![p] = NoSlip]

\* The DELETE, which takes the payslips along.  A call that loaded the run
\* before can only fail from here on (its UPDATE or INSERT finds no row), and
\* so does a task for it: both are over.
CommitDelete(s) ==
    LET p == call[s].period IN
    /\ call[s].pc = "loaded"
    /\ call[s].new.status = "NONE"
    /\ run' = [run EXCEPT ![p] = NoRun]
    /\ slip' = WithoutSlips(p)
    /\ queue' = queue \ {p}
    /\ call' = [t \in Slots |-> IF call[t].period = p THEN Idle ELSE call[t]]
    /\ UNCHANGED <<deducted, paid, ledger, faults>>

(***************************************************************************)
(* execute_run_calculation                                                 *)
(***************************************************************************)

\* PROCESSING, and who processes it; a worker task has no user.
Started(m, u) ==
    [m EXCEPT !.status = "PROCESSING",
              !.processed = IF u = NoUser THEN @ ELSE u,
              !.created = IF @ = NoUser THEN u ELSE @]

\* The synchronous route.
CalculateRun(s) ==
    \E p \in Periods, u \in Users :
        /\ run[p].status = "VALIDATED"
        /\ Load(s, p, u, Started(run[p], u), "processing")

BugRetryOnlyRecalculates(s) ==
    /\ Retries
    /\ \E p \in Periods, u \in Users : Load(s, p, u, run[p], "processing")

\* retry_run takes a run in any status back to VALIDATED and commits ...
RetryRun(s) ==
    /\ Retries
    /\ \E p \in Periods, u \in Users :
        Load(s, p, u, [run[p] EXCEPT !.status = "VALIDATED"], "retried")

\* ... and calculates it.  The session still holds the object, which get_run
\* returns without refreshing it: the check for VALIDATED cannot fail.
ExecuteRetry(s) ==
    LET m == call[s].new IN
    /\ call[s].pc = "retried"
    /\ Become(s, [call[s] EXCEPT !.pc = "loaded", !.old = m,
                                 !.new = Started(m, call[s].user), !.after = "processing"])
    /\ UNCHANGED <<run, slip, deducted, paid, ledger, queue, faults>>

\* The asynchronous route: dispatch_payroll_run_process.  (Bound: one task of
\* a run is waiting or running.)
DispatchRun ==
    \E p \in Periods \ queue :
        /\ run[p].status # "NONE"
        /\ queue' = queue \cup {p}
        /\ UNCHANGED <<run, slip, deducted, paid, ledger, faults, call>>

\* _async_process_payroll_run, on first delivery or on redelivery.
WorkerTakes(s) ==
    \E p \in queue :
        /\ call[s].pc = "idle"
        /\ \A t \in Slots : ~(call[t].worker /\ call[t].period = p)
        /\ IF run[p].status = "VALIDATED"
           THEN /\ Become(s, [Idle EXCEPT !.pc = "loaded", !.period = p, !.worker = TRUE,
                                          !.old = run[p], !.new = Started(run[p], NoUser),
                                          !.after = "processing"])
                /\ UNCHANGED queue
           ELSE /\ queue' = queue \ {p}
                /\ UNCHANGED call
        /\ UNCHANGED <<run, slip, deducted, paid, ledger, faults>>

BugAppliedClaimedAgain(p) == {a \in Arrears : ledger[a] # "NONE" /\ TargetOf[a] \in {p, NoPeriod}}

\* ArrearService.pending_for_run
PendingForRun(p) == {a \in Arrears : ledger[a] = "PENDING" /\ TargetOf[a] \in {p, NoPeriod}}

ClaimArrears(s) ==
    /\ call[s].pc = "processing"
    /\ Become(s, [call[s] EXCEPT !.pc = "claimed", !.claims = PendingForRun(call[s].period)])
    /\ UNCHANGED <<run, slip, deducted, paid, ledger, queue, faults>>

BugNoLastInstalment(p) == p \notin deducted

\* _advance_deduction_for_employee: an active loan whose instalment of this
\* period is not DEDUCTED yet.
EmiDue(p) == paid < Instalments /\ p \notin deducted

\* Read the loan and the payslip of the employee.
ReadEmployee(s) ==
    LET p == call[s].period IN
    /\ call[s].pc = "claimed"
    /\ Become(s, [call[s] EXCEPT !.pc = "computed", !.emi = EmiDue(p),
                                 !.loan = paid, !.saw = slip[p]])
    /\ UNCHANGED <<run, slip, deducted, paid, ledger, queue, faults>>

\* A unique key is taken: the instalment of the period, or the payslip.
Conflict(s) ==
    LET p == call[s].period IN
    \/ call[s].emi /\ p \in deducted
    \/ ~call[s].saw.exists /\ slip[p].exists

BugCountsEveryRun(c) == c.loan + 1

\* loan.installments_paid, written as the value read plus one.
Counted(c) == IF c.emi THEN c.loan + 1 ELSE paid

\* ArrearService.mark_applied
MarkApplied(claims) == [a \in Arrears |-> IF a \in claims THEN "APPLIED" ELSE ledger[a]]

BugStatusNotSet(m) == m

Processed(m) == [m EXCEPT !.status = "PROCESSED"]

\* Payslip, instalment and loan, arrears, and the run, in one transaction.
Settle(s) ==
    LET c == call[s]
        p == c.period
        new == [exists |-> TRUE, emi |-> c.emi, arrears |-> c.claims, payment |-> "PENDING"]
    IN
    /\ c.pc = "computed"
    /\ ~Conflict(s)
    /\ slip' = [slip EXCEPT ![p] = FlushSlip(c.saw, new, slip[p])]
    /\ deducted' = IF c.emi THEN deducted \cup {p} ELSE deducted
    /\ paid' = Counted(c)
    /\ ledger' = MarkApplied(c.claims)
    /\ run' = [run EXCEPT ![p] = FlushRun(c.new, Processed(c.new), run[p])]
    /\ queue' = Acked(s)
    /\ Become(s, Idle)
    /\ UNCHANGED faults

\* The transaction is rolled back; what was committed before, PROCESSING, stays.
SettleFails(s) ==
    /\ call[s].pc = "computed"
    /\ Conflict(s)
    /\ queue' = Acked(s)
    /\ Become(s, Idle)
    /\ UNCHANGED <<run, slip, deducted, paid, ledger, faults>>

(***************************************************************************)
(* The rest of the world.                                                  *)
(***************************************************************************)

\* A call dies half way: an error (the task is acknowledged), or a lost
\* process (with acks_late its task is delivered again).
Fault(s) ==
    /\ call[s].pc # "idle"
    /\ faults < MaxFaults
    /\ faults' = faults + 1
    /\ queue' \in {queue, Acked(s)}
    /\ Become(s, Idle)
    /\ UNCHANGED <<run, slip, deducted, paid, ledger>>

\* ArrearService.create_arrear
CreateArrear ==
    /\ \E a \in Arrears : ledger[a] = "NONE" /\ ledger' = [ledger EXCEPT ![a] = "PENDING"]
    /\ UNCHANGED <<run, slip, deducted, paid, queue, faults, call>>

\* The other writers of payment_status: reconcile_bank_feed, for a batch made
\* from a run in any status, and batch_payout, which sets any payslip to PAID.
\* They write that column alone, so the transaction is one step.
Disburse ==
    /\ \E p \in Periods, st \in Outcomes :
        /\ slip[p].exists
        /\ slip' = [slip EXCEPT ![p].payment = st]
    /\ UNCHANGED <<run, deducted, paid, ledger, queue, faults, call>>

Step(s) ==
    \/ ValidateCreated(s)
    \/ Commit(s)
    \/ CommitDelete(s)
    \/ ExecuteRetry(s)
    \/ ClaimArrears(s)
    \/ ReadEmployee(s)
    \/ Settle(s)
    \/ SettleFails(s)

Request(s) ==
    \/ CreateRun(s)
    \/ ValidateRun(s)
    \/ CalculateRun(s)
    \/ RetryRun(s)
    \/ SubmitForApproval(s)
    \/ ApproveRun(s)
    \/ LockRun(s)
    \/ FinalizeRun(s)
    \/ MarkPaid(s)
    \/ RejectOrCancelOrSendBack(s)
    \/ DeleteRun(s)

Next ==
    \/ \E s \in Slots : Request(s) \/ WorkerTakes(s) \/ Step(s) \/ Fault(s)
    \/ DispatchRun
    \/ CreateArrear
    \/ Disburse

Spec == Init /\ [][Next]_vars

(***************************************************************************)
(* Properties.                                                             *)
(***************************************************************************)

TypeOK ==
    /\ run \in [Periods -> Run]
    /\ slip \in [Periods -> Slip]
    /\ deducted \subseteq Periods
    /\ paid \in Nat
    /\ ledger \in [Arrears -> {"NONE", "PENDING", "APPLIED"}]
    /\ queue \subseteq Periods
    /\ faults \in 0 .. MaxFaults
    /\ call \in [Slots -> Call]
    /\ \A s \in Slots : call[s].pc # "idle" => call[s].period \in Periods

\* What a payslip takes or pays is booked: its instalment is DEDUCTED and its
\* arrears are APPLIED.  execute_run_calculation commits them together; calls
\* may overlap, die, repeat, and delete the run in between.
SlipIsBooked ==
    \A p \in Periods :
        /\ slip[p].exists => run[p].status # "NONE"
        /\ slip[p].emi => p \in deducted
        /\ \A a \in slip[p].arrears : ledger[a] = "APPLIED"

\* The loan's counter tells how many instalments were deducted, and never more
\* than the loan has: "DEDUCTED rows are never charged again on a retry, and
\* the loan balance/installment counter is updated in the same transaction".
LoanIsBooked == paid = Cardinality(deducted) /\ paid <= Instalments

\* No arrear is settled in two periods: pending_for_run "claims" its rows.
ArrearOnce ==
    \A p, q \in Periods : p # q => slip[p].arrears \cap slip[q].arrears = {}

\* Dual control: nobody who created or processed a run approved it or closed
\* it, whatever happened to the run between its calculation and its payment.
DualControl ==
    MakerChecker => \A p \in Periods :
        /\ run[p].status \in {"APPROVED", "LOCKED", "PAID"} =>
               run[p].approved \notin {run[p].created, run[p].processed}
        /\ run[p].status \in Closed =>
               run[p].finalized \notin {run[p].created, run[p].processed}

\* On the canonical lifecycle nothing is approved, locked or paid that was not
\* calculated: such a run has its payslips.
ApprovedWasCalculated ==
    \A p \in Periods :
        run[p].status \in {"PENDING_APPROVAL", "APPROVED", "LOCKED", "PAID"} => slip[p].exists

\* The figures that were approved are the figures that are paid: no step
\* changes a payslip of a run that is approved or closed.
ApprovedFiguresStand ==
    [][\A p \in Periods :
         run[p].status \in {"APPROVED"} \cup Closed /\ slip[p].exists /\ run'[p].status # "NONE"
         => slip'[p].emi = slip[p].emi /\ slip'[p].arrears = slip[p].arrears]_vars

\* The commit of a retry: the v1 route, which takes a run in any status.
Retried(p) ==
    \E s \in Slots :
        /\ call[s].pc = "loaded" /\ call[s].period = p /\ call[s].after = "retried"
        /\ call'[s].pc = "retried"

\* "Finalized, locked, or disbursed payroll runs cannot be cancelled", rejected,
\* sent back, approved again or deleted: only a retry opens a closed run, and
\* only LOCKED goes on to PAID ("Close the canonical lifecycle only after a
\* locked run is paid").  Faults, redelivered tasks and the v1 routes included.
ClosedStaysClosed ==
    [][\A p \in Periods :
         Retried(p) \/ /\ run[p].status = "LOCKED" => run'[p].status \in {"LOCKED", "PAID"}
                       /\ run[p].status \in {"FINALIZED", "PAID"} => run'[p].status = run[p].status]_vars

\* No payslip of a PAID run is PENDING: mark_paid settles the payslips it read
\* with the run, the bank may still report FAILED, and a calculation, which
\* sets them back to PENDING, never reaches a run that stays PAID.  (Nothing
\* like it holds the other way round: Disburse pays payslips of open runs.)
PaidIsSettled ==
    \A p \in Periods : run[p].status = "PAID" /\ slip[p].exists => slip[p].payment # "PENDING"

(***************************************************************************)
(* Liveness.  A call that was started goes on, and the worker takes the    *)
(* tasks that wait.  Requests are nobody's duty.                           *)
(***************************************************************************)
Fairness ==
    /\ \A s \in Slots : WF_vars(Step(s))
    /\ WF_vars(\E s \in Slots : WorkerTakes(s))

FairSpec == Spec /\ Fairness

\* A calculation that was started leads somewhere: when no call dies, a run does
\* not stay in PROCESSING, also when calculations of the same run overlap and
\* one of them loses on a unique key.
ProcessingEnds == \A p \in Periods : run[p].status = "PROCESSING" ~> run[p].status # "PROCESSING"

============================================================================
