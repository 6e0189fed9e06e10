# TLA+ models of the Office360 HRMS backend

Office360 (`src/app`) is a multi-tenant HR and payroll backend: FastAPI routes call
services, services use SQLAlchemy sessions on PostgreSQL, Redis holds caches, counters
and token state, Celery workers run payroll calculations and notifications.  There is
no in-memory shared state worth speaking of: the state that can go wrong is in database
rows, and what makes it hard is that every request and every worker task is a
transaction of its own, that may interleave with the others between any two of its
statements.  The models here are about that.

## Inventory

| Component | State | Operations | What is hard | Module |
|---|---|---|---|---|
| Leave (`leave_service`, `leave_repository`, `leave_agent`) | request status and dates, `used_days` of a policy row | apply, review, cancel, balances | lost updates of `used_days`, check-then-insert, decisions on stale ORM objects | `Leave`, `LeaveDesk` |
| Payroll run (`payroll/run_service`, `workers/payroll_tasks`) | run status, makers and approver, payslips, EMIs, arrears | create, validate, calculate, submit, approve, finalize, pay, reject, cancel, send back, retry, delete | a calculation in two transactions with the lifecycle calls between them, worker crashes, retries of money that was already consumed | `PayrollRun` |
| Periods and sync (`payroll/cycle_service`, `attendance_to_payroll_sync_service`) | lock columns of a period, overtime entries, system-owned variable inputs | create, lock, unlock, reopen, void, delete, sync | an upsert without a unique key, stale columns written back, the same source pushed in several locks | `PeriodInputs` |
| Payment batch (`payroll/payment_batch_service`) | batch and item status, payment status of payslips | create, approve, submit, reject, hold, export, bank response, bank feed, re-payout | paying twice, results out of order, dual control along every path | `PaymentBatch` |
| Attendance (`attendance/services`, `core_modules/attendance_service`) | sessions and breaks of a day | check in and out by face, by core route, breaks, HR edits | a slow face check between read and write, two families of routes on one table, midnight | `Attendance` |
| Subscriptions (`api/payments`) | transactions, subscription, invoices | create order, verify, webhook | events lost, late, twice and out of order | `Subscription` |
| Calls (`connect_service`, `connect_ws_manager`) | call row, registry of sockets | ring, answer, decline, end; connect, disconnect | signals out of order, dead sockets, several workers | `Calls` |
| Session tokens, registration and login | refresh-token families, OTP rows, lockout counters | issue, rotate, revoke, verify, login | access control, left to the tests of that code | - |
| Idempotency (`payroll/idempotency_service`) | cached responses by key | get, set | get-then-set; no modelled handler calls it | - |
| Notifications (`notification_service`) | notification rows by dedupe key | notify, read | duplicates; nothing modelled depends on them | - |
| Full and final settlement | settlement status | calculate, approve, pay | see *Not modelled* | - |
| Onboarding, documents, assets, helpdesk, recruitment, performance, AI | rows with status fields | mostly CRUD, text processing, model calls | little that a model checker reaches | - |

How they interact: `Leave` asks the period's cut-off guard; locking a period
(`PeriodInputs`) reads attendance and overtime and writes the variable inputs that a run
(`PayrollRun`) pays; a payment batch is built from a run and writes the payment status of
its payslips back.  Each module keeps, of its neighbours, what the handlers it models
read: `Leave` the lock and deadline of a period, `PeriodInputs` the days that earn an
allowance, `PaymentBatch` the payslips of one run.

`PROJECT.json` lists every component with its sources and its status, and every hazard at
the line where it bites.  Every module is about one company: rows of different companies
meet in no modelled query.

Common to all of them: an SQLAlchemy object is a copy of the row as loaded; a second
`SELECT` in the same session does not refresh it, and the commit writes only the columns
whose value differs from the loaded one (`Written`, `FlushRun`, `Flushed`).  Definitions
called `Bug...` are used by no specification; each is a plausible mistake in the
definition that follows it, and the property named with it in `PROJECT.json` finds it.

## Leave: `Leave.tla`

One employee (employees share no row and no query of this code).  `status` and `form`
are the `leave_requests` rows, `hasPolicy` and `used` the `employee_leave_policies` rows
(one per type and year), `arrears` the `LEAVE_REVERSAL` entries of the arrear ledger,
`locked` and `today` what the cut-off guard looks at.  `tx` holds the transactions that
are running: where each is, and what it read.

PostgreSQL runs them at READ COMMITTED, so a transaction is cut into one action per
stretch between two statements that can see another transaction's commit:

| Code | Actions |
|---|---|
| `apply_leave` | `ApplyChecks`, `ApplyReadsPolicy`, `ApplyReadsPending`, `ApplyCommits` |
| `review_leave` | `ReviewLocksLeave`, `ReviewLocksPolicy`, then `ReviewApproves` or `ReviewIsShort`; `ReviewRejects` |
| `cancel_leave` | `CancelLocksLeave`, `CancelCommits` |
| `LeaveAgent.cancel_leave` | `AgentLoadsLeave` (no lock), `AgentLocksLeave`, `CancelCommits` |
| `get_leave_balances` | `GetLeaveBalances` |
| an exception, a lost connection | `Rollback` |
| `lock_attendance`, `lock_cycle`; `unlock_attendance`, `reopen_cycle` | `LockAttendance`; `UnlockAttendance` |

A row lock is held exactly at the program points after the `SELECT ... FOR UPDATE`
(`Holding`; `"charging"` for the policy row), so locks need no variable of their own.
The agent first loads the row without a lock; the locked `SELECT` that follows returns
the object that is already in the session's identity map and does not refresh it, so the
branch is taken on `seen`, the status loaded first.

Bounds: two requests and two transactions (the smallest that interleave), a third request
where calls run one by one, one type with two days a year, three days in two years and
two payroll periods (one year where the agent takes part).  `RowLeft` keeps applications within the rows there are.
Fairness (`FairSpec`): a handler that was started goes on, and a lock that becomes free
again and again is granted (PostgreSQL queues waiters).  No new call, no passing of days
and no lost connection is ever assumed.

| Run | Checks | Shows |
|---|---|---|
| `leave_api` | `UsedIsApproved`, `DecisionsAreFinal`, `ImplementsDesk` | two API calls at once, over two policy years, keep `used_days` equal to the approved days and decisions final, and implement the desk |
| `leave_serial` | `PendingIsReserved`, `NoDayTwice`, `SomeoneCanBeApproved` | one call at a time, the reservation and overlap rules are sound |
| `leave_agent` | `NeverOverdrawn`, `EveryCallEnds` | what still holds when the agent cancels too: no balance is overdrawn or negative, no wait for ever |

`LeaveDesk.tla` is the abstract specification: a desk where requests are handed in and
decided one at a time, an approval takes the days out of an account that must cover them,
taking back an approved leave puts exactly these days back, and nothing else moves a day.
`Leave` maps to it with `left = total_days - used_days`; transactions, locks, policy rows
and periods are hidden.  That `Leave` implements it (`ImplementsDesk`, checked and, with
`ServiceIsDesk`, proved) says that the five statements of a review are one decision to
everybody else.

What does not hold, and why no run states it:

* `UsedIsApproved` with `AgentCancels = TRUE` in `LeaveApi.cfg`: the agent takes its branch
  on the status it loaded before the lock, and skips a refund (loaded PENDING, meanwhile
  approved) or repeats one (two agents loaded APPROVED).
* `PendingIsReserved` and `NoDayTwice` with two transactions: `apply_leave` sums the pending
  days and looks for overlaps without a lock and inserts later.
* A leave approved after the cut-off gets a `LEAVE_REVERSAL` arrear; cancelling it, once
  attendance is unlocked, gives the days back and leaves the arrear.
* Attendance that is locked between the check and the commit of `review_leave` leaves an
  approved leave in a closed period without an arrear.

## Payroll runs: `PayrollRun.tla`

The runs of one company and what they settle for one employee, who has one loan and some
arrears.  `run` is the `payroll_runs` table (status, `created_by`, `processed_by`,
`approved_by`, `finalized_by`), `slip` the employee's payslips, `deducted` and `paid` the
loan's instalment rows and its `installments_paid`, `ledger` the arrears, `queue` the
processing tasks that are not acknowledged.  Runs and payslips are indexed by period,
because both tables have a unique key on it.  `call` holds the requests and tasks that are
running.

No handler of `run_service.py` locks the run.  It loads the object, decides on what it
loaded, and SQLAlchemy later writes the attributes that changed (`FlushRun`, `FlushSlip`);
columns it did not touch keep what others wrote meanwhile.  So every handler is a load and a
later `Commit`, and the calculation, which commits PROCESSING before it works, is more:

| Code | Actions |
|---|---|
| `create_run` | `CreateRun` (INSERT), `ValidateCreated`, `Commit` |
| `validate_run` | `ValidateRun`, `Commit` (not on a status other than DRAFT, where it changes nothing modelled) |
| `submit_for_approval`, `approve_run`, `mark_paid` | `SubmitForApproval`, `ApproveRun`, `MarkPaid`, then `Commit` |
| `finalize_run`, v2 and v1 | `LockRun`, `FinalizeRun`, then `Commit` |
| `reject_run`, `cancel_run`, `send_back_run` | `RejectOrCancelOrSendBack`, `Commit` |
| `delete_run` | `DeleteRun`, `CommitDelete` (payslips go with the run) |
| `execute_run_calculation` | `CalculateRun`, `Commit`, `ClaimArrears`, `ReadEmployee`, then `Settle` or `SettleFails` |
| `retry_run` | `RetryRun`, `Commit`, `ExecuteRetry`, `Commit`, and on as above |
| `dispatch_payroll_run_process`, the Celery task | `DispatchRun`, `WorkerTakes`, and on as above |
| a crash, a timeout, an error | `Fault`; with `acks_late` the task may stay in the queue |
| `ArrearService.create_arrear` | `CreateArrear` |
| `reconcile_bank_feed`, `batch_payout` (the payslip's `payment_status`) | `Disburse` |

`Settle` is one action because the session does not autoflush: payslip, instalment, loan,
arrears and PROCESSED reach the database in the commit at the end.  A unique key that
another call took meanwhile makes that commit fail (`Conflict`).  An object that is still in
the session is not refreshed by `get_run`, which is why `ExecuteRetry` checks nothing.  A
call whose run is deleted can only fail from then on, so the deletion ends it.

Abstracted: amounts (an instalment or an arrear is on a payslip or not), totals,
`is_locked`, audit rows, notifications, validation warnings.  An arrear without a target
period stands for one whose source period is older than all the runs.  Of a task that is
dispatched twice only one is waiting at a time.  The v1 approve and finalize routes, which
skip the lifecycle on purpose, are behind `Legacy`, the v1 retry route behind `Retries`.
What a bank feed or a payout may report of a payslip, of a run in any status, is in
`Outcomes`; the run with the question about payments has PAID and FAILED, the others none,
for nothing they check reads `payment_status`.

Scope: the runs that `run_service.py` processes.  The older pay-cycle engine
(`payroll_service.py` behind `routes/salary_processing`) writes the same tables: it deletes
and inserts the payslips of a period and sets the run with the id of its pay cycle to
PROCESSED from any status.  A period that both engines process is outside the module.

Bounds: one period where the questions are about one run, two where runs share the loan and
an unassigned arrear; two users where dual control is on (a maker and a checker), one
elsewhere; two calls at once (two are enough for a stale write); as many instalments as
periods or one fewer, so that the last one is reached; at most one call dies.

Fairness (`FairSpec`): a call that was started goes on and the worker takes tasks that wait.
No request is assumed, so nobody is expected to cancel or retry a stuck run.

| Run | Instance | Checks | Shows |
|---|---|---|---|
| `pay_serial` | one call at a time, v1 routes, retry, a fault, bank feeds | `DualControl`, `PaidIsSettled`, `ApprovedFiguresStand`, `ClosedStaysClosed` | dual control and the approved figures hold on every path, v1 routes included; only a retry opens a closed run; no payslip of a PAID run is PENDING, whoever wrote it last |
| `pay_books` | one call at a time, retry, two periods, one loan | `LoanIsBooked`, `ArrearOnce` | instalments and arrears are booked once when calls do not overlap |
| `pay_overlap` | two calls at once, retry, fairness | `SlipIsBooked`, `LoanIsBooked`, `ApprovedWasCalculated`, `ProcessingEnds` | the unique keys and the single transaction carry what no lock protects; no run stays in PROCESSING unless a call dies |

What does not hold:

* `retry_run` takes an approved, locked or paid run back to calculation.  `ClosedStaysClosed`
  leaves out the commit of a retry, and nothing else.
* Run and payslip are not paid together: a bank feed pays the payslip of a run that is still
  open or LOCKED, or fails the payslip of a PAID run, and a recalculation after a send back
  sets a payslip that was paid to PENDING.  `PaidIsSettled` is what is left.
* A second calculation (send back, validate, calculate) finds the instalment and the arrears
  consumed, skips them, and writes a payslip without them while the loan counts the
  instalment as paid.
* A worker that dies after PROCESSING is committed leaves a run that the redelivered task
  does not accept (it needs VALIDATED): only a user's retry gets it on.
* With two calls at once, all for the same reason, the unlocked load: two periods' runs lose
  one count of `installments_paid` (`LoanIsBooked` with two periods), claim the same
  unassigned arrear (`ArrearOnce`), a cancellation that loaded the run before it was locked
  overwrites LOCKED (`ClosedStaysClosed`), and a calculation by the approver that loaded the
  run earlier writes `processed_by` after the approval checked the makers (`DualControl`).
  A second slot in `PayrollBooks.cfg` (the first two) or `PayrollSerial.cfg` (the others),
  with that property alone, shows each of them.

## Periods and their inputs: `PeriodInputs.tla`

One payroll period: `period` is its row in `payroll_periods` (status, `is_locked`,
`attendance_locked_at`), `entry` the overtime entry of each employee for the month, `days`
the attended days that earn a shift allowance, `input` the variable inputs with source
`ATTENDANCE_LOCK`, a sequence of rows because the table has no unique key.

| Code | Actions |
|---|---|
| `create_cycle`, `create_period` | `CreateCycle` |
| `lock_cycle`, `lock_attendance` | `LoadCycle`, `LockFlushes`, `SyncReadsAttendance`, `LockCommits` |
| `unlock_attendance`, `reopen_cycle`, `void_cycle` | `LoadCycle`, `ChangeCycle` |
| `delete_payroll_cycle` | `LoadCycle`, `DeleteCycle` |
| `create_ot_entry`; `adjust_ot_entry` | `CreateOvertime`; `AdjustLoads`, `AdjustCommits` |
| a check-in; `update_attendance`, `delete_attendance` | `Attend`; `EditChecks`, `EditCommits` |
| an error, a lost connection | `Rollback` |

The period is loaded without a lock.  What protects the sync is the audit row:
`log_event` flushes the session, and this flush carries the UPDATE of the period, which
waits for the row and holds it until the commit (`Syncing`).  Without it
(`BugLockFlushes`) two locks insert two rows each, and every row is paid.  `clean` and
`fresh` are history variables: the employees whose sources have not changed since a sync
began to read, and since the last sync that committed.

Bounds: one employee (employees share no row), two requests at once, hours 0 and 1, one
day: a source that is worth nothing and one that is.  CHECK_DEADLOCK is off only because
nobody has to do anything.

| Run | Checks | Shows |
|---|---|---|
| `period_inputs` | `OneRowPerInput`, `InputsFollowSources`, `NothingLeftToPush`, `FlagsAgree` | in any interleaving there is one input of a type, worth what its sources are worth once a lock has read them; no approved overtime stays behind; stale columns never make `is_locked` and the status disagree |

What does not hold.  The comment in the sync says that "existing system rows are zeroed to
avoid stale values when a source approval is reversed"; the loop is over `totals`, so an
employee whose last source was withdrawn keeps the old inputs, and `InputsFollowSources`
makes this exception.  An adjustment that commits while a sync is on the way is marked
PUSHED without being counted, until the next lock.  `lock_attendance` and `void_cycle`
look at no status, so attendance of a voided period can be locked; `create_run` does not
look at the status of its period either.

## Payment batches: `PaymentBatch.tla`

The batches of one run: `batch` (status, creator, processor, approver, the batch it pays
again), `item` (status, UTR, the batch that pays it again), `slip` (payment status of each
payslip), `files` (the batches a bank file was generated for).

| Code | Actions |
|---|---|
| `create_batch` | `CreateBatch` |
| `approve_batch` | `ApproveLoads`, `ApproveCommits` |
| `submit_batch`, `reject_batch`, `reconcile_batch` | `SubmitBatch`, `RejectBatch`, `ReconcileBatch` |
| hold, release, retry of an item | `MarkItem` (no handler tells RETRIED from HELD) |
| the bank file routes | `GenerateBankFile` |
| `apply_bank_response` | `ApplyBankResponse` |
| `reconcile_bank_feed` | `FeedLoads`, then `FeedCommits` or `FeedCommitsAndRepays` |
| an error | `CallFails` |
| `mark_paid`, `batch_payout`, a calculation (the payslips' `payment_status`) | `RunWritesSlips` |

Bounds: three batches (an original, its re-payout, the re-payout of that), one employee, a
maker and a checker, one UTR, one manual intervention, one approval or feed in progress
while the other handlers run between its load and its commit.  The failed rows of a feed
carry no UTR.

| Run | Checks | Shows |
|---|---|---|
| `payment` | `ExportIsDual`, `OneRepayout`, `RepayoutIsLinked`, `FailedIsRepaid`, `FeedKeepsPaid` | no file without dual control on any path to RECONCILED; a failure is paid again once; a payslip shown as failed has a re-payout; links and paid items survive what the desk and the run do meanwhile |
| `payment_replay` | `ReplayIsSafe` violated | the docstring says that replaying a feed is safe; the original batch's feed, replayed after the re-payout was paid, sets the payslip to FAILED |

With two feeds of one batch at once (`Calls = {c1, c2}`) `OneRepayout` and
`RepayoutIsLinked` fail: both choose the same failed items from rows they have read.  A payslip
that is PAID need not have an item or a UTR: `mark_paid` asks for none.  The approver of an
exported batch is never its creator, but may be its processor, when a submit comes between the
check and the commit of the approval; `ExportIsDual` is about the creator.  A batch
keeps the amounts it was created with, whatever becomes of the run; nothing in the code
compares them, and the module has no amounts.

## Attendance: `Attendance.tla`

The attendance rows and breaks of one employee over the days of a small clock: `rec`,
`brk` (`break_duration`), `hours`, `breaks`, and `req`, the face request in progress.

| Code | Actions |
|---|---|
| face check-in and check-out | `CheckInBegin` or `CheckInFindsStale`, `CheckInCommit`; `CheckOutBegin`, `CheckOutCommit` |
| `start_break`, `end_break` | `StartBreakBegin`, `StartBreakCommit`; `EndBreakBegin`, `EndBreakCommit` |
| face or place refused, the process dies; the row was deleted meanwhile | `RequestRefused`; `RowHasGone` |
| core routes | `CoreCheckIn`, `CoreCheckOut` |
| `update_attendance`, `delete_attendance` | `UpdateAttendance`, `DeleteAttendance` |
| time | `Tick` |

A face request reads, verifies for seconds, writes: two actions.  The client sends one
request at a time, which the properties need: two overlapping `start_break` requests insert
two active breaks.  `auto_close_stale_session` uses `timezone`, which its module does not
import, so a check-in that meets a stale session fails and the session stays open;
`SessionsEnd` says that it can still be checked out of.  A punch outside every shift window
gets the date on which the window is looked for, after the face was verified, so a punch just
before midnight may be booked on the next day.  `edited` is history: a check-out with notes
writes over the "Edited by" that HR left, and the field keeps that the row was corrected.

The sum of the durations of a row's breaks is written as the number of the ticks they last
(`SumOfDurations`), because the prover can count a set and cannot unfold a sum.  It is the same
number because no break ends before it starts or after now, which is part of what is proved
(`BreaksPast`).

Bounds: days of three ticks, the clock runs for one day and reaches into the next, two
breaks, one edit by HR; a shift that ends at midnight, so that its window touches two dates.
Fairness: a request is answered (WF of `RequestRefused`), the employee keeps asking to check
out and is recognised in the end (SF of `CheckOutBegin` and `CheckOutCommit`): nothing
in the server closes a session.

| Run | Checks | Shows |
|---|---|---|
| `attendance` | `TypeOK`, `OneActiveBreak`, `BreaksAddUp`, `BreaksWithinSession`, `HoursAddUp`, `OpensAlone`, `SessionsEnd` | hours and breaks make up the time between the punches, breaks lie within the session, a face check-in opens a session only when none is open, and every session can be ended, whatever HR, the core routes and the clock do between the two halves of a request |

Regularisation requests are left out (no route reviews one); so are geofence and face scores.

## Subscriptions: `Subscription.tla`

One company against the payment gateway, which is external: `payment` is what the gateway
did, `answered` and `again` which events it has delivered, `txn`, `subs` and `billing` the
rows, `req` the requests in progress.  An event may be lost (the request `Fails`), come
late, again, and in any order; the client's `verify` is one more event.

| Code | Actions |
|---|---|
| `create_order` | `CreateOrder` |
| `verify_payment`, the webhook | `Arrives`, then `LoadsCompany` and `Activates`; `Rejected`, `RecordsFailure`, `RecordsRefund` |
| the gateway | `Pay`, `Capture`, `Refund` |
| an error | `Fails` |

`payment.captured` and `order.paid` are handled alike and are one event, as are the two
refund events.  `subs` is a sequence, for `company_id` has no unique key: two first
activations insert two rows, and `scalar_one_or_none` fails for the company from then on.

Bounds: one order with two attempts to pay it, two requests at once, one event sent again;
the proofs are for any number.  Fairness: requests end (WF); the gateway sends the captured
event until it is answered, and its handling does not fail every time (SF on delivery,
`LoadsCompany` and `Activates`): Razorpay retries webhooks, the client is not relied on.

| Run | Checks | Shows |
|---|---|---|
| `subscription` | `NothingIsFree`, `PaidIsActive`, `CustomerGetsAccess` | nothing is active, invoiced or captured without a payment that the gateway accepted, and no webhook captures before the money was taken; what is captured is active; a captured payment gets the company its subscription |

`NothingIsFree` is less than `verify_payment` says of itself.  Its docstring (payments.py:270)
promises activation "only after signature and amount verification succeed" and its comment
(:351) a fetch "to verify capture status and amount"; the code (:352-362) takes nothing from
the fetched payment but its method.  Amounts are therefore no part of the module, a payment
that is only authorized is enough for `Verified`, and no property claims otherwise: the
disagreement is one of the documentation with code that never looks.

What does not hold: the webhook says it handles events "idempotently", and its test is
`txn.status != CAPTURED`.  A REFUNDED transaction passes it, so a `payment.captured` that
arrives after the refund, for the first time or again, activates a new term and adds a
second invoice.  Two requests that write `hr_settings` at once lose one of two invoices.

## Calls: `Calls.tla`

One call: `call` is its row (status, whether `connected_at` and `ended_at` are set), `net`
the connections as they are, `registered` the registry of sockets in a worker's memory,
`heard` the last status each device was told, `req` the requests in progress.

| Code | Actions |
|---|---|
| `initiate_call` | `InitiateCall`, then `Send` per event |
| `update_call_status` | `UpdateLoads`, `UpdateCommits` (together `Update`), then `Send` per event |
| the websocket endpoint | `Connect`; `LoopEnds`, which leaves the socket registered |
| a client that is gone unnoticed; a worker restart | `Vanish`; `Restart` |

The receive loop is left by `break` without a disconnect, so a dead socket stays registered
until a send to it fails; `is_online` answers for a user who has gone.  Closing a call
that was connected subtracts an aware from a naive datetime: a TypeError, so it stays
connected (`Crashes`).  `overtaken` is a history variable: set when an update is committed
while another request is in progress.  The websocket frames that answer a call
(api/connect.py 1654-1800) are not modelled: their result holds datetimes, which `send_json`
cannot write, so the client only gets an error frame.

The registry is in the memory of a process and the Dockerfile starts four workers, so the
module has any number of them, and every request, socket and restart belongs to one.

Bounds: two workers, a device of the caller and one of the callee on the first, two requests
on either (a device on the second would see what these see with the workers' names
exchanged; several devices of one user are in the proofs); `connected`, `rejected` and `cancelled`, which send different events (`ended`,
`missed` and `failed` send what `connected` sends).  Fairness: WF of `UpdateCommits` and
`Send`: the server goes on with a request it has begun.  Nobody has to answer or hang up, and
the server has no timer that ends a ringing call.

| Run | Checks | Shows |
|---|---|---|
| `calls` | `StampsMatch`, `EveryDeviceHears`, `NobodyRingsForever` | status and timestamps agree whatever overlaps; when a request ends, every device on its worker that heard of the call knows the status of the row, dead sockets and restarts included; such a device stops ringing after an update |

What does not hold:

* A device on another worker is not told of an update, even when requests come one by one: it
  keeps ringing until it is connected again.  Both properties are about the devices of the
  worker that serves the request.
* An update that is committed while another request is in progress: the events are sent after
  the commits, in any order, so a device may be left with the status that was overwritten, and
  a stale accept reopens a closed call.  `EveryDeviceHears` stops at the first such commit.
* `initiate_call` sends the callee two events, and the second may come after the last event of
  a decline: the device rings again and is never told.  `NobodyRingsForever` leaves out a
  device whose worker is still sending an invitation, and holds for every other overlap.

## What is proved

All of it is for any value of the constants, from the assumptions stated with them (finite
sets where sums are taken, naturals, NULL is not a name); TLC evaluates these in every run.

`LeaveProofs.tla`

* `TypeCorrect`; `RowLocksHold`, `PolicyIsFound` and `BalanceNeverOverdrawn`, from the
  inductive invariant `Inv`.  `NeverOverdrawn` alone is not inductive: `review_leave` writes
  `used_days` from a value it read, so one needs that this value is current, which is what
  `LocksHold` says, and that the policy row exists (`PolicyExists`).
* `BalanceIsApprovedDays`: if the agent does not cancel, `used_days` is the sum of the
  approved days.  It needs `SeenIsCurrent`, that a cancellation decides on the status that is
  in the row; this is exactly what the agent's early load breaks.
* `ServiceIsDesk`: without the agent `Leave` implements `LeaveDesk`, each step a desk step or
  a stutter; `DecisionsStand` follows from the desk's rules.
* `PendingDaysAreReserved`, `DaysAreAskedOnce` and `ReviewsAreNotStuck` assume `OneAtATime`,
  no two transactions of the employee at once; the agent may cancel.  `apply_leave` locks
  nothing, so what it checked must be carried to its insert (`ApplyIsCurrent`).  Neither
  reservation property is inductive: the request that fits may be decided first and leave
  others, of another policy year, behind.  `Reserved` is: in *every* set of pending requests
  of a type there is one (the last applied for) that fits together with the whole set, and
  a decision only takes sets away, or moves a request's days from the set to `used_days`.

`PayrollProofs.tla`

* `PayrollTypeCorrect` and `PayslipsAreBooked`, from `Inv`, which adds `LiveRuns` (a call
  that goes on works on a run that exists): a late commit must not bring back a deleted run.
* `OnlyCalculatedIsApproved`, where the v1 routes are not used, from `Lifecycle`: not only is
  every run in a calculated status a run with payslips, every write still to come of such a
  status is to such a run.  This is why stale writes, which can undo a lock, still cannot
  approve a run that was never calculated.

`PayrollSerialProofs.tla`: what no lock protects, when calls do not overlap (`OneCall`), with
any number of periods, users, arrears, faults and redelivered tasks.

* `SerialCallsAreCurrent` is the inductive invariant.  `DualControl` is not inductive, for a
  commit writes columns that were computed from a run loaded earlier.  `Knows` adds that the
  run, the payslip and the arrears the one call has loaded are what the tables hold, that a
  calculation has its run in PROCESSING, and that what it is about to write is legal
  (`Prepared`).
* From it, with the v1 routes and retries allowed: `NobodyChecksTheirOwn`,
  `ApprovedFiguresArePaid`, `ArrearsAreSettledOnce`, `ClosedRunsStayClosed` and
  `PaidRunsAreSettled`, the last with bank feeds that write the payslip at any time.
* `LoanIsDeductedOnce` assumes `OneCall` or `OnePeriod`.  `LoanInv` says that what a
  calculation read of the loan is current unless the instalment of its period was deducted
  meanwhile, and then its settlement fails on the unique key.  So any number of calls may
  overlap on one period; two periods lose a count, as said above.

`PeriodInputsProofs.tla`: `InputsAreSingle`, `InputsAreWorth`, `OvertimeIsPushed`,
`PeriodFlagsAgree`, `PeriodTypeCorrect`, from one invariant `Inv`: the properties, `OneSync`
(one request holds the row), `ReadIsCurrent` (what a sync read of the inputs is current, and
of the sources for clean employees) and `SeenIsSound` (a loaded period agreed with itself and
passed the guard, so that the columns written back agree whatever happened since).

`PaymentBatchProofs.tla`: `PaymentTypeCorrect` and `ExportsAreDual` for any overlap, from
`DualInv` (no approver, written or about to be, is the creator).  `RepayoutsAreLinked`,
`RepaidOnce`, `FailuresArePaidAgain` and `PaidStaysPaid` assume `Alone`, one approval or feed at a
time, from `SerialInv`: what a feed has loaded still agrees with the items except for statuses
that the desk sets.

`AttendanceProofs.tla`, for any clock, shift, windows, breaks and edits by HR:

* `AttendanceTypeCorrect`, `BreaksAreSingle` and `SessionsOpenAlone`, from `Inv`: while a
  `start_break` is verified its row has no active break, while a check-in is verified no
  session is open, and the break that an `end_break` has loaded is active or gone.  Nobody
  but the waiting employee makes either.
* `BreakDurationsAddUp`, `BreaksStayInSession` and `WorkedAndBreakMakeTheDay`, from `DayInv`.
  It adds that breaks lie in the past (`BreaksPast`) and apart from each other, an active one
  last (`BreaksApart`), that a break has its row (`NoOrphans`), that a check-in is not in the
  future (`InPast`), and that a row which a request has loaded is as it was, gone, or marked
  as edited (`RequestHolds`).  Disjoint breaks inside the session last no longer than it, so
  `evaluate_checkout` never cuts the hours off at zero, and the hours of work and of break
  add up.

`SubscriptionProofs.tla`: `SubscriptionTypeCorrect`, `NothingIsEverFree`, `CapturedIsActive`,
from `Inv`, which adds that what a request has loaded, and may write back, belongs to an
accepted payment (of a webhook, to one whose money was taken) and is still there.

`CallsProofs.tla`, for any number of workers, sockets and requests: `CallsTypeCorrect`;
`StampsAgree`, from `SeenIsPast` (a stale object has fewer stamps than the row, never others);
`DevicesHear`, from `LiveIsRegistered` (no live socket is missing from its worker's registry),
`OneSends` (before the first overtaking commit one request at a time has events to send) and
`ToldSoon` (a device of its worker that does not know the status is still owed an event).

Only model-checked: liveness (`EveryCallEnds`, `ProcessingEnds`, `SessionsEnd`,
`CustomerGetsAccess`, `NobodyRingsForever`), since the prover has no fairness or ENABLED.
Every invariant and every action property of a passing run is stated by a theorem, under the
assumptions named here; the runs whose instances satisfy them (one transaction, one call)
are the ones that check these properties.

## Not modelled

* Session tokens, registration, OTP and login lockout: access control, left to its tests.
* Full and final settlement: in the exit workflow `upsert_fnf` uses `Decimal`, which its
  module does not import, so no settlement is stored and what follows cannot be reached; the
  payroll path is one status behind the maker-checker rule, and arithmetic.
* Variable inputs entered by hand or in bulk: a preview token is applied and committed before
  it is deleted from Redis, so two applications at once apply its rows twice.
* Meetings, channels and messages of Connect, notifications, idempotency keys, rate limiter
  and caches: single-row writes, or state that no modelled handler reads.
* Salary and tax arithmetic beyond small integers, text extraction, OCR, embedding search and
  model calls, rendering of documents, and the CRUD services, whose statements are single-row
  updates without a rule of their own.  They are most of the repository's lines, which is why
  the modules, though they cover the money and time paths, map a small part of it.

Worth doing next: an abstract run lifecycle that `PayrollRun` implements when calls do not
overlap; `PeriodInputs` composed with `PayrollRun` through the inputs that a calculation reads.
