---------------------------- MODULE PeriodInputs ----------------------------
(***************************************************************************)
(* One payroll period of one company, and the variable pay that locking    *)
(* its attendance writes: overtime and shift allowances.                   *)
(*                                                                         *)
(* Code: app/services/payroll/cycle_service.py,                            *)
(* app/services/payroll/attendance_to_payroll_sync_service.py, the         *)
(* overtime part of app/services/payroll_service.py, and the attendance    *)
(* corrections of app/services/core_modules/attendance_service.py.         *)
(*                                                                         *)
(* A handler loads the period without a lock, decides on what it loaded    *)
(* and assigns.  log_event then flushes the session: the UPDATE of the     *)
(* period waits for the row and holds it until the commit.  The sync comes *)
(* after that, and there is no unique key on variable_inputs.  An ORM      *)
(* object writes only the columns whose value differs from the loaded one  *)
(* (Written).                                                              *)
(*                                                                         *)
(* Left out: comp-off encashments, which no code records; inputs entered   *)
(* by hand, which share no row with these; the calendar dates.  That a     *)
(* period with active runs is not voided, and that corrections end at a    *)
(* deadline, are refusals that may come at any time and change nothing.    *)
(***************************************************************************)
EXTENDS Integers, Sequences

CONSTANTS
    Employees,
    Calls,      \* requests in progress at one time
    Hours,      \* bound: hours an overtime entry may have
    MaxDays     \* bound: days with a shift allowance in the period

ASSUME InputsAssumption == Employees # {} /\ Hours \subseteq Nat /\ MaxDays \in Nat

Types == {"OVERTIME", "SHIFT_ALLOWANCE"}

\* A row of payroll_periods; attendance: attendance_locked_at is set.
Periods == [status : {"NONE", "OPEN", "LOCKED", "VOID"}, locked : BOOLEAN,
            attendance : BOOLEAN]

NoPeriod   == [status |-> "NONE", locked |-> FALSE, attendance |-> FALSE]
OpenPeriod == [NoPeriod EXCEPT !.status = "OPEN"]

\* The row of overtime_entries an employee has for the month.
Entries == [status : {"NONE", "PENDING", "APPROVED", "PUSHED"}, hours : Nat]

NoEntry == [status |-> "NONE", hours |-> 0]

LockOps   == {"lock_cycle", "lock_attendance"}
PeriodOps == LockOps \cup {"unlock_attendance", "reopen_cycle", "void_cycle", "delete_cycle"}

\* A request with what it has read.  clean is history: the employees whose
\* sources have not changed since the sync began to read.
CallRecords ==
    [op : PeriodOps \cup {"none", "edit", "adjust"},
     pc : {"idle", "loaded", "attendance", "writing"},
     seen : Periods, emp : Employees, entry : Entries,
     entries : [Employees -> Entries], days : [Employees -> Nat],
     found : [Employees -> [Types -> BOOLEAN]], clean : SUBSET Employees]

VARIABLES
    period,  \* the row of payroll_periods
    entry,   \* [Employees -> Entries]
    days,    \* [Employees -> days that earn a shift allowance]
    input,   \* [Employees -> [Types -> Seq(amounts)]], ATTENDANCE_LOCK inputs
    call,    \* [Calls -> CallRecords]
    fresh    \* history: employees whose sources are as the last sync read them

vars == <<period, entry, days, input, call, fresh>>

NoInputs == [e \in Employees |-> [k \in Types |-> <<>>]]

Idle == [op |-> "none", pc |-> "idle", seen |-> NoPeriod,
         emp |-> CHOOSE e \in Employees : TRUE, entry |-> NoEntry,
         entries |-> [e \in Employees |-> NoEntry], days |-> [e \in Employees |-> 0],
         found |-> [e \in Employees |-> [k \in Types |-> FALSE]], clean |-> {}]

Init ==
    /\ period = NoPeriod
    /\ entry = [e \in Employees |-> NoEntry]
    /\ days = [e \in Employees |-> 0]
    /\ input = NoInputs
    /\ call = [c \in Calls |-> Idle]
    /\ fresh = {}

Written(loaded, new, current) == IF new = loaded THEN current ELSE new

-----------------------------------------------------------------------------
\* create_cycle, create_period: one period a month, by uq_period_company_month_year.
CreateCycle ==
    /\ period.status = "NONE"
    /\ period' = OpenPeriod
    /\ UNCHANGED <<entry, days, input, call, fresh>>

\* The status guards of the handlers, on the period as loaded.
MayStart(op, p) ==
    CASE op = "lock_cycle"        -> p.status = "OPEN"
      [] op = "lock_attendance"   -> ~p.attendance
      [] op = "unlock_attendance" -> p.attendance
      [] op = "reopen_cycle"      -> p.status = "LOCKED"
      [] op = "void_cycle"        -> TRUE
      [] op = "delete_cycle"      -> p.status = "OPEN"

LoadCycle(c, op) ==
    /\ call[c].pc = "idle"
    /\ period.status # "NONE" /\ MayStart(op, period)
    /\ call' = [call EXCEPT ![c] = [Idle EXCEPT !.op = op, !.pc = "loaded", !.seen = period]]
    /\ UNCHANGED <<period, entry, days, input, fresh>>

BugAssigned(op, p) ==
    CASE op = "lock_cycle"        -> [status |-> "LOCKED", locked |-> TRUE, attendance |-> TRUE]
      [] op = "lock_attendance"   -> [p EXCEPT !.attendance = TRUE]
      [] op = "unlock_attendance" -> [p EXCEPT !.attendance = FALSE]
      [] op = "reopen_cycle"      -> [p EXCEPT !.status = "OPEN", !.attendance = FALSE]
      [] OTHER                    -> [p EXCEPT !.status = "VOID"]

\* What the handler's assignments make of the loaded period.
Assigned(op, p) ==
    CASE op = "lock_cycle"        -> [status |-> "LOCKED", locked |-> TRUE, attendance |-> TRUE]
      [] op = "lock_attendance"   -> [p EXCEPT !.attendance = TRUE]
      [] op = "unlock_attendance" -> [p EXCEPT !.attendance = FALSE]
      [] op = "reopen_cycle"      -> OpenPeriod
      [] OTHER                    -> [p EXCEPT !.status = "VOID"]

Flushed(op, p) ==
    [status     |-> Written(p.status, Assigned(op, p).status, period.status),
     locked     |-> Written(p.locked, Assigned(op, p).locked, period.locked),
     attendance |-> Written(p.attendance, Assigned(op, p).attendance, period.attendance)]

\* The requests that hold the row of the period.
Syncing == {c \in Calls : call[c].pc \in {"attendance", "writing"}}

\* unlock_attendance, reopen_cycle and void_cycle.
ChangeCycle(c) ==
    /\ call[c].pc = "loaded"
    /\ call[c].op \in {"unlock_attendance", "reopen_cycle", "void_cycle"}
    /\ Syncing = {}
    /\ period' = Flushed(call[c].op, call[c].seen)
    /\ call' = [call EXCEPT ![c] = Idle]
    /\ UNCHANGED <<entry, days, input, fresh>>

\* delete_payroll_cycle: the inputs go with the period.  A request that has
\* loaded it can only fail from now on.
DeleteCycle(c) ==
    /\ call[c].pc = "loaded" /\ call[c].op = "delete_cycle"
    /\ Syncing = {}
    /\ period' = NoPeriod
    /\ input' = NoInputs
    /\ call' = [d \in Calls |-> IF call[d].op \in PeriodOps THEN Idle ELSE call[d]]
    /\ fresh' = {}
    /\ UNCHANGED <<entry, days>>

-----------------------------------------------------------------------------
BugLockFlushes(c) ==
    /\ call[c].pc = "loaded" /\ call[c].op \in LockOps
    /\ call' = [call EXCEPT ![c].pc = "attendance", ![c].entries = entry,
                            ![c].clean = Employees]
    /\ UNCHANGED <<period, entry, days, input, fresh>>

\* lock_cycle, lock_attendance: the flush of log_event takes the row, and
\* sync_on_attendance_lock reads the overtime entries ...
LockFlushes(c) ==
    /\ call[c].pc = "loaded" /\ call[c].op \in LockOps
    /\ Syncing = {}
    /\ call' = [call EXCEPT ![c].pc = "attendance", ![c].entries = entry,
                            ![c].clean = Employees]
    /\ UNCHANGED <<period, entry, days, input, fresh>>

\* ... then the attendance, then the inputs that are there.
SyncReadsAttendance(c) ==
    /\ call[c].pc = "attendance"
    /\ call' = [call EXCEPT ![c].pc = "writing", ![c].days = days,
                  ![c].found = [e \in Employees |-> [k \in Types |-> input[e][k] # <<>>]]]
    /\ UNCHANGED <<period, entry, days, input, fresh>>

\* OT_TYPES: what is already pushed is counted again.
Counts(n) == n.status \in {"APPROVED", "PUSHED"}

\* What an overtime entry and a number of days are worth.
Worth(k, n, d) == IF k = "SHIFT_ALLOWANCE" THEN d ELSE IF Counts(n) THEN n.hours ELSE 0

\* The employees in totals: the others' inputs are not looked at.
InTotals(n, d) == Counts(n) \/ d > 0

BugUpserted(rows, isFound, amount) ==
    IF amount = 0 THEN rows
    ELSE IF isFound THEN [rows EXCEPT ![1] = amount] ELSE Append(rows, amount)

\* _upsert, and the condition it is called under.
Upserted(rows, isFound, amount) ==
    CASE isFound                 -> [rows EXCEPT ![1] = amount]
      [] ~isFound /\ amount = 0  -> rows
      [] ~isFound /\ amount # 0  -> Append(rows, amount)

BugPushed(n, now) ==
    IF n.status = "APPROVED" /\ n.hours > 0 THEN [now EXCEPT !.status = "PUSHED"] ELSE now

\* An entry, once one that was read as n is marked.
Pushed(n, now) == IF n.status = "APPROVED" THEN [now EXCEPT !.status = "PUSHED"] ELSE now

\* The commit of lock_cycle and lock_attendance, with the inputs and with the
\* entries marked as pushed.
LockCommits(c) ==
    LET n == call[c].entries
        d == call[c].days
    IN  /\ call[c].pc = "writing"
        /\ period' = Flushed(call[c].op, call[c].seen)
        /\ input' = [e \in Employees |-> [k \in Types |->
                IF InTotals(n[e], d[e])
                THEN Upserted(input[e][k], call[c].found[e][k], Worth(k, n[e], d[e]))
                ELSE input[e][k]]]
        /\ entry' = [e \in Employees |-> Pushed(n[e], entry[e])]
        /\ fresh' = call[c].clean
        /\ call' = [call EXCEPT ![c] = Idle]
        /\ UNCHANGED days

-----------------------------------------------------------------------------
\* The calls f, once the sources of e have changed.
Touched(f, e) == [c \in Calls |-> [f[c] EXCEPT !.clean = @ \ {e}]]

\* create_ot_entry: one entry a month, by uq_ot_employee_period.
CreateOvertime(e, h) ==
    /\ entry[e].status = "NONE"
    /\ entry' = [entry EXCEPT ![e] = [status |-> "PENDING", hours |-> h]]
    /\ fresh' = fresh \ {e}
    /\ call' = Touched(call, e)
    /\ UNCHANGED <<period, days, input>>

\* adjust_ot_entry, which is also the approval, loads the entry ...
AdjustLoads(c, e) ==
    /\ call[c].pc = "idle" /\ entry[e].status # "NONE"
    /\ call' = [call EXCEPT ![c] = [Idle EXCEPT !.op = "adjust", !.pc = "loaded",
                                                !.emp = e, !.entry = entry[e]]]
    /\ UNCHANGED <<period, entry, days, input, fresh>>

\* ... and commits.  adjusted_hours is empty until the first adjustment.
AdjustCommits(c, h) ==
    LET e      == call[c].emp
        loaded == call[c].entry
    IN  /\ call[c].op = "adjust"
        /\ entry' = [entry EXCEPT ![e] =
              [status |-> Written(loaded.status, "APPROVED", @.status),
               hours  |-> IF loaded.status = "PENDING" THEN h
                          ELSE Written(loaded.hours, h, @.hours)]]
        /\ fresh' = fresh \ {e}
        /\ call' = Touched([call EXCEPT ![c] = Idle], e)
        /\ UNCHANGED <<period, days, input>>

\* A check-in of a day the employee had no row for; no period is looked at.
\* A correction that makes a day count does the same, under a guard.
Attend(e) ==
    /\ days[e] < MaxDays
    /\ days' = [days EXCEPT ![e] = @ + 1]
    /\ fresh' = fresh \ {e}
    /\ call' = Touched(call, e)
    /\ UNCHANGED <<period, entry, input>>

\* assert_attendance_period_editable.
Editable == ~period.attendance /\ ~period.locked /\ period.status # "LOCKED"

\* update_attendance and delete_attendance check the period ...
EditChecks(c, e) ==
    /\ call[c].pc = "idle" /\ days[e] > 0 /\ Editable
    /\ call' = [call EXCEPT ![c] = [Idle EXCEPT !.op = "edit", !.pc = "loaded", !.emp = e]]
    /\ UNCHANGED <<period, entry, days, input, fresh>>

\* ... and commit: the day is deleted or no longer counts.
EditCommits(c) ==
    LET e == call[c].emp
    IN  /\ call[c].op = "edit" /\ days[e] > 0
        /\ days' = [days EXCEPT ![e] = @ - 1]
        /\ fresh' = fresh \ {e}
        /\ call' = Touched([call EXCEPT ![c] = Idle], e)
        /\ UNCHANGED <<period, entry, input>>

\* An error, or a lost connection.
Rollback(c) ==
    /\ call[c].pc # "idle"
    /\ call' = [call EXCEPT ![c] = Idle]
    /\ UNCHANGED <<period, entry, days, input, fresh>>

Next ==
    \/ CreateCycle
    \/ \E c \in Calls :
         \/ \E op \in PeriodOps : LoadCycle(c, op)
         \/ ChangeCycle(c) \/ DeleteCycle(c)
         \/ LockFlushes(c) \/ SyncReadsAttendance(c) \/ LockCommits(c)
         \/ \E e \in Employees : AdjustLoads(c, e) \/ EditChecks(c, e)
         \/ \E h \in Hours : AdjustCommits(c, h)
         \/ EditCommits(c) \/ Rollback(c)
    \/ \E e \in Employees : Attend(e) \/ \E h \in Hours : CreateOvertime(e, h)

Spec == Init /\ [][Next]_vars

-----------------------------------------------------------------------------
\* Every variable keeps its type.
TypeOK ==
    /\ period \in Periods
    /\ entry \in [Employees -> Entries]
    /\ days \in [Employees -> Nat]
    /\ input \in [Employees -> [Types -> Seq(Nat)]]
    /\ call \in [Calls -> CallRecords]
    /\ fresh \subseteq Employees

\* Each employee has one system-owned input of a type at most, although two
\* administrators may lock at once and no key forbids a second row: every
\* input is paid, so a second row would be paid as well.
OneRowPerInput ==
    \A e \in Employees, k \in Types : Len(input[e][k]) <= 1

\* What the payroll pays of a type is what the employee's overtime and days
\* are worth, however often the period was locked, unlocked, reopened or made
\* anew, as long as the sources are those the last lock read.  An employee with
\* no source left is not in totals and keeps the old inputs.
InputsFollowSources ==
    \A e \in fresh, k \in Types :
        LET worth == Worth(k, entry[e], days[e])
        IN  InTotals(entry[e], days[e]) =>
              input[e][k] \in {<<worth>>} \cup (IF worth = 0 THEN {<<>>} ELSE {})

\* An overtime entry that is still APPROVED was approved after the last lock
\* read the entries: no lock leaves one behind.
NothingLeftToPush == \A e \in fresh : entry[e].status # "APPROVED"

\* is_locked and the status agree, whichever stale periods are written back:
\* the attendance guard, the calendar and lock_cycle look at different ones.
FlagsAgree ==
    /\ period.status = "LOCKED" => period.locked
    /\ period.status \in {"NONE", "OPEN"} => ~period.locked

=============================================================================
