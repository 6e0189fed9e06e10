----------------------------- MODULE Attendance -----------------------------
(***************************************************************************)
(* Attendance rows and break rows of one employee.                         *)
(*                                                                         *)
(* Code: app/attendance/services/{checkin,checkout,break,shift,validation} *)
(* _service.py, app/attendance/repositories/attendance_repository.py and   *)
(* app/services/core_modules/attendance_service.py, which writes the same  *)
(* table from routes of its own.                                           *)
(*                                                                         *)
(* A face request reads, then verifies the face and the place (slow), then *)
(* writes and commits: two actions, between which the clock moves and HR   *)
(* may edit or delete the row it has loaded.  The core routes and the HR   *)
(* routes do no such work and are one action each.  The employee's client  *)
(* sends one request at a time.  A request that only answers an error      *)
(* changes nothing and is left out, unless the error is unhandled (500).   *)
(*                                                                         *)
(* Time is counted in ticks from midnight of day 0; the server's date and  *)
(* the company's date are taken to be the same.                            *)
(***************************************************************************)
EXTENDS Integers, FiniteSets, FiniteSetsExt

CONSTANTS
    DayLength,    \* ticks in a day
    MaxClock,     \* bound: the last tick
    MaxBreaks,    \* bound: break rows that exist at one time
    MaxEdits,     \* bound: how often HR edits or deletes a row
    ShiftStart,   \* start_dt of the employee's shift, ticks after midnight
    ShiftEnd,     \* end_dt; beyond DayLength for an overnight shift
    EarlyWindow,  \* EARLY_CHECKIN_WINDOW_MINS
    PostWindow,   \* POST_SHIFT_WINDOW_MINS
    MaxShift,     \* MAX_SHIFT_HOURS
    ShiftBreak,   \* break_duration_mins configured in the shift
    AutoBreakMin, \* ATTENDANCE_AUTO_BREAK_MIN_GROSS_HOURS
    OffDates,     \* dates on which the shift is off or a holiday falls
    LockedDates,  \* dates in a payroll period that is closed for attendance
    EditTimes     \* times HR enters by hand

ASSUME TimeAssumption ==
    /\ DayLength \in Nat \ {0} /\ MaxClock \in Nat /\ MaxBreaks \in Nat /\ MaxEdits \in Nat
    /\ ShiftStart \in Nat /\ ShiftEnd \in Nat /\ ShiftStart <= ShiftEnd
    /\ EarlyWindow \in Nat /\ PostWindow \in Nat /\ MaxShift \in Nat
    /\ ShiftBreak \in Nat /\ AutoBreakMin \in Nat
    /\ EditTimes \subseteq Nat

DateOf(t) == t \div DayLength

Times    == 0 .. MaxClock
Dates    == -1 .. DateOf(MaxClock) + 1
BreakIds == 1 .. MaxBreaks

\* A row of attendances.  snapshot: scheduled_start and scheduled_end are set.
\* edited: HR has corrected the row (history: a later check-out may write other
\* notes over "Edited by").
Rows == [state : {"absent", "open", "closed"}, in : Nat, out : Nat,
         snapshot : BOOLEAN, punch : {"IN", "OUT"}, edited : BOOLEAN]

NoRow == [state |-> "absent", in |-> 0, out |-> 0, snapshot |-> FALSE,
          punch |-> "IN", edited |-> FALSE]

NewRow(in, snapshot) ==
    [NoRow EXCEPT !.state = "open", !.in = in, !.snapshot = snapshot]

\* A row of attendance_breaks.
Breaks == [status : {"NONE", "ACTIVE", "COMPLETED"}, date : Dates,
           start : Nat, duration : Int]

NoBreak == [status |-> "NONE", date |-> 0, start |-> 0, duration |-> 0]

\* The request in progress: what it has read.  t is the time of a check-in,
\* or the check_in_time a check-out has loaded.
Requests == [op : {"none", "checkin", "checkout", "start", "end", "failed"},
             date : Dates, t : Nat, brk : 0 .. MaxBreaks]

Idle == [op |-> "none", date |-> 0, t |-> 0, brk |-> 0]

VARIABLES
    clock,   \* now
    rec,     \* [Dates -> Rows], unique by uq_employee_date_attendance
    brk,     \* [Dates -> Int], break_duration of the row
    hours,   \* [Dates -> Int], working_hours of the row
    breaks,  \* [BreakIds -> Breaks]
    edits,   \* how often HR has edited or deleted a row
    req      \* the employee's request

vars == <<clock, rec, brk, hours, breaks, edits, req>>

Init ==
    /\ clock = 0
    /\ rec = [d \in Dates |-> NoRow]
    /\ brk = [d \in Dates |-> 0]
    /\ hours = [d \in Dates |-> 0]
    /\ breaks = [b \in BreakIds |-> NoBreak]
    /\ edits = 0
    /\ req = Idle

-----------------------------------------------------------------------------
\* The business date of a punch: the first of yesterday, today and tomorrow
\* whose shift window it falls in; if there is none, the date on which it is
\* looked for, which is after the face was verified.
InWindow(t, d) ==
    /\ d * DayLength + ShiftStart - EarlyWindow <= t
    /\ t <= d * DayLength + ShiftEnd + PostWindow

BusinessDate(t) ==
    LET hits == {d \in DateOf(t) - 1 .. DateOf(t) + 1 : InWindow(t, d)}
    IN  IF hits = {} THEN DateOf(clock)
        ELSE CHOOSE d \in hits : \A e \in hits : d <= e

Open == {d \in Dates : rec[d].state = "open"}

BugActiveSession == {d \in Open : d = DateOf(clock)}

\* get_active_session: the open row with the latest check_in_time.
ActiveSession == {d \in Open : \A e \in Open : rec[e].in <= rec[d].in}

Stale(d) ==
    \/ DateOf(rec[d].in) < DateOf(clock)
    \/ clock - rec[d].in > MaxShift

BreaksOf(d) == {b \in BreakIds : breaks[b].status # "NONE" /\ breaks[b].date = d}

ActiveBreaks(d) == {b \in BreaksOf(d) : breaks[b].status = "ACTIVE"}

BugWorkedHours(d, in, out, logged) == Max({0, out - in})

\* evaluate_checkout.  The snapshot a face check-in leaves carries the breaks
\* taken instead of the shift's configured break.
WorkedHours(d, in, out, logged) ==
    LET gross   == Max({0, out - in})
        off     == (IF rec[d].snapshot THEN d ELSE BusinessDate(in)) \in OffDates
        allowed == IF logged > 0 THEN logged
                   ELSE IF gross >= AutoBreakMin /\ ~rec[d].snapshot
                        THEN ShiftBreak ELSE 0
    IN  IF off THEN gross ELSE Max({0, gross - allowed})

\* The sum of the durations of breaks, as the number of their ticks.  (A break
\* never ends before it starts, so that no duration is negative.)
TicksOf(B) ==
    {x \in B \X Times : /\ breaks[x[1]].start <= x[2]
                        /\ x[2] < breaks[x[1]].start + breaks[x[1]].duration}

SumOfDurations(B) == Cardinality(TicksOf(B))

\* The ended break is also among the rows that are summed, after it is ended.
BugBreakTotal(d, b) == SumOfDurations(BreaksOf(d) \ {b}) + 2 * (clock - breaks[b].start)

\* The duration of d's breaks once b has lasted to now.
BreakTotal(d, b) == SumOfDurations(BreaksOf(d) \ {b}) + (clock - breaks[b].start)

Ended(b) == [breaks[b] EXCEPT !.status = "COMPLETED",
                              !.duration = clock - breaks[b].start]

-----------------------------------------------------------------------------
BugCheckInBegin ==
    /\ req.op = "none"
    /\ \A d \in Open : Stale(d)
    /\ rec[DateOf(clock)].state = "absent"
    /\ req' = [Idle EXCEPT !.op = "checkin", !.t = clock]
    /\ UNCHANGED <<clock, rec, brk, hours, breaks, edits>>

\* POST /attendance/checkin.  The one-row-a-day check looks at the calendar
\* date, the row is inserted under the business date.
CheckInBegin ==
    /\ req.op = "none"
    /\ Open = {}
    /\ rec[DateOf(clock)].state = "absent"
    /\ req' = [Idle EXCEPT !.op = "checkin", !.t = clock]
    /\ UNCHANGED <<clock, rec, brk, hours, breaks, edits>>

\* auto_close_stale_session evaluates datetime.now(timezone.utc) without
\* importing timezone: the NameError ends the request and the row stays open.
CheckInFindsStale ==
    /\ req.op = "none"
    /\ \E d \in ActiveSession : Stale(d)
    /\ req' = [Idle EXCEPT !.op = "failed"]
    /\ UNCHANGED <<clock, rec, brk, hours, breaks, edits>>

CheckInCommit ==
    LET d == BusinessDate(req.t)
    IN  /\ req.op = "checkin"
        /\ IF rec[d].state = "absent"
           THEN /\ rec' = [rec EXCEPT ![d] = NewRow(req.t, TRUE)]
                /\ brk' = [brk EXCEPT ![d] = 0]
                /\ hours' = [hours EXCEPT ![d] = 0]
           ELSE UNCHANGED <<rec, brk, hours>>
        /\ req' = Idle
        /\ UNCHANGED <<clock, breaks, edits>>

\* POST /attendance/checkout.
CheckOutBegin ==
    /\ req.op = "none"
    /\ \E d \in ActiveSession :
          req' = [Idle EXCEPT !.op = "checkout", !.date = d, !.t = rec[d].in]
    /\ UNCHANGED <<clock, rec, brk, hours, breaks, edits>>

\* scalar_one_or_none raises when two breaks are active.
CheckOutCommit ==
    LET d      == req.date
        active == ActiveBreaks(d)
    IN  /\ req.op = "checkout"
        /\ rec[d].state # "absent" /\ Cardinality(active) <= 1
        /\ brk' = [brk EXCEPT ![d] = IF active = {} THEN @
                       ELSE BreakTotal(d, CHOOSE b \in active : TRUE)]
        /\ breaks' = [b \in BreakIds |-> IF b \in active THEN Ended(b) ELSE breaks[b]]
        /\ hours' = [hours EXCEPT ![d] = WorkedHours(d, req.t, clock, brk'[d])]
        /\ rec' = [rec EXCEPT ![d].state = "closed", ![d].out = clock]
        /\ req' = Idle
        /\ UNCHANGED <<clock, edits>>

BugStartBreakBegin ==
    LET d == DateOf(clock)
    IN  /\ req.op = "none"
        /\ rec[d].state = "open"
        /\ req' = [Idle EXCEPT !.op = "start", !.date = d]
        /\ UNCHANGED <<clock, rec, brk, hours, breaks, edits>>

\* POST /attendance/break/start.  The row is looked up by date.today().
StartBreakBegin ==
    LET d == DateOf(clock)
    IN  /\ req.op = "none"
        /\ rec[d].state = "open"
        /\ ActiveBreaks(d) = {}
        /\ req' = [Idle EXCEPT !.op = "start", !.date = d]
        /\ UNCHANGED <<clock, rec, brk, hours, breaks, edits>>

StartBreakCommit ==
    /\ req.op = "start"
    /\ rec[req.date].state # "absent"
    /\ \E b \in BreakIds :
          /\ breaks[b].status = "NONE"
          /\ \A c \in 1 .. b - 1 : breaks[c].status # "NONE"
          /\ breaks' = [breaks EXCEPT ![b] = [status |-> "ACTIVE", date |-> req.date,
                                              start |-> clock, duration |-> 0]]
    /\ req' = Idle
    /\ UNCHANGED <<clock, rec, brk, hours, edits>>

\* POST /attendance/break/end.
EndBreakBegin ==
    LET d == DateOf(clock)
    IN  /\ req.op = "none"
        /\ rec[d].state = "open"
        /\ Cardinality(ActiveBreaks(d)) = 1
        /\ \E b \in ActiveBreaks(d) :
              req' = [Idle EXCEPT !.op = "end", !.date = d, !.brk = b]
        /\ UNCHANGED <<clock, rec, brk, hours, breaks, edits>>

EndBreakCommit ==
    /\ req.op = "end"
    /\ rec[req.date].state # "absent"
    /\ brk' = [brk EXCEPT ![req.date] = BreakTotal(req.date, req.brk)]
    /\ breaks' = [breaks EXCEPT ![req.brk] = Ended(req.brk)]
    /\ req' = Idle
    /\ UNCHANGED <<clock, rec, hours, edits>>

\* The face or the place is refused, or the process dies before the commit, or
\* the unhandled error has been answered.
RequestRefused ==
    /\ req.op # "none"
    /\ req' = Idle
    /\ UNCHANGED <<clock, rec, brk, hours, breaks, edits>>

\* The row was deleted after the request had loaded it: its UPDATE matches no
\* row, or its break has no parent.
RowHasGone ==
    /\ req.op \in {"checkout", "start", "end"}
    /\ rec[req.date].state = "absent"
    /\ req' = [Idle EXCEPT !.op = "failed"]
    /\ UNCHANGED <<clock, rec, brk, hours, breaks, edits>>

-----------------------------------------------------------------------------
\* POST /attendance/check-in and /attendance/face/check-in: today's row is
\* returned if it exists; no other day is looked at.
CoreCheckIn ==
    LET d == DateOf(clock)
    IN  /\ req.op = "none"
        /\ rec[d].state = "absent"
        /\ rec' = [rec EXCEPT ![d] = NewRow(clock, FALSE)]
        /\ brk' = [brk EXCEPT ![d] = 0]
        /\ hours' = [hours EXCEPT ![d] = 0]
        /\ UNCHANGED <<clock, breaks, req, edits>>

\* POST /attendance/check-out: also closes what is closed, and what was never
\* opened.  Breaks are not looked at.
CoreCheckOut ==
    LET d  == DateOf(clock)
        in == IF rec[d].state = "absent" THEN clock ELSE rec[d].in
        r  == IF rec[d].state = "absent" THEN NewRow(clock, FALSE) ELSE rec[d]
    IN  /\ req.op = "none"
        /\ rec' = [rec EXCEPT ![d] = [r EXCEPT !.state = "closed", !.out = clock,
                                              !.punch = "OUT"]]
        /\ hours' = [hours EXCEPT ![d] = clock - in]
        /\ brk' = [brk EXCEPT ![d] = IF rec[d].state = "absent" THEN 0 ELSE @]
        /\ UNCHANGED <<clock, breaks, req, edits>>

\* PUT /attendance/{id}: check-in, check-out or both are overwritten.
UpdateAttendance(d) ==
    /\ rec[d].state # "absent" /\ d \notin LockedDates
    /\ edits < MaxEdits /\ edits' = edits + 1
    /\ \E in \in EditTimes \cup {rec[d].in} :
          \/ /\ rec' = [rec EXCEPT ![d].in = in, ![d].edited = TRUE]
             /\ UNCHANGED hours
          \/ \E out \in EditTimes :
               /\ rec' = [rec EXCEPT ![d].state = "closed", ![d].in = in,
                                     ![d].out = out, ![d].edited = TRUE]
               /\ hours' = [hours EXCEPT ![d] = out - in]
    /\ UNCHANGED <<clock, brk, breaks, req>>

BugDeleteAttendance(d) ==
    /\ rec[d].state # "absent" /\ d \notin LockedDates
    /\ edits < MaxEdits /\ edits' = edits + 1
    /\ rec' = [rec EXCEPT ![d] = NoRow]
    /\ brk' = [brk EXCEPT ![d] = 0]
    /\ hours' = [hours EXCEPT ![d] = 0]
    /\ UNCHANGED <<clock, breaks, req>>

BugDeletedRow(d) ==
    /\ rec[d].state # "absent" /\ d \notin LockedDates
    /\ edits < MaxEdits /\ edits' = edits + 1
    /\ rec' = [rec EXCEPT ![d].state = "deleted"]
    /\ UNCHANGED <<clock, brk, hours, breaks, req>>

\* DELETE /attendance/{id}: the breaks go with the row.
DeleteAttendance(d) ==
    /\ rec[d].state # "absent" /\ d \notin LockedDates
    /\ edits < MaxEdits /\ edits' = edits + 1
    /\ rec' = [rec EXCEPT ![d] = NoRow]
    /\ brk' = [brk EXCEPT ![d] = 0]
    /\ hours' = [hours EXCEPT ![d] = 0]
    /\ breaks' = [b \in BreakIds |-> IF b \in BreaksOf(d) THEN NoBreak ELSE breaks[b]]
    /\ UNCHANGED <<clock, req>>

Tick ==
    /\ clock < MaxClock
    /\ clock' = clock + 1
    /\ UNCHANGED <<rec, brk, hours, breaks, req, edits>>

Next ==
    \/ CheckInBegin \/ CheckInFindsStale \/ CheckInCommit
    \/ CheckOutBegin \/ CheckOutCommit
    \/ StartBreakBegin \/ StartBreakCommit
    \/ EndBreakBegin \/ EndBreakCommit
    \/ RequestRefused \/ RowHasGone
    \/ CoreCheckIn \/ CoreCheckOut
    \/ \E d \in Dates : UpdateAttendance(d) \/ DeleteAttendance(d)
    \/ Tick

\* Every request is answered; the employee keeps asking to check out, and is
\* recognised in the end.
Fairness ==
    /\ WF_vars(RequestRefused)
    /\ SF_vars(CheckOutBegin) /\ SF_vars(CheckOutCommit)

Spec == Init /\ [][Next]_vars /\ Fairness

-----------------------------------------------------------------------------
\* Every variable keeps its type: rows and breaks refer to known dates.
TypeOK ==
    /\ clock \in Times
    /\ rec \in [Dates -> Rows]
    /\ brk \in [Dates -> Int]
    /\ hours \in [Dates -> Int]
    /\ breaks \in [BreakIds -> Breaks]
    /\ edits \in 0 .. MaxEdits
    /\ req \in Requests /\ (req.op = "checkin" => req.t \in Times)

\* What a row says of its day is the employee's own: opened and closed by the
\* face routes, not corrected by HR since.
Untouched(d) == rec[d].punch = "IN" /\ ~rec[d].edited

\* A row never has two active breaks.  With two, scalar_one_or_none raises in
\* start_break, end_break and check_out alike, and the employee could neither
\* end a break nor go home.
OneActiveBreak == \A d \in Dates : Cardinality(ActiveBreaks(d)) <= 1

\* break_duration is the sum of the durations in attendance_breaks, which
\* end_break and check_out both add up by hand around the row they end.
BreaksAddUp ==
    \A d \in Dates : brk[d] = SumOfDurations(BreaksOf(d))

\* Breaks lie inside the session: none starts before the check-in, and a row
\* that check_out has closed has neither an active break nor one that ended
\* later.
BreaksWithinSession ==
    \A d \in Dates : Untouched(d) => \A b \in BreaksOf(d) :
        /\ rec[d].in <= breaks[b].start
        /\ rec[d].state = "closed" =>
             /\ breaks[b].status = "COMPLETED"
             /\ breaks[b].start + breaks[b].duration <= rec[d].out

\* Of a session that the face routes opened and closed, hours worked and hours
\* of break make up the time between the punches: breaks never overlap, and
\* none is charged twice or lost.
HoursAddUp ==
    \A d \in Dates \ OffDates :
        rec[d].state = "closed" /\ rec[d].snapshot /\ Untouched(d)
            => hours[d] + brk[d] = rec[d].out - rec[d].in

\* A face check-in opens a session only when no other is open, whatever HR and
\* the clock do between its checks and its insert.
OpensAlone ==
    [][\A d \in Dates :
          rec[d].state = "absent" /\ rec'[d].state = "open" /\ rec'[d].snapshot
              => Open = {}]_vars

\* An open session, of whatever day, comes to an end while its employee keeps
\* asking to check out.
SessionsEnd == \A d \in Dates : rec[d].state = "open" ~> rec[d].state # "open"

=============================================================================
