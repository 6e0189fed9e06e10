---------------------------- MODULE MCAttendance ----------------------------
(***************************************************************************)
(* Attendance for TLC: days of three ticks, a shift from tick 1 of a day   *)
(* to midnight at its end (so a punch at midnight belongs to the day       *)
(* before), no work on day -1, and a payroll period open on day 0 only.    *)
(***************************************************************************)
EXTENDS Attendance

MCOffDates    == {-1}
MCLockedDates == {-1, 1, 2}
MCEditTimes   == {2}

=============================================================================
