------------------------------ MODULE MCLeave ------------------------------
(***************************************************************************)
(* Small instances of Leave for TLC: one leave type of two days a year,    *)
(* days 1 and 2 of one year and payroll period, day 3 of the next.         *)
(***************************************************************************)
EXTENDS Leave, TLC

CONSTANTS r1, r2, r3, t1, t2, sick

MCLeaveTypes == {sick}
MCTotalDays  == (sick :> 2)
MCDates      == 1 .. 3
OneYear      == 1 .. 2
MCYearOf     == <<1, 1, 2>>
MCPeriodOf   == <<1, 1, 2>>
MCDeadline   == <<2, 3>>
MCUsers      == {"employee", "manager", "hr"}
MCRoleOf     == [u \in MCUsers |-> IF u = "hr" THEN "hr_admin" ELSE u]
MCManagers   == {"manager"}

\* Rows and transactions are interchangeable.
Rows          == Permutations({r1, r2}) \cup Permutations({t1, t2})
RowsOneByOne  == Permutations({r1, r2, r3})

============================================================================
