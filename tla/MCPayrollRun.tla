--------------------------- MODULE MCPayrollRun ---------------------------
(***************************************************************************)
(* Small instances of PayrollRun for TLC: up to two periods, two users who *)
(* calculate and approve, two calls at once, one unassigned arrear.        *)
(***************************************************************************)
EXTENDS PayrollRun, TLC

CONSTANTS jan, feb, u1, u2, a1, s1, s2

MCTargetOf == [a \in Arrears |-> NoPeriod]

SameUsers == Permutations({u1, u2})

\* Sound because the arrear has no target period.
SamePeriods == Permutations({jan, feb})

============================================================================
