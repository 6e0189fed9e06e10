--------------------------- MODULE MCPeriodInputs ---------------------------
(***************************************************************************)
(* PeriodInputs for TLC.                                                   *)
(***************************************************************************)
EXTENDS PeriodInputs

CONSTANTS e1, c1, c2

MCHours == 0 .. 1

=============================================================================
