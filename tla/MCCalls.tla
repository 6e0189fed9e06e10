------------------------------ MODULE MCCalls ------------------------------
(***************************************************************************)
(* Calls for TLC: two workers, and a device of each user on one of them.   *)
(* The other worker serves requests all the same.  Its devices would be    *)
(* the same over again: no property relates devices of two workers.        *)
(***************************************************************************)
EXTENDS Calls

CONSTANTS s1, s2, w1, w2, r1, r2

MCOwnerOf == [s \in Sockets |-> IF s = s1 THEN "caller" ELSE "callee"]

MCWorkerOf == [s \in Sockets |-> w1]

=============================================================================
