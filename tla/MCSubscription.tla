--------------------------- MODULE MCSubscription ---------------------------
(***************************************************************************)
(* Subscription for TLC: an order with two attempts to pay it.             *)
(***************************************************************************)
EXTENDS Subscription

CONSTANTS o1, p1, p2, r1, r2

MCOrderOf == [p \in Payments |-> o1]

=============================================================================
