--------------------------- MODULE MCPaymentBatch ---------------------------
(***************************************************************************)
(* PaymentBatch for TLC: a payout, its re-payout, and one batch more.      *)
(***************************************************************************)
EXTENDS PaymentBatch, TLC

CONSTANTS b1, b2, b3, e1, e2, maker, checker, u1, u2, c1, c2

Names == Permutations({b1, b2, b3}) \cup Permutations({e1, e2})
            \cup Permutations({maker, checker}) \cup Permutations({u1, u2})

============================================================================
