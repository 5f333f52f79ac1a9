------------------------- MODULE MCReputationLedger -------------------------
(* A small instance of the chain with its reputation ledger. *)
EXTENDS ReputationLedger
CONSTANTS b1, b2, j1, j2, s1, s2, r1, r2, m1, m2, c1, c2, d1, d2
ChangeAmounts == {-3, 1, 7}
==============================================================================
