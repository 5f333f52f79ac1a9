-------------------------- MODULE MCChainMining --------------------------
(* Four registered miners that answer, a fifth that joins, and two         *)
(* requests at once.                                                       *)
EXTENDS ChainMining, TLC
CONSTANTS m1, m2, m3, m4, m5
FirstFour == <<m1, m2, m3, m4>>
Rich == [m \in Miners |-> 1]
Opinions == (m1 :> {"x"}) @@ (m2 :> {"y"}) @@ (m3 :> {"z"}) @@ (m4 :> {"x"}) @@ (m5 :> {})
Limits == <<1, 2, 3>>
=============================================================================
