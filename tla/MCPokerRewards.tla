---------------------------- MODULE MCPokerRewards ----------------------------
EXTENDS PokerRewards, TLC
MCUnit == [m \in Miners |-> m]
\* Two projections of one tournament that disagree about the winner.  The second has
\* one row: saved after the first it leaves two winners, and is refused.
MCProjections == {[id |-> 1, tournament |-> "t1", ranks |-> (1 :> 2 @@ 2 :> 1)],
                  [id |-> 2, tournament |-> "t1", ranks |-> (1 :> 1)]}
\* One legacy result, of the miner that the second projection puts first.
MCLegacy == {[id |-> 2, tournament |-> "t1", ranks |-> (1 :> 1)]}
MCHidden == (1 :> {0}) @@ (2 :> {1})
MCCovers == [w \in Windows |-> {"t1"}]
MCPool == [w \in Windows |-> IF w = "daily" THEN 3 ELSE 4]
\* Admins ask for the daily window only, for a part of its pool.
MCRequested == [w \in Windows |-> IF w = "daily" THEN {2} ELSE {}]
=============================================================================
