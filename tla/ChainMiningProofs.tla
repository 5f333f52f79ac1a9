--------------------------- MODULE ChainMiningProofs ---------------------------
(***************************************************************************)
(* Proofs about ChainMining, for any miners, answers, handlers and blocks,  *)
(* with handlers and blocks overwriting each other's rows as they like.     *)
(*                                                                          *)
(* Both results come from what a handler still knows about the row it read: *)
(* every answer in it was taken in at some time, so that votes counted on   *)
(* an old row are votes all the same, and what it says of a miner's rewards *)
(* was covered when it was read and stays covered, as the bank only pays.   *)
(***************************************************************************)
EXTENDS ChainMining, FiniteSums

Choice    == Answers \cup {None}
Challenge == [status : {"pending", "commit", "reveal", "complete", "expired"},
              created : Nat, siblings : Nat \ {0},
              commits : [Miners -> Choice], reveals : [Miners -> Choice]]
MinerRow  == [completed : Nat, rewards : Nat, index : Nat]
Record    == [height : Nat, epoch : Epochs, miner : Miners, amount : Nat]

\* The places of a handler that has counted the votes, that has a challenge row in
\* hand, and that has a miner's row in hand.
VotePCs == {"credit", "creditRow", "penalizeRow"}
RowPCs  == {"store"} \cup VotePCs
MinePCs == {"creditRow", "penalizeRow", "count", "register"}

Process == [pc : {"idle", "count", "register"} \cup RowPCs, epoch : Epochs \cup {None},
            row : Challenge \cup {None}, miner : Miners \cup {None},
            mrow : MinerRow \cup {None}, height : Nat,
            winners : SUBSET Miners, losers : SUBSET Miners]
Block == [number : Nat, paid : SUBSET Record, rows : [Miners -> MinerRow \cup {None}]]

TypeOK ==
    /\ height \in Nat
    /\ miner \in [Miners -> MinerRow \cup {None}]
    /\ regCount \in Nat
    /\ challenge \in [Epochs -> Challenge \cup {None}]
    /\ pending \in SUBSET Record
    /\ IsFiniteSet(pending)
    /\ pool \in Nat
    /\ balance \in [Miners -> Nat]
    /\ block \in Block \cup {None}
    /\ block # None => IsFiniteSet(block.paid)
    /\ proc \in [Handlers -> Process]
    /\ requests \in Nat

\* Every answer in a row of epoch e was taken in, where S is what was.
RowBacked(S, e, row) ==
    \A m \in Miners : row.reveals[m] # None => <<e, m, row.reveals[m]>> \in S

\* The votes of a handler: its winners gave one answer, a majority.
Majority(p) ==
    \E a \in Answers : /\ p.winners \subseteq VotersFor(p.row, a)
                       /\ Dev \/ Cardinality(VotersFor(p.row, a)) >= 2

VotesBacked(S, p) ==
    /\ p.pc \in RowPCs => /\ p.epoch \in Epochs /\ p.row \in Challenge
                          /\ RowBacked(S, p.epoch, p.row)
    /\ p.pc \in VotePCs => /\ Majority(p)
                           /\ p.losers \subseteq Revealed(p.row)

\* A reward record with a majority behind it.
RecordBacked(S, r) ==
    \E a \in Answers : /\ <<r.epoch, r.miner, a>> \in S
                       /\ Dev \/ \E m \in Miners \ {r.miner} : <<r.epoch, m, a>> \in S

\* What the bank has paid a miner, where b has the balances.
Received(b, m) == b[m] - Endowment[m]

\* A row that claims no more than that.
Covered(b, m, row) == row \in MinerRow /\ row.rewards <= Received(b, m)

\* Whoever answered is registered.
Known == \A t \in submitted : Covered(balance, t[2], miner[t[2]])

\* A miner's row in a handler's hands.
RowCovered(b, p) ==
    p.pc \in MinePCs => p.miner \in Miners /\ Covered(b, p.miner, p.mrow)

\* What a running block is going to write: it pays what it counts.
BlockCovered ==
    block # None /\ block # Written =>
        /\ block.number > 0
        /\ Total(block.paid) <= pool
        /\ \A m \in Miners : block.rows[m] # None =>
              block.rows[m].rewards
                  <= Received(balance, m) + Total({p \in block.paid : p.miner = m})

MiningInv ==
    /\ TypeOK
    /\ submitted \in SUBSET (Epochs \X Miners \X Answers)
    /\ \A e \in Epochs : challenge[e] # None => RowBacked(submitted, e, challenge[e])
    /\ \A h \in Handlers : VotesBacked(submitted, proc[h])
    /\ Known
    /\ \A r \in pending : RecordBacked(submitted, r)
    /\ \A m \in Miners : Received(balance, m) >= 0
    /\ \A m \in Miners : miner[m] # None => Covered(balance, m, miner[m])
    /\ \A h \in Handlers : RowCovered(balance, proc[h])
    /\ BlockCovered

-----------------------------------------------------------------------------
(* Amounts are naturals. *)

\* A set of naturals that is not empty has a smallest element.
LEMMA LeastNatural ==
  ASSUME NEW T, T \subseteq Nat, T # {}
  PROVE  \E n \in T : \A k \in T : n <= k
<1> DEFINE R == {ss \in Nat \X Nat : ss[1] < ss[2]}
<1>1. IsWellFoundedOn(R, Nat)
  BY NatLessThanWellFounded DEF OpToRel
<1>2. PICK n \in T : \A k \in T : ~ (<<k, n>> \in R)
  <2> HIDE DEF R
  <2> QED
    BY <1>1, WFMin
<1>3. \A k \in T : n \in Nat /\ k \in Nat /\ ~ (k < n)
  BY <1>2
<1> QED
  BY <1>3

\* The larger of two naturals.
LEMMA MaxIsNatural ==
  ASSUME NEW a \in Nat, NEW b \in Nat
  PROVE  Max({a, b}) \in {a, b} /\ Max({a, b}) >= a
<1>1. \E x \in {a, b} : \A y \in {a, b} : x >= y
  OBVIOUS
<1> QED
  BY <1>1 DEF Max

\* The smaller of two naturals.
LEMMA MinIsNatural ==
  ASSUME NEW a \in Nat, NEW b \in Nat
  PROVE  Min({a, b}) \in {a, b}
<1>1. \E x \in {a, b} : \A y \in {a, b} : x =< y
  OBVIOUS
<1> QED
  BY <1>1 DEF Min

Halved(x) == Max({1, x \div 2})

\* Halving a positive reward leaves a positive one.
LEMMA HalvedIsPositive ==
  ASSUME NEW x \in Nat \ {0}
  PROVE  Halved(x) \in Nat \ {0}
<1>1. x \div 2 \in Nat
  OBVIOUS
<1> QED
  BY <1>1, MaxIsNatural DEF Halved

\* The rewards up to the n-th halving.
Halvings(n, g) ==
    /\ g \in [0..n -> Nat \ {0}]
    /\ g[0] = InitialMinerPool
    /\ \A k \in 1..n : g[k] = Halved(g[k - 1])

\* Two lists of halvings agree as far as both go.
LEMMA HalvingsAgree ==
  ASSUME NEW n \in Nat, NEW i \in 0..n, NEW f, NEW g, Halvings(i, f), Halvings(n, g)
  PROVE  \A k \in 0..i : f[k] = g[k]
<1> DEFINE T == {k \in 0..i : f[k] # g[k]}
<1>1. SUFFICES ASSUME T # {}
               PROVE  FALSE
  OBVIOUS
<1>2. PICK k \in T : \A j \in T : k <= j
  <2> T \subseteq Nat
    OBVIOUS
  <2> HIDE DEF T
  <2> QED
    BY <1>1, LeastNatural
<1>3. k \in 1..i /\ k - 1 \in 0..i
  BY DEF Halvings
<1>4. f[k - 1] = g[k - 1]
  BY <1>2, <1>3
<1> QED
  BY <1>3, <1>4 DEF Halvings

\* There is a list of halvings of every length.
LEMMA HalvingsExist ==
  \A n \in Nat : \E g : Halvings(n, g)
<1> DEFINE T == {n \in Nat : ~ \E g : Halvings(n, g)}
<1>1. SUFFICES ASSUME T # {}
               PROVE  FALSE
  OBVIOUS
<1>2. PICK n \in T : \A j \in T : n <= j
  <2> T \subseteq Nat
    OBVIOUS
  <2> HIDE DEF T
  <2> QED
    BY <1>1, LeastNatural
<1>3. CASE n = 0
  <2> DEFINE g == [k \in 0..0 |-> InitialMinerPool]
  <2>1. Halvings(0, g)
    BY MiningAssumption DEF Halvings
  <2> QED
    BY <2>1, <1>3
<1>4. CASE n # 0
  <2>1. n - 1 \in Nat /\ n - 1 \notin T
    BY <1>2, <1>4
  <2>2. PICK f : Halvings(n - 1, f)
    BY <2>1
  <2> DEFINE g == [k \in 0..n |-> IF k = n THEN Halved(f[n - 1]) ELSE f[k]]
  <2>3. f[n - 1] \in Nat \ {0}
    BY <2>1, <2>2 DEF Halvings
  <2>4. Halved(f[n - 1]) \in Nat \ {0}
    BY <2>3, HalvedIsPositive
  <2>5. g \in [0..n -> Nat \ {0}]
    BY <2>1, <2>2, <2>4 DEF Halvings
  <2>6. g[0] = InitialMinerPool
    BY <1>4, <2>1, <2>2 DEF Halvings
  <2>7. ASSUME NEW k \in 1..n
        PROVE  g[k] = Halved(g[k - 1])
    <3>1. k - 1 \in 0..n /\ k - 1 # n /\ g[k - 1] = f[k - 1]
      OBVIOUS
    <3>2. CASE k = n
      BY <3>1, <3>2
    <3>3. CASE k # n
      <4>1. k \in 1..(n - 1)
        BY <3>3, <2>1
      <4>2. f[k] = Halved(f[k - 1])
        BY <4>1, <2>2 DEF Halvings
      <4> QED
        BY <3>1, <3>3, <4>2
    <3> QED
      BY <3>2, <3>3
  <2>8. Halvings(n, g)
    <3> HIDE DEF g
    <3> QED
      BY <2>5, <2>6, <2>7 DEF Halvings
  <2> QED
    BY <2>8
<1> QED
  BY <1>3, <1>4

\* The reward of an epoch is positive, whatever the height.
LEMMA BlockRewardIsPositive ==
  ASSUME NEW h \in Nat
  PROVE  GetBlockReward(h) \in Nat \ {0}
<1> DEFINE G(n) == CHOOSE g : Halvings(n, g)
           Rec(f) == f = [k \in Nat |-> IF k = 0 THEN InitialMinerPool
                                        ELSE Max({1, f[k - 1] \div 2})]
           all == [n \in Nat |-> G(n)[n]]
<1>1. \A n \in Nat : Halvings(n, G(n))
  BY HalvingsExist
<1> HIDE DEF G
<1>2. \A n \in Nat : all[n] \in Nat \ {0}
  <2> TAKE n \in Nat
  <2> Halvings(n, G(n)) /\ n \in 0..n
    BY <1>1
  <2> QED
    BY DEF Halvings
<1>3. all[0] = InitialMinerPool
  BY <1>1 DEF Halvings
<1>4. ASSUME NEW n \in Nat, n # 0
      PROVE  all[n] = Max({1, all[n - 1] \div 2})
  <2>1. n - 1 \in Nat /\ n - 1 \in 0..n /\ n \in 1..n /\ n - 1 \in 0..(n - 1)
    BY <1>4
  <2>2. Halvings(n, G(n)) /\ Halvings(n - 1, G(n - 1))
    BY <1>1, <2>1
  <2>3. G(n - 1)[n - 1] = G(n)[n - 1]
    BY <2>1, <2>2, HalvingsAgree
  <2>4. G(n)[n] = Halved(G(n)[n - 1])
    BY <2>1, <2>2 DEF Halvings
  <2> QED
    BY <2>1, <2>3, <2>4 DEF Halved
<1>5. Rec(all)
  <2> all = [n \in Nat |-> all[n]]
    OBVIOUS
  <2> HIDE DEF all
  <2> QED
    BY <1>3, <1>4
<1> DEFINE halved == CHOOSE f : Rec(f)
<1>6. Rec(halved)
  <2> HIDE DEF all, Rec
  <2> QED
    BY <1>5
<1>7. GetBlockReward(h) = halved[(h \div EpochBlocks) \div HalvingEpochs]
  BY DEF GetBlockReward
<1> HIDE DEF all, halved
<1>8. \A n \in Nat : halved[n] \in Nat \ {0}
  <2> DEFINE T == {n \in Nat : halved[n] \notin Nat \ {0}}
  <2>1. SUFFICES ASSUME T # {}
                 PROVE  FALSE
    OBVIOUS
  <2>2. PICK n \in T : \A j \in T : n <= j
    <3> T \subseteq Nat
      OBVIOUS
    <3> HIDE DEF T
    <3> QED
      BY <2>1, LeastNatural
  <2>3. CASE n = 0
    <3> halved[0] = InitialMinerPool
      BY <1>6
    <3> QED
      BY <2>3, MiningAssumption
  <2>4. CASE n # 0
    <3>1. n \in Nat /\ n - 1 \in Nat /\ halved[n - 1] \in Nat \ {0}
      BY <2>2, <2>4
    <3>2. halved[n] = Halved(halved[n - 1])
      BY <3>1, <2>4, <1>6 DEF Halved
    <3> QED
      BY <3>1, <3>2, HalvedIsPositive
  <2> QED
    BY <2>3, <2>4
<1>9. (h \div EpochBlocks) \div HalvingEpochs \in Nat
  <2>1. EpochBlocks \in Nat \ {0} /\ HalvingEpochs \in Nat \ {0}
    BY MiningAssumption
  <2>2. h \div EpochBlocks \in Nat
    BY <2>1
  <2> QED
    BY <2>1, <2>2
<1> QED
  BY <1>7, <1>8, <1>9

\* The early bird multiplier, in percent.
LEMMA EarlyBirdTiers ==
  ASSUME NEW i
  PROVE  EarlyBird(i) \in {100, 150, 200, 300}
BY DEF EarlyBird

\* A reward record has an amount.
LEMMA AmountIsNatural ==
  ASSUME NEW row \in MinerRow, NEW base \in Nat
  PROVE  applyBonusMultipliers(row, base) \in Nat
<1> DEFINE e == EarlyBird(row.index)
           full == (base * e * 100) \div 10000
<1>1. e \in {100, 150, 200, 300}
  BY EarlyBirdTiers
<1> HIDE DEF e
<1>2. full \in Nat
  BY <1>1
<1> HIDE DEF full
<1>3. (IF row.completed < ColdStart THEN full \div 2 ELSE full) \in Nat
  BY <1>2
<1>4. \A x \in Nat : Max({1, x}) \in Nat
  BY MaxIsNatural
<1> QED
  BY <1>3, <1>4 DEF applyBonusMultipliers, full, e

\* A winner's share is a natural number.
LEMMA ShareIsNatural ==
  ASSUME NEW h \in Nat, NEW row \in Challenge, NEW n \in Nat \ {0}
  PROVE  RewardPerMiner(h, row, n) \in Nat
<1>1. GetBlockReward(h) \in Nat
  BY BlockRewardIsPositive
<1>2. row.siblings \in Nat \ {0}
  BY DEF Challenge
<1>3. GetBlockReward(h) \div row.siblings \in Nat
  BY <1>1, <1>2
<1> DEFINE share == Max({1, GetBlockReward(h) \div row.siblings})
<1>4. share \in Nat
  BY <1>3, MaxIsNatural
<1> HIDE DEF share
<1>5. share \div n \in Nat
  BY <1>4
<1> QED
  BY <1>5, MaxIsNatural DEF RewardPerMiner, share

\* An epoch has a challenge.
LEMMA SomeChallenge ==
  ASSUME NEW n \in Nat
  PROVE  CalcNumChallenges(n) \in Nat \ {0}
<1>1. n \div 3 \in Nat
  OBVIOUS
<1>2. Max({1, n \div 3}) \in Nat \ {0}
  BY <1>1, MaxIsNatural
<1> QED
  BY <1>2, MinIsNatural DEF CalcNumChallenges

\* Counting completed challenges leaves the rewards of a row.
LEMMA CompletedRow ==
  ASSUME NEW row \in MinerRow, NEW n \in Nat
  PROVE  Completed(row, n) \in MinerRow /\ Completed(row, n).rewards = row.rewards
<1>0. row.completed \in Nat /\ ColdStart \in Nat
  <2>1. row.completed \in Nat
    BY DEF MinerRow
  <2>2. ColdStart \in Nat
    BY MiningAssumption
  <2> QED
    BY <2>1, <2>2
<1>1. row.completed + n \in Nat
  BY <1>0
<1>2. Min({row.completed + n, ColdStart}) \in Nat
  BY <1>0, <1>1, MinIsNatural
<1> QED
  BY <1>2 DEF Completed, MinerRow

\* What a set of records is worth.
LEMMA TotalIsNatural ==
  ASSUME NEW S \in SUBSET Record, IsFiniteSet(S)
  PROVE  Total(S) \in Nat
<1>1. \A p \in S : [q \in S |-> q.amount][p] \in Nat
  BY DEF Record
<1> QED
  BY <1>1, SumIsNatural DEF Total

\* Two votes for one answer are those of two miners.
LEMMA AnotherVoter ==
  ASSUME NEW V \in SUBSET Miners, Cardinality(V) >= 2, NEW m \in V
  PROVE  \E w \in V : w # m
<1>1. SUFFICES ASSUME V = {m}
               PROVE  FALSE
  OBVIOUS
<1>2. Cardinality({m}) = 1
  BY FS_Singleton
<1> QED
  BY <1>1, <1>2

\* The voters for an answer are finitely many, and some if one of them is there.
LEMMA VotersAreCounted ==
  ASSUME NEW row, NEW a
  PROVE  /\ VotersFor(row, a) \in SUBSET Miners
         /\ Cardinality(VotersFor(row, a)) \in Nat
         /\ VotersFor(row, a) # {} => Cardinality(VotersFor(row, a)) # 0
<1>1. VotersFor(row, a) \in SUBSET Miners
  BY DEF VotersFor
<1>2. IsFiniteSet(VotersFor(row, a))
  BY <1>1, MiningAssumption, FS_Subset
<1> QED
  BY <1>1, <1>2, FS_CardinalityType, FS_EmptySet

-----------------------------------------------------------------------------
(* The invariant. *)

\* It holds of a chain that starts.
LEMMA MiningInit ==
  Init => MiningInv
<1> SUFFICES ASSUME Init
             PROVE  MiningInv
  OBVIOUS
<1> USE MiningAssumption DEF Init
<1>1. Len(Joined) \in Nat
  OBVIOUS
<1>2. \A m \in Miners : miner[m] = None \/ \E i \in 1..Len(Joined) : miner[m] = NewMiner(i)
  BY <1>1
<1>3. \A i \in 1..Len(Joined) : NewMiner(i) \in MinerRow /\ NewMiner(i).rewards = 0
  BY <1>1 DEF NewMiner, MinerRow
<1>4. Idle \in Process
  BY DEF Idle, Process
<1>5. TypeOK
  <2>1. miner \in [Miners -> MinerRow \cup {None}]
    BY <1>2, <1>3
  <2>2. IsFiniteSet(pending)
    BY FS_EmptySet
  <2> QED
    BY <1>1, <1>4, <2>1, <2>2 DEF TypeOK, Block
<1>6. \A h \in Handlers : VotesBacked(submitted, proc[h]) /\ RowCovered(balance, proc[h])
  BY DEF Idle, VotesBacked, RowCovered, RowPCs, VotePCs, MinePCs
<1>7. \A m \in Miners : Received(balance, m) = 0
  BY DEF Received
<1>8. ASSUME NEW m \in Miners, miner[m] # None
      PROVE  Covered(balance, m, miner[m])
  <2>1. miner[m] \in MinerRow /\ miner[m].rewards = 0
    BY <1>2, <1>3, <1>8
  <2> QED
    BY ONLY <2>1, <1>7, m \in Miners DEF Covered
<1>9. /\ submitted \in SUBSET (Epochs \X Miners \X Answers)
      /\ \A e \in Epochs : challenge[e] # None => RowBacked(submitted, e, challenge[e])
      /\ \A r \in pending : RecordBacked(submitted, r)
  OBVIOUS
<1>10. Known /\ BlockCovered
  BY DEF Known, BlockCovered
<1>11. \A m \in Miners : Received(balance, m) >= 0
  BY <1>7
<1> QED
  BY ONLY <1>5, <1>6, <1>8, <1>9, <1>10, <1>11 DEF MiningInv

\* Backing and cover last: answers are never forgotten, and the bank only pays.
LEMMA BackingStays ==
  ASSUME NEW S, NEW U, S \subseteq U, NEW p, VotesBacked(S, p)
  PROVE  VotesBacked(U, p)
BY DEF VotesBacked, RowBacked

\* So does the backing of a record.
LEMMA RecordStays ==
  ASSUME NEW S, NEW U, S \subseteq U, NEW r, RecordBacked(S, r)
  PROVE  RecordBacked(U, r)
BY DEF RecordBacked

\* A handler's step keeps the invariant if it leaves height, bank and block alone and
\* what it writes is backed and covered.
LEMMA HandlerKeeps ==
  ASSUME MiningInv,
         NEW h \in Handlers, NEW p \in Process, proc' = [proc EXCEPT ![h] = p],
         UNCHANGED <<height, pool, balance, block>>,
         requests' \in Nat, regCount' \in Nat,
         submitted \subseteq submitted', submitted' \in SUBSET (Epochs \X Miners \X Answers),
         \A t \in submitted' \ submitted : Covered(balance, t[2], miner[t[2]]),
         miner' \in [Miners -> MinerRow \cup {None}],
         \A m \in Miners : \/ miner'[m] = miner[m]
                           \/ Covered(balance, m, miner'[m]),
         challenge' \in [Epochs -> Challenge \cup {None}],
         \A e \in Epochs : \/ challenge'[e] = challenge[e]
                           \/ RowBacked(submitted', e, challenge'[e]),
         pending' \in SUBSET Record, IsFiniteSet(pending'),
         \A r \in pending' \ pending : RecordBacked(submitted', r),
         VotesBacked(submitted', p), RowCovered(balance, p)
  PROVE  MiningInv'
<1>1. TypeOK'
  BY DEF MiningInv, TypeOK
<1>2. \A e \in Epochs : challenge'[e] # None => RowBacked(submitted', e, challenge'[e])
  <2> TAKE e \in Epochs
  <2>1. challenge[e] # None => RowBacked(submitted, e, challenge[e])
    BY DEF MiningInv
  <2>2. challenge[e] # None => RowBacked(submitted', e, challenge[e])
    BY <2>1 DEF RowBacked
  <2> QED
    BY <2>2
<1>3. ASSUME NEW g \in Handlers
      PROVE  VotesBacked(submitted', proc'[g]) /\ RowCovered(balance', proc'[g])
  <2>1. CASE g = h
    <3> proc'[g] = p
      BY <2>1 DEF MiningInv, TypeOK
    <3> QED
      OBVIOUS
  <2>2. CASE g # h
    <3>1. proc'[g] = proc[g]
      BY <2>2 DEF MiningInv, TypeOK
    <3>2. VotesBacked(submitted, proc[g]) /\ RowCovered(balance, proc[g])
      BY DEF MiningInv
    <3>3. VotesBacked(submitted', proc[g])
      BY <3>2, BackingStays
    <3> QED
      BY <3>1, <3>2, <3>3
  <2> QED
    BY <2>1, <2>2
<1>4. Known'
  <2> SUFFICES ASSUME NEW t \in submitted'
               PROVE  Covered(balance, t[2], miner'[t[2]])
    BY DEF Known
  <2>1. t[2] \in Miners
    OBVIOUS
  <2>2. Covered(balance, t[2], miner[t[2]])
    BY DEF MiningInv, Known
  <2> QED
    BY <2>1, <2>2
<1>5. ASSUME NEW r \in pending'
      PROVE  RecordBacked(submitted', r)
  <2>1. r \in pending => RecordBacked(submitted, r)
    BY DEF MiningInv
  <2> QED
    BY <2>1, RecordStays
<1>6. \A m \in Miners : Received(balance', m) >= 0
  BY DEF MiningInv
<1>7. \A m \in Miners : miner'[m] # None => Covered(balance', m, miner'[m])
  BY DEF MiningInv
<1>8. BlockCovered'
  BY DEF MiningInv, BlockCovered
<1> QED
  BY <1>1, <1>2, <1>3, <1>4, <1>5, <1>6, <1>7, <1>8 DEF MiningInv

-----------------------------------------------------------------------------
(* The handlers. *)

\* The vote: a handler goes on to pay the winners only if their answer has a majority.
LEMMA EvaluateIsBacked ==
  ASSUME NEW S, NEW q \in Process, q.epoch \in Epochs, NEW row \in Challenge,
         RowBacked(S, q.epoch, row), NEW p \in Evaluate(q, row)
  PROVE  /\ p \in Process /\ p.pc \in {"store", "credit"}
         /\ VotesBacked(S, p)
<1>1. CASE p = [q EXCEPT !.pc = "store", !.row = row]
  <2>1. p \in Process
    BY <1>1 DEF Process, RowPCs
  <2>2. p.pc = "store" /\ p.row = row /\ p.epoch = q.epoch
    BY <1>1 DEF Process
  <2> QED
    BY <2>1, <2>2 DEF VotesBacked, VotePCs
<1>2. ASSUME NEW a \in MajorityAnswers(row),
             Cardinality(VotersFor(row, a)) >= minMajority,
             p = [q EXCEPT !.pc = "credit", !.winners = VotersFor(row, a),
                           !.losers = Revealed(row) \ VotersFor(row, a),
                           !.row = [row EXCEPT !.status = "complete"]]
      PROVE  p \in Process /\ p.pc = "credit" /\ VotesBacked(S, p)
  <2> DEFINE r == [row EXCEPT !.status = "complete"]
  <2>1. r \in Challenge /\ r.reveals = row.reveals
    BY DEF Challenge
  <2>2. VotersFor(r, a) = VotersFor(row, a) /\ Revealed(r) = Revealed(row)
    BY <2>1 DEF VotersFor, Revealed
  <2>3. VotersFor(row, a) \in SUBSET Miners /\ Revealed(row) \in SUBSET Miners
    BY DEF VotersFor, Revealed
  <2>4. p.pc = "credit" /\ p.row = r /\ p.epoch = q.epoch
        /\ p.winners = VotersFor(row, a) /\ p.losers = Revealed(row) \ VotersFor(row, a)
    BY <1>2 DEF Process
  <2>5. p \in Process
    <3> HIDE DEF r
    <3> QED
      BY <1>2, <2>1, <2>3 DEF Process, RowPCs, VotePCs, r
  <2>6. RowBacked(S, p.epoch, p.row)
    BY <2>1, <2>4 DEF RowBacked
  <2>7. Dev \/ Cardinality(VotersFor(row, a)) >= 2
    BY <1>2 DEF minMajority
  <2>8. a \in Answers
    BY DEF MajorityAnswers
  <2>9. Majority(p)
    <3> HIDE DEF r
    <3> QED
      BY <2>2, <2>4, <2>7, <2>8 DEF Majority
  <2>10. p.losers \subseteq Revealed(p.row)
    BY <2>2, <2>4
  <2> QED
    BY <2>1, <2>4, <2>5, <2>6, <2>9, <2>10 DEF VotesBacked
<1>3. \/ p = [q EXCEPT !.pc = "store", !.row = row]
      \/ \E a \in MajorityAnswers(row) :
            /\ ~ (Cardinality(VotersFor(row, a)) < minMajority)
            /\ p = [q EXCEPT !.pc = "credit", !.winners = VotersFor(row, a),
                             !.losers = Revealed(row) \ VotersFor(row, a),
                             !.row = [row EXCEPT !.status = "complete"]]
  BY DEF Evaluate
<1>4. \A a \in Answers : ~ (Cardinality(VotersFor(row, a)) < minMajority)
                           => Cardinality(VotersFor(row, a)) >= minMajority
  <2> TAKE a \in Answers
  <2> Cardinality(VotersFor(row, a)) \in Nat /\ minMajority \in Nat
    BY VotersAreCounted DEF minMajority
  <2> QED
    OBVIOUS
<1>5. MajorityAnswers(row) \subseteq Answers
  BY DEF MajorityAnswers
<1>6. CASE p = [q EXCEPT !.pc = "store", !.row = row]
  BY <1>1, <1>6
<1>7. CASE \E a \in MajorityAnswers(row) :
            /\ ~ (Cardinality(VotersFor(row, a)) < minMajority)
            /\ p = [q EXCEPT !.pc = "credit", !.winners = VotersFor(row, a),
                             !.losers = Revealed(row) \ VotersFor(row, a),
                             !.row = [row EXCEPT !.status = "complete"]]
  <2>1. PICK a \in MajorityAnswers(row) :
            /\ ~ (Cardinality(VotersFor(row, a)) < minMajority)
            /\ p = [q EXCEPT !.pc = "credit", !.winners = VotersFor(row, a),
                             !.losers = Revealed(row) \ VotersFor(row, a),
                             !.row = [row EXCEPT !.status = "complete"]]
    BY <1>7
  <2>2. Cardinality(VotersFor(row, a)) >= minMajority
    BY <2>1, <1>4, <1>5
  <2> QED
    BY <2>1, <2>2, <1>2
<1> QED
  BY <1>3, <1>6, <1>7

\* What a handler starts with.
LEMMA RequestIsProcess ==
  ASSUME TypeOK, NEW e \in Epochs
  PROVE  /\ Idle \in Process
         /\ Request(e) \in Process /\ Request(e).epoch = e
BY DEF TypeOK, Request, Idle, Process

\* A request that is accepted keeps the invariant if what it goes on with is backed.
LEMMA StartKeeps ==
  ASSUME MiningInv, NEW h \in Handlers, NEW p \in Process, Start(h, p),
         UNCHANGED <<height, store, pool, balance, block>>,
         submitted \subseteq submitted', submitted' \in SUBSET (Epochs \X Miners \X Answers),
         \A t \in submitted' \ submitted : Covered(balance, t[2], miner[t[2]]),
         VotesBacked(submitted', p), RowCovered(balance, p)
  PROVE  MiningInv'
<1>1. proc' = [proc EXCEPT ![h] = p] /\ requests' \in Nat /\ TypeOK
  BY DEF Start, Goto, MiningInv, TypeOK
<1>2. /\ miner' = miner /\ regCount' = regCount /\ challenge' = challenge
      /\ pending' = pending
  BY DEF store
<1>3. /\ regCount' \in Nat /\ miner' \in [Miners -> MinerRow \cup {None}]
      /\ challenge' \in [Epochs -> Challenge \cup {None}]
      /\ pending' \in SUBSET Record /\ IsFiniteSet(pending')
  BY <1>1, <1>2 DEF TypeOK
<1> QED
  BY <1>1, <1>2, <1>3, HandlerKeeps

\* A row with one more answer, and that answer among those taken in.
LEMMA AnsweredIsBacked ==
  ASSUME NEW S, NEW e \in Epochs, NEW row \in Challenge, RowBacked(S, e, row),
         NEW m \in Miners, NEW a \in Answers
  PROVE  /\ Answered(row, m, a) \in Challenge
         /\ RowBacked(S \cup {<<e, m, a>>}, e, Answered(row, m, a))
<1> DEFINE r == Answered(row, m, a)
<1>1. r \in Challenge
  BY DEF Answered, Challenge, Choice
<1>2. \A w \in Miners : r.reveals[w] = IF w = m THEN a ELSE row.reveals[w]
  BY DEF Answered, Challenge
<1> HIDE DEF r
<1>3. RowBacked(S \cup {<<e, m, a>>}, e, r)
  BY <1>2 DEF RowBacked
<1> QED
  BY <1>1, <1>3 DEF r

\* The answer of a registered miner, taken in by SubmitAnswer or SubmitRevealREST.
LEMMA TakenInKeeps ==
  ASSUME MiningInv, NEW h \in Handlers, NEW e \in Epochs, NEW m \in Miners, NEW a \in Answers,
         miner[m] # None, challenge[e] # None,
         \E p \in Evaluate(Request(e), Answered(challenge[e], m, a)) : Start(h, p),
         submitted' = submitted \cup {<<e, m, a>>},
         UNCHANGED <<height, store, pool, balance, block>>
  PROVE  MiningInv'
<1>1. TypeOK /\ submitted \in SUBSET (Epochs \X Miners \X Answers)
  BY DEF MiningInv
<1>2. challenge[e] \in Challenge /\ Covered(balance, m, miner[m])
  BY <1>1 DEF TypeOK, MiningInv
<1>3. RowBacked(submitted, e, challenge[e])
  BY DEF MiningInv
<1> DEFINE row == Answered(challenge[e], m, a)
<1>4. row \in Challenge /\ RowBacked(submitted', e, row)
  BY <1>2, <1>3, AnsweredIsBacked
<1>5. Request(e) \in Process /\ Request(e).epoch = e
  BY <1>1, RequestIsProcess
<1>6. PICK p \in Evaluate(Request(e), row) : Start(h, p)
  OBVIOUS
<1> HIDE DEF row
<1>7. p \in Process /\ p.pc \in {"store", "credit"} /\ VotesBacked(submitted', p)
  BY <1>4, <1>5, EvaluateIsBacked
<1>8. RowCovered(balance, p)
  BY <1>7 DEF RowCovered, MinePCs
<1>9. submitted' \in SUBSET (Epochs \X Miners \X Answers)
  BY <1>1
<1>10. \A t \in submitted' \ submitted : Covered(balance, t[2], miner[t[2]])
  BY <1>2
<1> QED
  BY <1>6, <1>7, <1>8, <1>9, <1>10, StartKeeps

\* SubmitAnswer.
LEMMA SubmitAnswerKeeps ==
  ASSUME MiningInv, NEW h \in Handlers, NEW e \in Epochs, NEW m \in Miners,
         NEW a \in Answers, SubmitAnswer(h, e, m, a)
  PROVE  MiningInv'
<1>1. CASE ~Dev /\ height - challenge[e].created > Window
  <2> DEFINE row == [challenge[e] EXCEPT !.status = "expired"]
             p == [Request(e) EXCEPT !.pc = "store", !.row = row]
  <2>1. Start(h, p) /\ submitted' = submitted
        /\ UNCHANGED <<height, store, pool, balance, block>> /\ challenge[e] # None
    BY <1>1 DEF SubmitAnswer
  <2>2. TypeOK
    BY DEF MiningInv
  <2>3. challenge[e] \in Challenge /\ RowBacked(submitted, e, challenge[e])
    BY <2>1, <2>2 DEF MiningInv, TypeOK
  <2>4. row \in Challenge /\ row.reveals = challenge[e].reveals
    BY <2>3 DEF Challenge
  <2> HIDE DEF row
  <2>5. Request(e) \in Process /\ Request(e).epoch = e
    BY <2>2, RequestIsProcess
  <2>6. p \in Process
    BY <2>4, <2>5 DEF Process, RowPCs
  <2>7. p.pc = "store" /\ p.epoch = e /\ p.row = row
    BY <2>5 DEF Process
  <2> HIDE DEF p
  <2>8. VotesBacked(submitted', p)
    BY <2>1, <2>3, <2>4, <2>7 DEF VotesBacked, RowBacked, VotePCs
  <2>9. RowCovered(balance, p)
    BY <2>7 DEF RowCovered, MinePCs
  <2>10. submitted' \in SUBSET (Epochs \X Miners \X Answers)
    BY <2>1 DEF MiningInv
  <2> QED
    BY <2>1, <2>6, <2>8, <2>9, <2>10, StartKeeps
<1>2. CASE ~ (~Dev /\ height - challenge[e].created > Window)
  BY <1>2, TakenInKeeps DEF SubmitAnswer
<1> QED
  BY <1>1, <1>2

\* SubmitRevealREST.
LEMMA SubmitRevealKeeps ==
  ASSUME MiningInv, NEW h \in Handlers, NEW e \in Epochs, NEW m \in Miners,
         NEW a \in Answers, SubmitRevealREST(h, e, m, a)
  PROVE  MiningInv'
BY TakenInKeeps DEF SubmitRevealREST

\* SubmitCommitREST.
LEMMA SubmitCommitKeeps ==
  ASSUME MiningInv, NEW h \in Handlers, NEW e \in Epochs, NEW m \in Miners,
         NEW a \in Answers, SubmitCommitREST(h, e, m, a)
  PROVE  MiningInv'
<1> DEFINE row == [challenge[e] EXCEPT !.commits[m] = a, !.status = "commit"]
           p == [Request(e) EXCEPT !.pc = "store", !.row = row]
<1>1. Start(h, p) /\ submitted' = submitted
      /\ UNCHANGED <<height, store, pool, balance, block>> /\ challenge[e] # None
  BY DEF SubmitCommitREST
<1>2. TypeOK
  BY DEF MiningInv
<1>3. challenge[e] \in Challenge /\ RowBacked(submitted, e, challenge[e])
  BY <1>1, <1>2 DEF MiningInv, TypeOK
<1>4. row \in Challenge /\ row.reveals = challenge[e].reveals
  BY <1>3 DEF Challenge, Choice
<1> HIDE DEF row
<1>5. Request(e) \in Process /\ Request(e).epoch = e
  BY <1>2, RequestIsProcess
<1>6. p \in Process
  BY <1>4, <1>5 DEF Process, RowPCs
<1>7. p.pc = "store" /\ p.epoch = e /\ p.row = row
  BY <1>5 DEF Process
<1> HIDE DEF p
<1>8. VotesBacked(submitted', p)
  BY <1>1, <1>3, <1>4, <1>7 DEF VotesBacked, RowBacked, VotePCs
<1>9. RowCovered(balance, p)
  BY <1>7 DEF RowCovered, MinePCs
<1>10. submitted' \in SUBSET (Epochs \X Miners \X Answers)
  BY <1>1 DEF MiningInv
<1> QED
  BY <1>1, <1>6, <1>8, <1>9, <1>10, StartKeeps

\* RegisterMiner: a new row claims nothing, and no balance is below its start.
LEMMA RegisterMinerKeeps ==
  ASSUME MiningInv, NEW h \in Handlers, NEW m \in Miners, RegisterMiner(h, m)
  PROVE  MiningInv'
<1> DEFINE r == NewMiner(regCount + 1)
           p == [Idle EXCEPT !.pc = "count", !.miner = m, !.mrow = r]
<1>1. Start(h, p) /\ submitted' = submitted
      /\ UNCHANGED <<height, store, pool, balance, block>>
  BY DEF RegisterMiner
<1>2. TypeOK
  BY DEF MiningInv
<1>3. r \in MinerRow /\ r.rewards = 0
  BY <1>2 DEF TypeOK, NewMiner, MinerRow
<1> HIDE DEF r
<1>4. p \in Process
  BY <1>3 DEF Process, Idle
<1>5. p.pc = "count" /\ p.miner = m /\ p.mrow = r
  BY DEF Idle
<1> HIDE DEF p
<1>6. VotesBacked(submitted', p)
  BY <1>5 DEF VotesBacked, RowPCs, VotePCs
<1>7. Received(balance, m) >= 0
  BY DEF MiningInv
<1>8. RowCovered(balance, p)
  BY <1>3, <1>5, <1>7 DEF RowCovered, Covered, MinerRow
<1>9. submitted' \in SUBSET (Epochs \X Miners \X Answers)
  BY <1>1 DEF MiningInv
<1> QED
  BY <1>1, <1>4, <1>6, <1>8, <1>9, StartKeeps

\* What the invariant says of a handler and of the tables it reads.
LEMMA HandlerKnows ==
  ASSUME MiningInv, NEW h \in Handlers
  PROVE  /\ TypeOK /\ proc[h] \in Process
         /\ submitted \in SUBSET (Epochs \X Miners \X Answers)
         /\ VotesBacked(submitted, proc[h]) /\ RowCovered(balance, proc[h])
         /\ \A m \in Miners : miner[m] # None => Covered(balance, m, miner[m])
BY DEF MiningInv, TypeOK

\* The tables that a step leaves alone keep their types.
LEMMA TablesKeepTypes ==
  ASSUME TypeOK
  PROVE  /\ requests' = requests => requests' \in Nat
         /\ regCount' = regCount => regCount' \in Nat
         /\ miner' = miner => miner' \in [Miners -> MinerRow \cup {None}]
         /\ challenge' = challenge => challenge' \in [Epochs -> Challenge \cup {None}]
         /\ pending' = pending => pending' \in SUBSET Record /\ IsFiniteSet(pending')
BY DEF TypeOK

\* CreditPending: the record of a winner, whose answer has a majority behind it.
LEMMA CreditPendingKeeps ==
  ASSUME MiningInv, NEW h \in Handlers, NEW m \in Miners, CreditPending(h, m)
  PROVE  MiningInv'
<1> DEFINE q == proc[h]
           won == Cardinality(VotersFor(q.row, q.row.reveals[m]))
           record == [height |-> q.height, epoch |-> q.epoch, miner |-> m,
                      amount |-> applyBonusMultipliers(miner[m],
                                    RewardPerMiner(q.height, q.row, won))]
           p == [q EXCEPT !.pc = "creditRow", !.miner = m, !.mrow = miner[m]]
<1>1. /\ q.pc = "credit" /\ m \in q.winners
      /\ pending' = {r \in pending : ~SameKey(r, record)} \cup {record}
      /\ proc' = [proc EXCEPT ![h] = p]
      /\ UNCHANGED <<height, miner, regCount, challenge, pool, balance, block, requests, submitted>>
  BY DEF CreditPending, At, Goto
<1>2. /\ TypeOK /\ q \in Process
      /\ submitted \in SUBSET (Epochs \X Miners \X Answers)
      /\ VotesBacked(submitted, q)
  BY HandlerKnows
<1> HIDE DEF q
<1>3. q.epoch \in Epochs /\ q.row \in Challenge /\ RowBacked(submitted, q.epoch, q.row)
  BY <1>1, <1>2 DEF VotesBacked, RowPCs, VotePCs
<1>4. PICK a \in Answers : /\ q.winners \subseteq VotersFor(q.row, a)
                           /\ Dev \/ Cardinality(VotersFor(q.row, a)) >= 2
  BY <1>1, <1>2 DEF VotesBacked, VotePCs, Majority
<1>5. a # None
  BY MiningAssumption
<1>6. \A w \in VotersFor(q.row, a) : w \in Miners /\ <<q.epoch, w, a>> \in submitted
  BY <1>3, <1>5 DEF VotersFor, RowBacked
<1>7. q.row.reveals[m] = a /\ m \in VotersFor(q.row, a) /\ <<q.epoch, m, a>> \in submitted
  BY <1>1, <1>4, <1>6 DEF VotersFor
<1>8. miner[m] \in MinerRow /\ Covered(balance, m, miner[m])
  <2>1. Known
    BY DEF MiningInv
  <2>2. <<q.epoch, m, a>>[2] = m
    OBVIOUS
  <2> QED
    BY <1>7, <2>1, <2>2 DEF Known, Covered
<1>9. won \in Nat \ {0}
  BY <1>7, VotersAreCounted
<1>10. record \in Record
  <2> HIDE DEF won
  <2>1. q.height \in Nat
    BY <1>2 DEF Process
  <2>2. RewardPerMiner(q.height, q.row, won) \in Nat
    BY <1>3, <1>9, <2>1, ShareIsNatural
  <2>3. applyBonusMultipliers(miner[m], RewardPerMiner(q.height, q.row, won)) \in Nat
    BY <1>8, <2>2, AmountIsNatural
  <2> QED
    BY <1>3, <2>1, <2>3 DEF Record
<1>11. RecordBacked(submitted, record)
  <2>1. record.epoch = q.epoch /\ record.miner = m
    OBVIOUS
  <2>2. Dev \/ \E w \in Miners \ {m} : <<q.epoch, w, a>> \in submitted
    <3>1. CASE Dev
      BY <3>1
    <3>2. CASE Cardinality(VotersFor(q.row, a)) >= 2
      <4>1. VotersFor(q.row, a) \in SUBSET Miners
        BY DEF VotersFor
      <4>2. PICK w \in VotersFor(q.row, a) : w # m
        BY <3>2, <4>1, <1>7, AnotherVoter
      <4> QED
        BY <4>2, <1>6
    <3> QED
      BY <1>4, <3>1, <3>2
  <2> HIDE DEF record
  <2> QED
    BY <1>7, <2>1, <2>2 DEF RecordBacked
<1> HIDE DEF record, won
<1>12. pending' \in SUBSET Record /\ IsFiniteSet(pending')
  <2>1. pending \in SUBSET Record /\ IsFiniteSet(pending)
    BY <1>2 DEF TypeOK
  <2>2. IsFiniteSet({r \in pending : ~SameKey(r, record)})
    BY <2>1, FS_Subset
  <2> QED
    BY <1>1, <1>10, <2>1, <2>2, FS_AddElement
<1>13. p \in Process
  BY <1>2, <1>8 DEF Process, RowPCs, VotePCs
<1>14. /\ p.pc = "creditRow" /\ p.miner = m /\ p.mrow = miner[m] /\ p.epoch = q.epoch
       /\ p.row = q.row /\ p.winners = q.winners /\ p.losers = q.losers
  BY <1>2 DEF Process
<1> HIDE DEF p
<1>15. VotesBacked(submitted', p)
  BY <1>1, <1>2, <1>14 DEF VotesBacked, RowPCs, VotePCs, Majority
<1>16. RowCovered(balance, p)
  BY <1>8, <1>14 DEF RowCovered
<1> QED
  BY <1>1, <1>2, <1>11, <1>12, <1>13, <1>15, <1>16, TablesKeepTypes, HandlerKeeps

\* CreditRow: the winner's row as it was read, with one more completed challenge.
LEMMA CreditRowKeeps ==
  ASSUME MiningInv, NEW h \in Handlers, CreditRow(h)
  PROVE  MiningInv'
<1> DEFINE q == proc[h]
           r == Completed(q.mrow, 1)
           p == [q EXCEPT !.pc = "credit", !.winners = @ \ {q.miner}, !.miner = None, !.mrow = None]
<1>1. /\ q.pc = "creditRow" /\ miner' = [miner EXCEPT ![q.miner] = r]
      /\ proc' = [proc EXCEPT ![h] = p]
      /\ UNCHANGED <<height, regCount, challenge, pending, pool, balance, block, requests, submitted>>
  BY DEF CreditRow, At, Goto
<1>2. /\ TypeOK /\ q \in Process
      /\ submitted \in SUBSET (Epochs \X Miners \X Answers)
      /\ VotesBacked(submitted, q) /\ RowCovered(balance, q)
  BY HandlerKnows
<1> HIDE DEF q
<1>3. q.miner \in Miners /\ Covered(balance, q.miner, q.mrow)
  BY <1>1, <1>2 DEF RowCovered, MinePCs
<1>4. r \in MinerRow /\ r.rewards = q.mrow.rewards
  BY <1>3, CompletedRow DEF Covered
<1> HIDE DEF r
<1>5. Covered(balance, q.miner, r)
  BY <1>3, <1>4 DEF Covered
<1>6. miner' \in [Miners -> MinerRow \cup {None}]
  BY <1>1, <1>2, <1>4 DEF TypeOK
<1>7. \A m \in Miners : miner'[m] = miner[m] \/ Covered(balance, m, miner'[m])
  BY <1>1, <1>2, <1>5 DEF TypeOK
<1>8. p \in Process
  BY <1>2 DEF Process, RowPCs, VotePCs
<1>9. /\ p.pc = "credit" /\ p.epoch = q.epoch /\ p.row = q.row
      /\ p.winners = q.winners \ {q.miner} /\ p.losers = q.losers
  BY <1>2 DEF Process
<1> HIDE DEF p
<1>10. VotesBacked(submitted', p)
  BY <1>1, <1>2, <1>9 DEF VotesBacked, RowPCs, VotePCs, Majority
<1>11. RowCovered(balance, p)
  BY <1>9 DEF RowCovered, MinePCs
<1> QED
  BY <1>1, <1>2, <1>6, <1>7, <1>8, <1>10, <1>11, TablesKeepTypes, HandlerKeeps

\* PenalizeRead: a loser answered, so that its row is there.
LEMMA PenalizeReadKeeps ==
  ASSUME MiningInv, NEW h \in Handlers, NEW m \in Miners, PenalizeRead(h, m)
  PROVE  MiningInv'
<1> DEFINE q == proc[h]
           p == [q EXCEPT !.pc = "penalizeRow", !.miner = m, !.mrow = miner[m]]
<1>1. /\ q.pc = "credit" /\ m \in q.losers
      /\ proc' = [proc EXCEPT ![h] = p]
      /\ UNCHANGED <<height, miner, regCount, challenge, pending, pool, balance, block, requests, submitted>>
  BY DEF PenalizeRead, At, Goto, store
<1>2. /\ TypeOK /\ q \in Process
      /\ submitted \in SUBSET (Epochs \X Miners \X Answers)
      /\ VotesBacked(submitted, q)
  BY HandlerKnows
<1> HIDE DEF q
<1>3. <<q.epoch, m, q.row.reveals[m]>> \in submitted
  BY <1>1, <1>2 DEF VotesBacked, RowBacked, Revealed, RowPCs, VotePCs
<1>4. Covered(balance, m, miner[m])
  <2>1. Known
    BY DEF MiningInv
  <2>2. <<q.epoch, m, q.row.reveals[m]>>[2] = m
    OBVIOUS
  <2> QED
    BY <1>3, <2>1, <2>2 DEF Known
<1>5. p \in Process
  BY <1>2, <1>4 DEF Process, RowPCs, VotePCs, Covered
<1>6. /\ p.pc = "penalizeRow" /\ p.miner = m /\ p.mrow = miner[m] /\ p.epoch = q.epoch
      /\ p.row = q.row /\ p.winners = q.winners /\ p.losers = q.losers
  BY <1>2 DEF Process
<1> HIDE DEF p
<1>7. VotesBacked(submitted', p)
  BY <1>1, <1>2, <1>6 DEF VotesBacked, RowPCs, VotePCs, Majority
<1>8. RowCovered(balance, p)
  BY <1>4, <1>6 DEF RowCovered
<1> QED
  BY <1>1, <1>2, <1>5, <1>7, <1>8, TablesKeepTypes, HandlerKeeps

\* PenalizeRow: the loser's row as it was read.
LEMMA PenalizeRowKeeps ==
  ASSUME MiningInv, NEW h \in Handlers, PenalizeRow(h)
  PROVE  MiningInv'
<1> DEFINE q == proc[h]
           p == [q EXCEPT !.pc = "credit", !.losers = @ \ {q.miner}, !.miner = None, !.mrow = None]
<1>1. /\ q.pc = "penalizeRow" /\ miner' = [miner EXCEPT ![q.miner] = q.mrow]
      /\ proc' = [proc EXCEPT ![h] = p]
      /\ UNCHANGED <<height, regCount, challenge, pending, pool, balance, block, requests, submitted>>
  BY DEF PenalizeRow, At, Goto
<1>2. /\ TypeOK /\ q \in Process
      /\ submitted \in SUBSET (Epochs \X Miners \X Answers)
      /\ VotesBacked(submitted, q) /\ RowCovered(balance, q)
  BY HandlerKnows
<1> HIDE DEF q
<1>3. q.miner \in Miners /\ Covered(balance, q.miner, q.mrow)
  BY <1>1, <1>2 DEF RowCovered, MinePCs
<1>4. miner' \in [Miners -> MinerRow \cup {None}]
  BY <1>1, <1>2, <1>3 DEF TypeOK, Covered
<1>5. \A m \in Miners : miner'[m] = miner[m] \/ Covered(balance, m, miner'[m])
  BY <1>1, <1>2, <1>3 DEF TypeOK
<1>6. p \in Process
  BY <1>2 DEF Process, RowPCs, VotePCs
<1>7. /\ p.pc = "credit" /\ p.epoch = q.epoch /\ p.row = q.row
      /\ p.winners = q.winners /\ p.losers = q.losers \ {q.miner}
  BY <1>2 DEF Process
<1> HIDE DEF p
<1>8. VotesBacked(submitted', p)
  BY <1>1, <1>2, <1>7 DEF VotesBacked, RowPCs, VotePCs, Majority
<1>9. RowCovered(balance, p)
  BY <1>7 DEF RowCovered, MinePCs
<1> QED
  BY <1>1, <1>2, <1>4, <1>5, <1>6, <1>8, <1>9, TablesKeepTypes, HandlerKeeps

\* StoreChallenge: the row a handler carries is backed, however old.
LEMMA StoreChallengeKeeps ==
  ASSUME MiningInv, NEW h \in Handlers, StoreChallenge(h)
  PROVE  MiningInv'
<1> DEFINE q == proc[h]
<1>1. /\ q.pc \in {"store", "credit"}
      /\ challenge' = [challenge EXCEPT ![q.epoch] = q.row]
      /\ proc' = [proc EXCEPT ![h] = Idle]
      /\ UNCHANGED <<height, miner, regCount, pending, pool, balance, block, requests, submitted>>
  BY DEF StoreChallenge, At, Goto
<1>2. /\ TypeOK /\ q \in Process
      /\ submitted \in SUBSET (Epochs \X Miners \X Answers)
      /\ VotesBacked(submitted, q)
  BY HandlerKnows
<1> HIDE DEF q
<1>3. q.epoch \in Epochs /\ q.row \in Challenge /\ RowBacked(submitted', q.epoch, q.row)
  BY <1>1, <1>2 DEF VotesBacked, RowPCs, VotePCs
<1>4. challenge' \in [Epochs -> Challenge \cup {None}]
  BY <1>1, <1>2, <1>3 DEF TypeOK
<1>5. \A e \in Epochs : challenge'[e] = challenge[e] \/ RowBacked(submitted', e, challenge'[e])
  BY <1>1, <1>2, <1>3 DEF TypeOK
<1>6. Idle \in Process
  BY DEF Process, Idle
<1>7. VotesBacked(submitted', Idle) /\ RowCovered(balance, Idle)
  BY DEF VotesBacked, RowCovered, Idle, RowPCs, VotePCs, MinePCs
<1> QED
  BY <1>1, <1>2, <1>4, <1>5, <1>6, <1>7, TablesKeepTypes, HandlerKeeps

\* RegisterCount and RegisterStore.
LEMMA RegisterKeeps ==
  ASSUME MiningInv, NEW h \in Handlers, RegisterCount(h) \/ RegisterStore(h)
  PROVE  MiningInv'
<1> DEFINE q == proc[h]
<1>1. /\ TypeOK /\ q \in Process
      /\ submitted \in SUBSET (Epochs \X Miners \X Answers)
      /\ RowCovered(balance, q)
  BY HandlerKnows
<1>2. CASE RegisterCount(h)
  <2> DEFINE p == [q EXCEPT !.pc = "register"]
  <2>1. /\ q.pc = "count" /\ regCount' = q.mrow.index
        /\ proc' = [proc EXCEPT ![h] = p]
        /\ UNCHANGED <<height, miner, challenge, pending, pool, balance, block, requests, submitted>>
    BY <1>2 DEF RegisterCount, At, Goto
  <2> HIDE DEF q
  <2>2. q.miner \in Miners /\ Covered(balance, q.miner, q.mrow)
    BY <1>1, <2>1 DEF RowCovered, MinePCs
  <2>3. regCount' \in Nat
    BY <2>1, <2>2 DEF Covered, MinerRow
  <2>4. p \in Process
    BY <1>1 DEF Process
  <2>5. p.pc = "register" /\ p.miner = q.miner /\ p.mrow = q.mrow
    BY <1>1 DEF Process
  <2> HIDE DEF p
  <2>6. VotesBacked(submitted', p) /\ RowCovered(balance, p)
    BY <2>2, <2>5 DEF VotesBacked, RowCovered, RowPCs, VotePCs
  <2> QED
    BY <1>1, <2>1, <2>3, <2>4, <2>6, TablesKeepTypes, HandlerKeeps
<1>3. CASE RegisterStore(h)
  <2>1. /\ q.pc = "register" /\ miner' = [miner EXCEPT ![q.miner] = q.mrow]
        /\ proc' = [proc EXCEPT ![h] = Idle]
        /\ UNCHANGED <<height, regCount, challenge, pending, pool, balance, block, requests, submitted>>
    BY <1>3 DEF RegisterStore, At, Goto
  <2> HIDE DEF q
  <2>2. q.miner \in Miners /\ Covered(balance, q.miner, q.mrow)
    BY <1>1, <2>1 DEF RowCovered, MinePCs
  <2>3. miner' \in [Miners -> MinerRow \cup {None}]
    BY <1>1, <2>1, <2>2 DEF TypeOK, Covered
  <2>4. \A m \in Miners : miner'[m] = miner[m] \/ Covered(balance, m, miner'[m])
    BY <1>1, <2>1, <2>2 DEF TypeOK
  <2>5. Idle \in Process
    BY DEF Process, Idle
  <2>6. VotesBacked(submitted', Idle) /\ RowCovered(balance, Idle)
    BY DEF VotesBacked, RowCovered, Idle, RowPCs, VotePCs, MinePCs
  <2> QED
    BY <1>1, <2>1, <2>3, <2>4, <2>5, <2>6, TablesKeepTypes, HandlerKeeps
<1> QED
  BY <1>2, <1>3

-----------------------------------------------------------------------------
(* The blocks. *)

\* A part of a finite set of records is worth a natural number.
LEMMA PartIsNatural ==
  ASSUME NEW S \in SUBSET Record, IsFiniteSet(S), NEW m
  PROVE  /\ {p \in S : p.miner = m} \in SUBSET Record
         /\ IsFiniteSet({p \in S : p.miner = m})
         /\ Total({p \in S : p.miner = m}) \in Nat
<1>1. {p \in S : p.miner = m} \in SUBSET Record
  OBVIOUS
<1>2. IsFiniteSet({p \in S : p.miner = m})
  BY FS_Subset
<1> QED
  BY <1>1, <1>2, TotalIsNatural

\* FinalizeBlock counts into the rows it read what it is going to transfer.
LEMMA FinalizeBlockKeeps ==
  ASSUME MiningInv, FinalizeBlock
  PROVE  MiningInv'
<1>1. PICK paid \in SUBSET pending : Payable(paid) /\ block' = ProcessPendingRewards(paid)
  BY DEF FinalizeBlock
<1>2. UNCHANGED <<height, miner, regCount, challenge, pending, pool, balance, proc, requests, submitted>>
  BY DEF FinalizeBlock, store
<1>3. TypeOK
  BY DEF MiningInv
<1>4. paid \in SUBSET Record /\ IsFiniteSet(paid)
  <2>1. pending \in SUBSET Record /\ IsFiniteSet(pending)
    BY <1>3 DEF TypeOK
  <2> QED
    BY <2>1, FS_Subset
<1> DEFINE to(m) == {p \in paid : p.miner = m}
           n == CalcNumChallenges(Cardinality({m \in Miners : miner[m] # None}))
           row(m) == [Completed(miner[m], Cardinality(to(m))) EXCEPT !.rewards = @ + Total(to(m))]
           rows == [m \in Miners |-> IF to(m) = {} \/ miner[m] = None THEN None ELSE row(m)]
<1>5. block' = [number |-> n, paid |-> paid, rows |-> rows]
  BY <1>1 DEF ProcessPendingRewards
<1>6. n \in Nat \ {0}
  <2>1. IsFiniteSet({m \in Miners : miner[m] # None})
    BY MiningAssumption, FS_Subset
  <2> QED
    BY <2>1, FS_CardinalityType, SomeChallenge
<1> HIDE DEF n
<1>7. \A m \in Miners : /\ IsFiniteSet(to(m)) /\ Total(to(m)) \in Nat
                        /\ Cardinality(to(m)) \in Nat
  BY <1>4, PartIsNatural, FS_CardinalityType
<1> HIDE DEF to
<1>8. ASSUME NEW m \in Miners, miner[m] # None
      PROVE  row(m) \in MinerRow /\ row(m).rewards <= Received(balance, m) + Total(to(m))
  <2>1. Covered(balance, m, miner[m])
    BY <1>8 DEF MiningInv
  <2>2. Total(to(m)) \in Nat /\ Cardinality(to(m)) \in Nat
    BY <1>7
  <2> DEFINE c == Completed(miner[m], Cardinality(to(m)))
  <2>3. c \in MinerRow /\ c.rewards = miner[m].rewards
    BY <2>1, <2>2, CompletedRow DEF Covered
  <2> HIDE DEF c
  <2>4. /\ [c EXCEPT !.rewards = @ + Total(to(m))] \in MinerRow
        /\ [c EXCEPT !.rewards = @ + Total(to(m))].rewards = miner[m].rewards + Total(to(m))
    BY <2>2, <2>3 DEF MinerRow
  <2>5. miner[m].rewards \in Nat /\ miner[m].rewards <= Received(balance, m)
    BY <2>1 DEF Covered, MinerRow
  <2>6. Received(balance, m) \in Int
    BY <1>3, MiningAssumption DEF Received, TypeOK
  <2> QED
    BY <2>2, <2>4, <2>5, <2>6 DEF c
<1> HIDE DEF row
<1>9. \A m \in Miners : /\ rows[m] \in MinerRow \cup {None}
                        /\ rows[m] # None => rows[m].rewards <= Received(balance, m) + Total(to(m))
  BY <1>8
<1>10. rows \in [Miners -> MinerRow \cup {None}]
  BY <1>9
<1> HIDE DEF rows
<1>11. block'.number = n /\ block'.paid = paid /\ block'.rows = rows
  BY <1>5
<1>12. TypeOK'
  <2>1. block' \in Block
    BY <1>4, <1>5, <1>6, <1>10 DEF Block
  <2> QED
    BY <1>2, <1>3, <1>4, <1>11, <2>1 DEF TypeOK
<1>13. BlockCovered'
  <2>1. Total(paid) <= pool
    BY <1>1 DEF Payable
  <2>2. block'.number > 0
    BY <1>6, <1>11
  <2> QED
    BY <1>2, <1>9, <1>11, <2>1, <2>2 DEF BlockCovered, to
<1>14. Known'
  BY <1>2 DEF MiningInv, Known
<1> QED
  BY <1>2, <1>12, <1>13, <1>14 DEF MiningInv

\* A larger balance covers what a smaller one did.
LEMMA CoverStays ==
  ASSUME NEW b, NEW c, NEW m, b[m] \in Int, c[m] \in Int, b[m] <= c[m], Endowment[m] \in Int,
         NEW row, Covered(b, m, row)
  PROVE  Covered(c, m, row)
BY DEF Covered, Received, MinerRow

\* WriteBlock transfers to a miner what its row is given.
LEMMA WriteBlockKeeps ==
  ASSUME MiningInv, WriteBlock
  PROVE  MiningInv'
<1> DEFINE to(m) == {p \in block.paid : p.miner = m}
<1>1. TypeOK /\ block \in Block /\ IsFiniteSet(block.paid) /\ height \in Nat
  BY DEF MiningInv, TypeOK, WriteBlock
<1>2. /\ block.number \in Nat /\ block.number > 0
      /\ Total(block.paid) <= pool
      /\ \A m \in Miners : block.rows[m] # None =>
            block.rows[m].rewards <= Received(balance, m) + Total(to(m))
  BY <1>1 DEF MiningInv, BlockCovered, WriteBlock, Block
<1>3. /\ block.paid \in SUBSET Record /\ block.rows \in [Miners -> MinerRow \cup {None}]
      /\ Total(block.paid) \in Nat
  BY <1>1, TotalIsNatural DEF Block
<1>4. \A m \in Miners : Total(to(m)) \in Nat
  BY <1>1, <1>3, PartIsNatural
<1>5. /\ pending' \subseteq pending
      /\ miner' = [m \in Miners |-> IF block.rows[m] = None THEN miner[m] ELSE block.rows[m]]
      /\ pool' = pool - Total(block.paid)
      /\ balance' = [m \in Miners |-> balance[m] + Total(to(m))]
      /\ block' = Written
      /\ UNCHANGED <<height, regCount, proc, requests, submitted>>
  BY DEF WriteBlock
<1> HIDE DEF to
<1>6. \A m \in Miners : /\ balance[m] \in Nat /\ balance'[m] \in Nat
                        /\ balance'[m] = balance[m] + Total(to(m))
                        /\ Endowment[m] \in Nat
  <2> TAKE m \in Miners
  <2>1. balance[m] \in Nat /\ Total(to(m)) \in Nat
    BY <1>1, <1>4 DEF TypeOK
  <2>2. balance'[m] = balance[m] + Total(to(m))
    BY <1>5
  <2>3. Endowment[m] \in Nat
    BY MiningAssumption
  <2> QED
    BY <2>1, <2>2, <2>3
<1>7. \A m \in Miners : Received(balance', m) = Received(balance, m) + Total(to(m))
  BY <1>4, <1>6 DEF Received
<1>8. ASSUME NEW m \in Miners, NEW row, Covered(balance, m, row)
      PROVE  Covered(balance', m, row)
  <2>1. balance[m] <= balance'[m]
    BY <1>4, <1>6
  <2> QED
    BY <1>6, <1>8, <2>1, CoverStays
<1>9. ASSUME NEW m \in Miners, block.rows[m] # None
      PROVE  Covered(balance', m, block.rows[m])
  BY <1>2, <1>3, <1>7, <1>9 DEF Covered
<1>10. \A m \in Miners : miner'[m] = IF block.rows[m] = None THEN miner[m] ELSE block.rows[m]
  BY <1>5
<1>11. \A m \in Miners : miner'[m] # None => Covered(balance', m, miner'[m])
  <2> TAKE m \in Miners
  <2>1. miner[m] # None => Covered(balance, m, miner[m])
    BY DEF MiningInv
  <2> QED
    BY <1>8, <1>9, <1>10, <2>1
<1>12. Known'
  <2> SUFFICES ASSUME NEW t \in submitted
               PROVE  Covered(balance', t[2], miner'[t[2]])
    BY <1>5 DEF Known
  <2>1. t[2] \in Miners /\ Covered(balance, t[2], miner[t[2]])
    BY DEF MiningInv, Known
  <2> QED
    BY <1>8, <1>9, <1>10, <2>1
<1> DEFINE new == NewChallenge(height + 1, block.number)
<1>13. new \in Challenge /\ \A e \in Epochs : RowBacked(submitted, e, new)
  BY <1>1, <1>2 DEF NewChallenge, Nobody, Challenge, Choice, RowBacked
<1>14. \/ challenge' = challenge
       \/ \E i : challenge' = [challenge EXCEPT ![i] = new]
  BY DEF WriteBlock
<1> HIDE DEF new
<1>15. /\ challenge' \in [Epochs -> Challenge \cup {None}]
       /\ \A e \in Epochs : challenge'[e] \in {challenge[e], new}
  BY <1>1, <1>13, <1>14 DEF TypeOK
<1>16. \A e \in Epochs : challenge'[e] # None => RowBacked(submitted', e, challenge'[e])
  <2> TAKE e \in Epochs
  <2>1. challenge[e] # None => RowBacked(submitted, e, challenge[e])
    BY DEF MiningInv
  <2> QED
    BY <1>5, <1>13, <1>15, <2>1
<1>17. TypeOK'
  <2>1. pending' \in SUBSET Record /\ IsFiniteSet(pending')
    BY <1>1, <1>5, FS_Subset DEF TypeOK
  <2>2. miner' \in [Miners -> MinerRow \cup {None}]
    BY <1>1, <1>3, <1>5 DEF TypeOK
  <2>3. pool' \in Nat
    BY <1>1, <1>2, <1>3, <1>5 DEF TypeOK
  <2>4. balance' \in [Miners -> Nat]
    BY <1>5, <1>6
  <2>5. block' \in Block /\ IsFiniteSet(block'.paid)
    BY <1>5, FS_EmptySet DEF Written, Nobody, Block
  <2> QED
    BY <1>1, <1>5, <1>15, <2>1, <2>2, <2>3, <2>4, <2>5 DEF TypeOK
<1>18. \A h \in Handlers : VotesBacked(submitted', proc'[h]) /\ RowCovered(balance', proc'[h])
  <2> TAKE h \in Handlers
  <2>1. VotesBacked(submitted, proc[h]) /\ RowCovered(balance, proc[h])
    BY DEF MiningInv
  <2>2. RowCovered(balance', proc[h])
    BY <1>8, <2>1 DEF RowCovered
  <2> QED
    BY <1>5, <2>1, <2>2
<1>19. \A m \in Miners : Received(balance', m) >= 0
  <2> TAKE m \in Miners
  <2>1. Received(balance, m) >= 0 /\ Received(balance, m) \in Int
    BY <1>6 DEF MiningInv, Received
  <2> QED
    BY <1>4, <1>7, <2>1
<1>20. BlockCovered'
  BY <1>5 DEF BlockCovered, Written
<1>21. /\ \A r \in pending' : RecordBacked(submitted', r)
       /\ submitted' \in SUBSET (Epochs \X Miners \X Answers)
  BY <1>5 DEF MiningInv
<1> QED
  BY <1>11, <1>12, <1>16, <1>17, <1>18, <1>19, <1>20, <1>21 DEF MiningInv

\* Commit.
LEMMA CommitKeeps ==
  ASSUME MiningInv, Commit
  PROVE  MiningInv'
<1>1. /\ block' = None /\ height' \in {height, height + 1}
      /\ UNCHANGED <<miner, regCount, challenge, pending, pool, balance, proc, requests, submitted>>
  BY DEF Commit, store
<1>2. TypeOK'
  BY <1>1 DEF MiningInv, TypeOK
<1>3. Known' /\ BlockCovered'
  BY <1>1 DEF MiningInv, Known, BlockCovered
<1> QED
  BY <1>1, <1>2, <1>3 DEF MiningInv

-----------------------------------------------------------------------------
(* Results. *)

\* Every step keeps the invariant.
LEMMA MiningStep ==
  MiningInv /\ [Next]_vars => MiningInv'
<1> SUFFICES ASSUME MiningInv, [Next]_vars
             PROVE  MiningInv'
  OBVIOUS
<1>1. ASSUME NEW h \in Handlers, Handler(h)
      PROVE  MiningInv'
  <2>1. \A m \in Miners : Opinion[m] \subseteq Answers
    BY MiningAssumption
  <2>2. ASSUME NEW e \in Epochs, NEW m \in Miners, NEW a \in Opinion[m],
               \/ SubmitAnswer(h, e, m, a)
               \/ SubmitCommitREST(h, e, m, a)
               \/ SubmitRevealREST(h, e, m, a)
        PROVE  MiningInv'
    <3> a \in Answers
      BY <2>1
    <3> QED
      BY <2>2, SubmitAnswerKeeps, SubmitCommitKeeps, SubmitRevealKeeps
  <2>3. ASSUME NEW m \in Miners,
               RegisterMiner(h, m) \/ CreditPending(h, m) \/ PenalizeRead(h, m)
        PROVE  MiningInv'
    BY <2>3, RegisterMinerKeeps, CreditPendingKeeps, PenalizeReadKeeps
  <2>4. CASE \/ CreditRow(h) \/ PenalizeRow(h) \/ StoreChallenge(h)
             \/ RegisterCount(h) \/ RegisterStore(h)
    BY <2>4, CreditRowKeeps, PenalizeRowKeeps, StoreChallengeKeeps, RegisterKeeps
  <2> QED
    BY <1>1, <2>2, <2>3, <2>4 DEF Handler
<1>2. CASE UNCHANGED vars
  <2>1. /\ UNCHANGED <<height, miner, regCount, challenge, pending, pool, balance>>
        /\ UNCHANGED <<block, proc, requests, submitted>>
    BY <1>2 DEF vars, store
  <2>2. TypeOK' /\ Known' /\ BlockCovered'
    BY <2>1 DEF MiningInv, TypeOK, Known, BlockCovered
  <2> QED
    BY <2>1, <2>2 DEF MiningInv
<1> QED
  BY <1>1, <1>2, FinalizeBlockKeeps, WriteBlockKeeps, CommitKeeps DEF Next

\* A reward record belongs to a miner whose answer was taken in and, outside dev
\* mode, to one that another miner agreed with: for any number of handlers that
\* overwrite each other's rows (rest_handler.go 171-297), any answers and any blocks.
THEOREM RewardsHaveMajority ==
  Spec => []RewardHasMajority
<1>1. MiningInv => RewardHasMajority
  BY DEF MiningInv, RecordBacked, RewardHasMajority
<1> QED
  BY <1>1, MiningInit, MiningStep, PTL DEF Spec

\* A miner's row never claims more rewards than the bank paid out, although handlers
\* and blocks write rows they read earlier over each other (rest_handler.go 250-282,
\* keeper.go 735-808).
THEOREM ClaimsAreCovered ==
  Spec => []StatsNeverExceedPayments
<1>1. MiningInv => StatsNeverExceedPayments
  BY DEF MiningInv, Covered, Received, StatsNeverExceedPayments
<1> QED
  BY <1>1, MiningInit, MiningStep, PTL DEF Spec
==============================================================================
