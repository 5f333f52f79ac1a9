--------------------------- MODULE PokerRewardsProofs ---------------------------
(***************************************************************************)
(* Proofs about PokerRewards, for any tournaments, miners, windows, pools,  *)
(* budgets and workers.                                                     *)
(*                                                                          *)
(* The arithmetic of the allocation (the floors and the pass over the       *)
(* largest remainders pay the pool to the last unit and never overtake a    *)
(* larger weight) is proved of the operators, and so holds for every stored *)
(* projection, with any number of workers and crashes.  The budget and what *)
(* follows an anchored batch need that builds and anchorings come one after *)
(* the other (Serial); projections of rankings may run beside them.         *)
(***************************************************************************)
EXTENDS PokerRewards, FiniteSums

RankRow   == [rank : 1..FieldSize, snap : Nat]
HidScore  == {-1, 0, 1}

\* The steps of a build up to its projection, those that follow, and those of
\* the anchoring.
BuildPCs == {"cancel", "budget", "window", "ledger", "projection"}
SyncPCs  == {"sync", "link", "ledgerLink"}
PayPCs   == BuildPCs \cup SyncPCs \cup {"batches", "reconciled", "pay"}
PCs      == PayPCs \cup {"idle", "rank", "result", "done"}

Handler == [pc : PCs, w : Windows \cup {None}, p : Projections \cup {None},
            todo : SUBSET Miners, rows : [Miners -> RankRow \cup {None}] \cup {None},
            hid : [Miners -> HidScore \cup {None}] \cup {None},
            inputs : SUBSET InputRow, prov : BOOLEAN, pool : Nat, linked : BOOLEAN,
            then : {"done", "batches", "reconciled"}]

Pays(q) == HasPositiveWeight(q.inputs)

\* A handler's local state, given the windows that have a row.
HandlerOK(q, saved) ==
    /\ q \in Handler
    /\ IsFiniteSet(q.inputs)
    /\ q.pc = "rank" => q.p \in Projections /\ q.todo \subseteq DOMAIN q.p.ranks
    /\ q.pc = "result" =>
         /\ q.p \in Projections
         /\ q.rows \in [Miners -> RankRow \cup {None}]
         /\ q.hid \in [Miners -> HidScore \cup {None}]
         /\ \A m \in q.todo : q.rows[m] \in RankRow
    /\ q.pc \in PayPCs => q.w \in Windows
    /\ q.pc \in BuildPCs \cup {"ledgerLink"} => q.inputs # {} /\ q.then \in {"done", "batches"}
    /\ q.pc = "cancel" => ~Pays(q)
    /\ q.pc \in SyncPCs => \/ q.inputs = {} /\ q.then = "reconciled"
                           \/ Pays(q) /\ q.then \in {"done", "batches"}
    /\ q.pc \in {"ledger", "projection"} \cup SyncPCs => q.w \in saved

Saved == {w \in Windows : window[w] # None}

Types ==
    /\ ranking \in [Tournaments -> [Miners -> RankRow \cup {None}]]
    /\ hidden \in [Tournaments -> [Miners -> HidScore \cup {None}]]
    /\ result \in [Tournaments -> [Miners -> ResultRow \cup {None}]]
    /\ window \in [Windows -> WindowRow \cup {None}]
    /\ proj \in [Windows -> ProjectionRow \cup {None}]
    /\ ledger \in [Windows -> BudgetRow \cup {None}]
    /\ batch \in [Windows -> BatchRow \cup {None}]
    /\ proc \in [Workers -> Handler]
    /\ \A k \in Workers : HandlerOK(proc[k], Saved)
    /\ \A w \in Windows : batch[w] # None => w \in Saved

\* What any number of workers keeps.
RewardsInv == Types /\ AllocationAddsUp

------------------------------------------------------------------------------
(* What builds and anchorings keep that come one after the other.           *)

Building(k) == proc[k].pc \in PayPCs

\* No two workers build or anchor at the same time.
Serial == \A j, k \in Workers : Building(j) /\ Building(k) => j = k

Linked(w) == window[w] # None /\ window[w].linked
Open(w) == batch[w] # None /\ batch[w].state = "open"
Anchored(w) == Sent(batch[w])

\* A root that has been sent is stored.
RootsStored == \A w \in Windows : Sent(batch[w]) => batch[w].root # None

\* What the check of the budget found stays true until the ledger is saved, and
\* the ledger that is saved again with the batch reserves the same.
BudgetOK(q) ==
    /\ q.pc \in {"window", "ledger"} => Reserved(q.w) + Amount(q) <= Budget
    /\ q.pc \in {"projection"} \cup SyncPCs /\ q.inputs # {} =>
         ledger[q.w] # None /\ ledger[q.w].approved = Amount(q)

\* A build that has begun is of a window whose batch has not been sent, or of one that
\* has lost the link to it.
FinalOK(q) ==
    /\ q.pc \in BuildPCs => ~(Anchored(q.w) /\ Linked(q.w))
    /\ q.pc \in {"cancel", "budget", "window"} /\ q.linked => ~Anchored(q.w)

\* The inductive invariant of the budget and of what is anchored.
SerialInv ==
    /\ BudgetHolds
    /\ RootsStored
    /\ \A k \in Workers : BudgetOK(proc[k]) /\ FinalOK(proc[k])

\* A window that has been saved and whose ledger or projection has not.
Midway(w) == \E k \in Workers : proc[k].pc \in {"ledger", "projection"} /\ proc[k].w = w

\* A window whose batch is synced and not yet linked.
Linking(w) == \E k \in Workers : proc[k].pc = "link" /\ proc[k].w = w

IsLinked(win) == win # None /\ win.linked
InState(bat, st) == bat # None /\ bat.state = st

\* What the steps of handler q have found or written and the next ones rely on:
\* win and bat are the rows of its window and of its batch.
HandOK(q, win, bat) ==
    /\ q.pc \in {"cancel", "budget", "window"} => q.linked = IsLinked(win)
    /\ q.pc \in BuildPCs => ~Sent(bat)
    /\ q.pc \in {"budget", "window"} /\ ~Pays(q) => ~InState(bat, "open")
    /\ q.pc \in {"ledger", "projection"} => win.total = Amount(q)
    /\ q.pc \in {"ledger", "projection"} /\ Pays(q) => win.state = "finalized"
    /\ q.pc \in SyncPCs => win.state = "finalized"
    /\ q.pc \in {"link", "reconciled"} /\ InState(bat, "open") =>
         win # None /\ bat.total = win.total

HandsOK == \A k \in Workers :
    proc[k].pc \in PayPCs => HandOK(proc[k], window[proc[k].w], batch[proc[k].w])

\* The rows of a window agree, but while they are being written.
RowsOK(midway, linking, win, led, prj, bat) ==
    /\ win # None /\ ~midway =>
         /\ led # None /\ SumFunction(prj.alloc) = led.approved
         /\ win.total \in {led.approved, 0}
    /\ InState(bat, "open") \/ Sent(bat) =>
         /\ win # None /\ win.state = "finalized"
         /\ win.linked \/ linking
    /\ Sent(bat) => bat.total = led.approved

RowsAgree == \A w \in Windows : RowsOK(Midway(w), Linking(w), window[w], ledger[w], proj[w], batch[w])

\* The inductive invariant of a service that has not crashed.
UncrashedInv ==
    /\ crashes \in Nat
    /\ crashes = 0 => HandsOK /\ RowsAgree

------------------------------------------------------------------------------
(* The arithmetic of the allocation.                                        *)

\* Quotient and remainder.
LEMMA DivMod ==
  ASSUME NEW a \in Nat, NEW t \in Nat \ {0}
  PROVE  /\ a \div t \in Nat
         /\ a % t \in 0..(t - 1)
         /\ a = (a \div t) * t + (a % t)
OBVIOUS

\* A rounded quotient is an integer, and natural when what is divided is.
LEMMA NearestType ==
  ASSUME NEW a \in Int, NEW b \in Nat \ {0}
  PROVE  Nearest(a, b) \in Int /\ (a \in Nat => Nearest(a, b) \in Nat)
<1> DEFINE q == a \div b  r == a % b
<1>1. q \in Int /\ r \in 0..(b - 1) /\ a = b * q + r
  OBVIOUS
<1>2. a \in Nat => q \in Nat
  BY DivMod
<1>3. b * (q + 1) = b * q + b /\ b * q \in Int
  BY <1>1
<1> HIDE DEF q, r
<1>4. \E n \in {q, q + 1} : 2 * (b * n - a) <= b /\ 2 * (a - b * n) <= b
  <2>1. CASE 2 * r <= b
    <3> 2 * (b * q - a) <= b /\ 2 * (a - b * q) <= b
      BY <1>1, <1>3, <2>1
    <3> QED
      OBVIOUS
  <2>2. CASE 2 * r > b
    <3> 2 * (b * (q + 1) - a) <= b /\ 2 * (a - b * (q + 1)) <= b
      BY <1>1, <1>3, <2>2
    <3> QED
      OBVIOUS
  <2> QED
    BY <1>1, <2>1, <2>2
<1>5. Nearest(a, b) = CHOOSE n \in {q, q + 1} : 2 * (b * n - a) <= b /\ 2 * (a - b * n) <= b
  BY DEF Nearest, q
<1>6. Nearest(a, b) \in {q, q + 1}
  BY <1>4, <1>5
<1> QED
  BY <1>1, <1>2, <1>6

\* The quotient is monotone.
LEMMA DivMonotone ==
  ASSUME NEW a \in Nat, NEW b \in Nat, NEW t \in Nat \ {0}, a < b
  PROVE  \/ a \div t < b \div t
         \/ a \div t = b \div t /\ a % t < b % t
<1> DEFINE i == a \div t  j == b \div t  x == a % t  y == b % t
<1>1. /\ i \in Nat /\ j \in Nat /\ x \in 0..(t - 1) /\ y \in 0..(t - 1)
      /\ a = i * t + x /\ b = j * t + y
  BY DivMod
<1> HIDE DEF i, j, x, y
<1>2. CASE i > j
  <2>1. i = j + 1 + (i - j - 1) /\ i - j - 1 \in Nat
    BY <1>1, <1>2
  <2>2. \A c \in Nat : (j + 1 + c) * t = j * t + t + c * t /\ c * t \in Nat
    BY <1>1
  <2>3. i * t = j * t + t + (i - j - 1) * t /\ (i - j - 1) * t \in Nat
    BY <2>1, <2>2
  <2>4. j * t \in Nat
    BY <1>1
  <2> QED
    BY <1>1, <2>3, <2>4
<1>3. CASE i = j
  <2>4. j * t \in Nat
    BY <1>1
  <2>5. a = j * t + x /\ b = j * t + y
    BY <1>1, <1>3
  <2>6. x < y
    BY <2>4, <2>5, <1>1
  <2> QED
    BY <1>3, <2>6 DEF i, j, x, y
<1>4. CASE i < j
  BY <1>4 DEF i, j
<1> QED
  BY <1>1, <1>2, <1>3, <1>4

\* A finite set has subsets of every smaller size.
LEMMA SubsetOfSize ==
  ASSUME NEW S, IsFiniteSet(S), NEW n \in Nat, n <= Cardinality(S)
  PROVE  \E U \in SUBSET S : Cardinality(U) = n
<1> DEFINE T == {U \in SUBSET S : n <= Cardinality(U)}
<1>1. PICK U \in T : \A V \in T : V \subseteq U => V = U
  <2> T \in SUBSET (SUBSET S) /\ S \in T
    OBVIOUS
  <2> HIDE DEF T
  <2> QED
    BY SmallestSubset
<1>2. IsFiniteSet(U) /\ Cardinality(U) \in Nat
  BY FS_Subset, FS_CardinalityType
<1>3. CASE U = {}
  <2> Cardinality(U) = 0
    BY <1>3, FS_EmptySet
  <2> QED
    BY <1>2
<1>4. CASE U # {}
  <2>1. PICK e : e \in U
    BY <1>4
  <2>2. Cardinality(U \ {e}) = Cardinality(U) - 1
    BY <1>2, <2>1, FS_RemoveElement
  <2>3. U \ {e} \notin T
    <3> U \ {e} # U /\ U \ {e} \subseteq U
      BY <2>1
    <3> HIDE DEF T
    <3> QED
      BY <1>1
  <2>4. ~(n <= Cardinality(U \ {e}))
    BY <2>3
  <2> QED
    BY <1>2, <2>2, <2>4
<1> QED
  BY <1>3, <1>4

\* A unit of the inputs has a weight: the maximum over its best results exists.
LEMMA WeightIsNatural ==
  ASSUME NEW inputs \in SUBSET InputRow, IsFiniteSet(inputs), NEW u \in Units(inputs)
  PROVE  UnitWeight(inputs, u) \in Nat
<1> DEFINE rows == {i \in inputs : Unit[i.m] = u}
           n == IF Cardinality(rows) < 3 THEN Cardinality(rows) ELSE 3
           points == [i \in rows |-> IF i.row.score > 0 THEN i.row.score ELSE 0]
           K == kSubset(n, rows)
           f == [s \in K |-> Nearest(SumFunctionOnSet(points, s), n)]
<1>1. rows # {} /\ IsFiniteSet(rows)
  <2> IsFiniteSet(rows)
    BY FS_Subset
  <2> QED
    BY DEF Units
<1>2. Cardinality(rows) \in Nat \ {0}
  BY <1>1, FS_CardinalityType, FS_EmptySet
<1>3. n \in Nat \ {0} /\ n <= Cardinality(rows)
  <2> HIDE DEF rows
  <2> QED
    BY <1>2
<1>4. \A i \in rows : points[i] \in Nat
  BY DEF InputRow, ResultRow
<1> HIDE DEF rows, n, points
<1>5. K # {} /\ IsFiniteSet(K)
  <2>1. PICK U \in SUBSET rows : Cardinality(U) = n
    BY <1>1, <1>3, SubsetOfSize
  <2>2. IsFiniteSet(SUBSET rows)
    BY <1>1, FS_SUBSET
  <2>3. K \in SUBSET (SUBSET rows) /\ U \in K
    BY <2>1 DEF kSubset
  <2>4. IsFiniteSet(K)
    BY <2>2, <2>3, FS_Subset
  <2> QED
    BY <2>3, <2>4
<1>6. \A s \in K : f[s] \in Nat
  <2> SUFFICES ASSUME NEW s \in K
               PROVE  f[s] \in Nat
    OBVIOUS
  <2>1. s \in SUBSET rows
    BY DEF kSubset
  <2>2. IsFiniteSet(s)
    BY <2>1, <1>1, FS_Subset
  <2>3. SumFunctionOnSet(points, s) \in Nat
    BY <2>1, <2>2, <1>4, SumIsNatural
  <2> QED
    BY <2>3, <1>3, NearestType
<1>7. PICK s \in K : \A r \in K : f[s] >= f[r]
  <2> HIDE DEF K, f
  <2> QED
    BY <1>5, <1>6, LargestExists
<1> DEFINE V == {Nearest(SumFunctionOnSet(points, r), n) : r \in K}
<1>8. f[s] \in V /\ \A y \in V : f[s] >= y
  BY <1>7
<1>9. V \subseteq Nat
  BY <1>6
<1>10. Max(V) \in V
  <2> HIDE DEF V
  <2> QED
    BY <1>8 DEF Max
<1>11. UnitWeight(inputs, u) = Max(V)
  BY DEF UnitWeight, rows, n, points
<1> QED
  BY <1>9, <1>10, <1>11

\* The floors and the remainders add up.
LEMMA RemaindersAddUp ==
  ASSUME NEW us, IsFiniteSet(us), NEW wt, NEW base, NEW rem, NEW pool \in Int, NEW total \in Int,
         \A u \in us : /\ wt[u] \in Int /\ base[u] \in Int /\ rem[u] \in Int
                       /\ wt[u] * pool = base[u] * total + rem[u]
  PROVE  SumFunctionOnSet(wt, us) * pool
           = SumFunctionOnSet(base, us) * total + SumFunctionOnSet(rem, us)
<1> DEFINE bt == [u \in us |-> base[u] * total]
           all == [u \in us |-> wt[u] * pool]
<1>1. \A u \in us : wt[u] \in Int /\ all[u] = wt[u] * pool
  OBVIOUS
<1>2. \A u \in us : base[u] \in Int /\ bt[u] = base[u] * total
  OBVIOUS
<1>3. \A u \in us : bt[u] \in Int /\ rem[u] \in Int /\ all[u] = bt[u] + rem[u]
  OBVIOUS
<1> HIDE DEF all, bt
<1>4. SumFunctionOnSet(all, us) = SumFunctionOnSet(wt, us) * pool
  BY <1>1, SumTimes
<1>5. SumFunctionOnSet(bt, us) = SumFunctionOnSet(base, us) * total
  BY <1>2, SumTimes
<1>6. SumFunctionOnSet(all, us) = SumFunctionOnSet(bt, us) + SumFunctionOnSet(rem, us)
  BY <1>3, SumPlus
<1> QED
  BY <1>4, <1>5, <1>6

\* Floors and largest remainders: us share the pool by their weights wt, which add
\* up to total; base are the floors, rem the remainders, left what the floors leave
\* over.
Shares(us, wt, pool, total, base, rem, left) ==
    /\ us \subseteq Nat /\ IsFiniteSet(us)
    /\ \A u \in us : wt[u] \in Nat
    /\ pool \in Nat
    /\ total = SumFunctionOnSet(wt, us) /\ total > 0
    /\ \A u \in us : base[u] = (wt[u] * pool) \div total
    /\ \A u \in us : rem[u] = (wt[u] * pool) % total
    /\ left = pool - SumFunctionOnSet(base, us)

\* The units s have the largest remainders.
Winners(s, us, rem) == \A u \in s, v \in us \ s : rem[u] >= rem[v]

\* What a share is rounded down to, and what that cuts off.
LEMMA SharesAreNatural ==
  ASSUME NEW us, NEW wt, NEW pool, NEW total, NEW base, NEW rem, NEW left,
         Shares(us, wt, pool, total, base, rem, left)
  PROVE  /\ total \in Nat \ {0}
         /\ \A u \in us : /\ base[u] \in Nat /\ rem[u] \in 0..(total - 1)
                          /\ wt[u] * pool = base[u] * total + rem[u]
         /\ SumFunctionOnSet(base, us) \in Nat /\ SumFunctionOnSet(rem, us) \in Nat
<1> USE DEF Shares
<1>1. total \in Nat \ {0}
  <2>1. \A u \in us : wt[u] \in Nat
    OBVIOUS
  <2>2. SumFunctionOnSet(wt, us) \in Nat
    BY <2>1, SumIsNatural
  <2> QED
    BY <2>2
<1>2. \A u \in us : /\ base[u] \in Nat /\ rem[u] \in 0..(total - 1)
                    /\ wt[u] * pool = base[u] * total + rem[u]
  <2> SUFFICES ASSUME NEW u \in us
               PROVE  /\ base[u] \in Nat /\ rem[u] \in 0..(total - 1)
                      /\ wt[u] * pool = base[u] * total + rem[u]
    OBVIOUS
  <2> DEFINE b == wt[u] * pool
  <2>1. b \in Nat
    OBVIOUS
  <2>2. base[u] = b \div total /\ rem[u] = b % total
    OBVIOUS
  <2> HIDE DEF b
  <2>4. b \div total \in Nat /\ b % total \in 0..(total - 1) /\ b = (b \div total) * total + (b % total)
    BY <1>1, <2>1, DivMod
  <2>3. base[u] \in Nat /\ rem[u] \in 0..(total - 1) /\ b = base[u] * total + rem[u]
    BY <2>2, <2>4
  <2> QED
    BY <2>3 DEF b
<1>3. \A u \in us : base[u] \in Nat /\ rem[u] \in Nat
  BY <1>1, <1>2
<1> QED
  BY <1>1, <1>2, <1>3, SumIsNatural

\* There are enough units to give what is left over to, one each, and the ones with
\* the largest remainders can be chosen.
LEMMA WinnersExist ==
  ASSUME NEW us, NEW wt, NEW pool, NEW total, NEW base, NEW rem, NEW left,
         Shares(us, wt, pool, total, base, rem, left)
  PROVE  \E s \in SUBSET us : Cardinality(s) = left /\ Winners(s, us, rem)
<1> DEFINE sb == SumFunctionOnSet(base, us)  sr == SumFunctionOnSet(rem, us)
           R == {x \in us \X us : rem[x[1]] > rem[x[2]] \/ (rem[x[1]] = rem[x[2]] /\ x[1] < x[2])}
<1>1. total \in Nat \ {0}
  BY SharesAreNatural
<1>2. \A u \in us : /\ base[u] \in Nat /\ rem[u] \in 0..(total - 1)
                    /\ wt[u] * pool = base[u] * total + rem[u]
  BY SharesAreNatural
<1>4. sb \in Nat /\ sr \in Nat
  BY SharesAreNatural
<1> USE DEF Shares
<1>0. IsFiniteSet(us)
  OBVIOUS
<1>3. StrictOrder(R, us)
  <2>2. \A x, y \in us : <<x, y>> \in R <=> rem[x] > rem[y] \/ (rem[x] = rem[y] /\ x < y)
    OBVIOUS
  <2>3. \A x \in us : rem[x] \in Int /\ x \in Int
    BY <1>1, <1>2
  <2> HIDE DEF R
  <2>1. \A x \in us : <<x, x>> \notin R
    BY <2>2, <2>3
  <2>4. \A x, y \in us : x # y => <<x, y>> \in R \/ <<y, x>> \in R
    BY <2>2, <2>3
  <2>5. \A x, y, z \in us : <<x, y>> \in R /\ <<y, z>> \in R => <<x, z>> \in R
    BY <2>2, <2>3
  <2> QED
    BY <2>1, <2>4, <2>5 DEF StrictOrder
\* The remainders add up to left times the total.
<1>5. total * pool = sb * total + sr
  <2>1. \A u \in us : /\ wt[u] \in Int /\ base[u] \in Int /\ rem[u] \in Int
                       /\ wt[u] * pool = base[u] * total + rem[u]
    BY <1>1, <1>2
  <2>0. pool \in Int /\ total \in Int
    BY <1>1
  <2>2. SumFunctionOnSet(wt, us) * pool
          = SumFunctionOnSet(base, us) * total + SumFunctionOnSet(rem, us)
    BY ONLY <1>0, <2>0, <2>1, RemaindersAddUp
  <2> QED
    BY <2>2
<1>6. Cardinality(us) \in Nat /\ sr <= Cardinality(us) * total /\ (us # {} => sr < Cardinality(us) * total)
  <2> DEFINE lim1 == [u \in us |-> total - 1]
  <2>1. Cardinality(us) \in Nat
    BY FS_CardinalityType
  <2>3. SumFunctionOnSet(lim1, us) = Cardinality(us) * (total - 1)
    <3>1. \A u \in us : lim1[u] = total - 1
      OBVIOUS
    <3>2. total - 1 \in Int
      BY <1>1
    <3> QED
      BY ONLY <1>0, <3>1, <3>2, SumOfConstants
  <2>4. sr <= SumFunctionOnSet(lim1, us)
    <3> \A u \in us : rem[u] \in Int /\ lim1[u] \in Int /\ rem[u] <= lim1[u]
      BY <1>1, <1>2
    <3> HIDE DEF lim1
    <3> QED
      BY SumMonotone
  <2>5. Cardinality(us) * (total - 1) = Cardinality(us) * total - Cardinality(us)
    BY <1>1, <2>1
  <2>6. us # {} => Cardinality(us) > 0
    BY <2>1, FS_EmptySet
  <2>7. Cardinality(us) * total \in Nat
    BY <1>1, <2>1
  <2> QED
    BY <1>4, <2>1, <2>3, <2>4, <2>5, <2>6, <2>7
<1>7. left \in 0..Cardinality(us)
  <2>1. left = pool - sb
    OBVIOUS
  <2>2. left \in Int /\ pool = sb + left
    BY <1>4, <2>1
  <2> HIDE DEF sb, sr
  <2>3. total * pool = sb * total + left * total
    <3> \A x, y, t \in Int : t * (x + y) = x * t + y * t
      OBVIOUS
    <3> QED
      BY <1>1, <1>4, <2>2
  <2>4. left * total = sr
    <3> sb * total \in Int /\ left * total \in Int
      BY <1>1, <1>4, <2>2
    <3> QED
      BY <1>4, <1>5, <2>3
  <2>5. left >= 0
    <3> SUFFICES ASSUME left < 0 PROVE FALSE
      BY <2>2
    <3> left * total < 0
      BY <1>1, <2>2
    <3> QED
      BY <1>4, <2>4
  <2>6. left <= Cardinality(us)
    <3> SUFFICES ASSUME left >= Cardinality(us) + 1 PROVE FALSE
      BY <1>6, <2>2
    <3>1. \A c \in Nat, d \in Nat, t \in Nat \ {0} : d >= c + 1 => d * t > c * t
      <4> SUFFICES ASSUME NEW c \in Nat, NEW d \in Nat, NEW t \in Nat \ {0}, d >= c + 1
                   PROVE  d * t > c * t
        OBVIOUS
      <4>1. d - c \in Nat /\ d - c > 0 /\ d = c + (d - c)
        OBVIOUS
      <4>2. d * t = c * t + (d - c) * t
        BY <4>1
      <4>3. (d - c) * t > 0
        BY <4>1
      <4> QED
        BY <4>2, <4>3
    <3>2. left * total > Cardinality(us) * total
      BY <1>1, <1>6, <2>2, <2>5, <3>1
    <3>3. left * total \in Int /\ Cardinality(us) * total \in Int
      BY <1>1, <1>6, <2>2
    <3> QED
      BY <1>4, <1>6, <2>4, <3>2, <3>3
  <2> QED
    BY <1>6, <2>2, <2>5, <2>6
<1> DEFINE s == {u \in us : Cardinality(Before(R, us, u)) < left}
<1>8. Cardinality(s) = left
  BY <1>3, <1>7, FirstK
<1>9. ASSUME NEW u \in s, NEW v \in us \ s
      PROVE  rem[u] >= rem[v]
  <2>1. u \in us /\ v \in us /\ rem[u] \in Int /\ rem[v] \in Int
    BY <1>1, <1>2
  <2>2. SUFFICES ASSUME rem[v] > rem[u]
                 PROVE  FALSE
    BY <2>1
  <2>3. <<v, u>> \in R
    BY <2>1, <2>2
  <2>4. Before(R, us, v) \subseteq Before(R, us, u)
    BY <1>3, <2>1, <2>3 DEF Before, StrictOrder
  <2>5. IsFiniteSet(Before(R, us, u))
    <3> Before(R, us, u) \in SUBSET us
      BY DEF Before
    <3> QED
      BY FS_Subset
  <2>6. /\ Cardinality(Before(R, us, v)) <= Cardinality(Before(R, us, u))
        /\ IsFiniteSet(Before(R, us, v))
    BY <2>4, <2>5, FS_Subset
  <2>7. Cardinality(Before(R, us, u)) \in Nat /\ Cardinality(Before(R, us, v)) \in Nat
    BY <2>5, <2>6, FS_CardinalityType
  <2>8. Cardinality(Before(R, us, u)) < left /\ ~(Cardinality(Before(R, us, v)) < left) /\ left \in Int
    BY <1>7
  <2> QED
    BY <2>6, <2>7, <2>8
<1>10. s \in SUBSET us
  OBVIOUS
<1> HIDE DEF s
<1> QED
  BY <1>8, <1>9, <1>10 DEF Winners

\* What is paid adds up to the pool, and a larger weight has no smaller share.
LEMMA LargestRemainders ==
  ASSUME NEW us, NEW wt, NEW pool, NEW total, NEW base, NEW rem, NEW left,
         Shares(us, wt, pool, total, base, rem, left),
         NEW s \in SUBSET us, Cardinality(s) = left, Winners(s, us, rem),
         NEW a, \A u \in us : a[u] = base[u] + IF u \in s THEN 1 ELSE 0
  PROVE  /\ \A u \in us : a[u] \in Nat
         /\ SumFunctionOnSet(a, us) = pool
         /\ \A u, v \in us : wt[u] > wt[v] => a[u] >= a[v]
<1> DEFINE more == [u \in us |-> IF u \in s THEN 1 ELSE 0]
<1>1. total \in Nat \ {0}
  BY SharesAreNatural
<1>2. \A u \in us : base[u] \in Nat /\ rem[u] \in 0..(total - 1)
  BY SharesAreNatural
<1>4. SumFunctionOnSet(base, us) \in Nat
  BY SharesAreNatural
<1> USE DEF Shares
<1>0. IsFiniteSet(us)
  OBVIOUS
<1>9. SumFunctionOnSet(more, us) = left
  <2>1. (\A u \in s : more[u] = 1) /\ (\A u \in us \ s : more[u] = 0)
    OBVIOUS
  <2> HIDE DEF more
  <2>2. SumFunctionOnSet(more, us) = Cardinality(s)
    BY <1>0, <2>1, SumCounts
  <2> QED
    BY <2>2
<1>10. \A u \in us : a[u] = base[u] + more[u] /\ more[u] \in {0, 1}
  OBVIOUS
<1>11. SumFunctionOnSet(a, us) = SumFunctionOnSet(base, us) + SumFunctionOnSet(more, us)
  <2>1. \A u \in us : base[u] \in Int /\ more[u] \in Int /\ a[u] = base[u] + more[u]
    BY <1>2, <1>10
  <2> HIDE DEF more
  <2> QED
    BY ONLY <1>0, <2>1, SumPlus
<1>12. SumFunctionOnSet(a, us) = pool
  BY <1>4, <1>9, <1>11
<1>13. ASSUME NEW u \in us, NEW v \in us, wt[u] > wt[v]
       PROVE  a[u] >= a[v]
  <2> DEFINE x == wt[v] * pool  y == wt[u] * pool
  <2>0. /\ base[v] = x \div total /\ rem[v] = x % total
        /\ base[u] = y \div total /\ rem[u] = y % total
    OBVIOUS
  <2>1. CASE pool = 0
    <3>1. x = 0 /\ y = 0
      BY <2>1
    <3>2. base[u] = base[v]
      BY <2>0, <3>1
    <3>5. \A n \in us : base[n] = 0
      <4> SUFFICES ASSUME NEW n \in us
                   PROVE  base[n] = 0
        OBVIOUS
      <4>1. wt[n] * pool = 0
        BY <2>1
      <4>2. 0 \div total = 0
        BY <1>1
      <4> QED
        BY <4>1, <4>2
    <3>3. SumFunctionOnSet(base, us) = 0
      BY <1>0, <3>5, SumIsZero
    <3>7. left = 0
      BY <2>1, <3>3
    <3>4. Cardinality(s) = 0 /\ IsFiniteSet(s)
      BY <1>0, <3>7, FS_Subset
    <3>6. s = {}
      BY <3>4, FS_EmptySet
    <3> QED
      BY <1>2, <3>2, <3>6
  <2>2. CASE pool # 0
    <3>1. x \in Nat /\ y \in Nat /\ x < y
      <4>1. x \in Nat /\ y \in Nat
        OBVIOUS
      <4>2. wt[u] - wt[v] \in Nat \ {0} /\ wt[u] = wt[v] + (wt[u] - wt[v])
        BY <1>13
      <4>3. y = x + (wt[u] - wt[v]) * pool
        BY <4>2
      <4>4. (wt[u] - wt[v]) * pool > 0
        BY <2>2, <4>2
      <4> QED
        BY <4>1, <4>3, <4>4
    <3> HIDE DEF x, y
    <3>3. \/ x \div total < y \div total
          \/ x \div total = y \div total /\ x % total < y % total
      BY <1>1, <3>1, DivMonotone
    <3>4. base[v] < base[u] \/ (base[v] = base[u] /\ rem[v] < rem[u])
      BY <2>0, <3>3
    <3>5. CASE base[v] < base[u]
      BY <1>2, <1>10, <3>5
    <3>6. CASE base[v] = base[u] /\ rem[v] < rem[u]
      <4>1. v \in s => u \in s
        BY <1>1, <1>2, <3>6 DEF Winners
      <4> QED
        BY <1>2, <3>6, <4>1
    <3> QED
      BY <3>4, <3>5, <3>6
  <2> QED
    BY <2>1, <2>2
<1>14. \A u \in us : a[u] \in Nat
  BY <1>2
<1> QED
  BY <1>12, <1>13, <1>14

\* The units of the inputs are finitely many, and Nat.
LEMMA UnitsOfInputs ==
  ASSUME NEW inputs \in SUBSET InputRow, IsFiniteSet(inputs)
  PROVE  Units(inputs) \in SUBSET Nat /\ IsFiniteSet(Units(inputs))
<1>1. Units(inputs) \in SUBSET Nat
  BY RewardsAssumption DEF Units, InputRow
<1> DEFINE f == [i \in inputs |-> Unit[i.m]]
<1>2. f \in Surjection(inputs, Units(inputs))
  BY DEF Surjection, Units
<1> QED
  BY <1>1, <1>2, FS_Surjection

\* The weights of a window have a sum.
LEMMA TotalIsNatural ==
  ASSUME NEW inputs \in SUBSET InputRow, IsFiniteSet(inputs)
  PROVE  TotalWeight(inputs) \in Nat
<1> DEFINE wt == [u \in Units(inputs) |-> UnitWeight(inputs, u)]
<1>1. \A u \in Units(inputs) : wt[u] \in Nat
  BY WeightIsNatural
<1>2. SumFunctionOnSet(wt, Units(inputs)) \in Nat
  BY <1>1, UnitsOfInputs, SumIsNatural
<1>3. DOMAIN wt = Units(inputs)
  OBVIOUS
<1> QED
  BY <1>2, <1>3 DEF TotalWeight, SumFunction

\* The allocation pays the pool to the last unit, and no smaller share for a larger
\* weight; and there is one.
LEMMA AllocationIsExact ==
  ASSUME NEW inputs \in SUBSET InputRow, IsFiniteSet(inputs), HasPositiveWeight(inputs),
         NEW pool \in Nat
  PROVE  /\ Allocations(inputs, pool) # {}
         /\ \A a \in Allocations(inputs, pool) :
              /\ a \in [Units(inputs) -> Nat]
              /\ SumFunction(a) = pool
              /\ \A u, v \in Units(inputs) :
                   UnitWeight(inputs, u) > UnitWeight(inputs, v) => a[u] >= a[v]
<1> DEFINE us == Units(inputs)
           wt == [u \in us |-> UnitWeight(inputs, u)]
           total == TotalWeight(inputs)
           base == Floors(inputs, pool)
           rem == Remainders(inputs, pool)
           left == pool - SumFunction(base)
           best == {x \in kSubset(left, us) : \A u \in x, v \in us \ x : rem[u] >= rem[v]}
<1>0. pool \in Nat
  OBVIOUS
<1>1. us \subseteq Nat /\ IsFiniteSet(us)
  BY UnitsOfInputs
<1>2. \A u \in us : wt[u] \in Nat
  BY WeightIsNatural
<1>3. total = SumFunctionOnSet(wt, us) /\ total > 0
  BY DEF TotalWeight, SumFunction, HasPositiveWeight
<1>4. (\A u \in us : base[u] = (wt[u] * pool) \div total)
      /\ (\A u \in us : rem[u] = (wt[u] * pool) % total)
  BY DEF Floors, Remainders
<1>5. left = pool - SumFunctionOnSet(base, us)
  BY DEF SumFunction, Floors
<1>6. \A u \in us : wt[u] = UnitWeight(inputs, u)
  OBVIOUS
<1>7. Allocations(inputs, pool)
        = {[u \in us |-> base[u] + IF u \in s THEN 1 ELSE 0] : s \in best}
  BY DEF Allocations
<1>8. best = {x \in SUBSET us : Cardinality(x) = left /\ Winners(x, us, rem)}
  BY DEF kSubset, Winners
<1> HIDE DEF us, wt, total, base, rem, left, best
<1>9. Shares(us, wt, pool, total, base, rem, left)
  BY ONLY <1>0, <1>1, <1>2, <1>3, <1>4, <1>5 DEF Shares
<1>10. best # {}
  <2> \E s \in SUBSET us : Cardinality(s) = left /\ Winners(s, us, rem)
    BY ONLY <1>9, WinnersExist
  <2> QED
    BY <1>8
<1>11. ASSUME NEW a \in Allocations(inputs, pool)
       PROVE  /\ a \in [us -> Nat]
              /\ SumFunction(a) = pool
              /\ \A u, v \in us : UnitWeight(inputs, u) > UnitWeight(inputs, v) => a[u] >= a[v]
  <2>1. PICK s \in best : a = [u \in us |-> base[u] + IF u \in s THEN 1 ELSE 0]
    BY <1>7
  <2>2. s \in SUBSET us /\ Cardinality(s) = left /\ Winners(s, us, rem)
    BY <1>8
  <2>3. \A u \in us : a[u] = base[u] + IF u \in s THEN 1 ELSE 0
    BY <2>1
  <2>4. DOMAIN a = us /\ a = [u \in us |-> a[u]]
    BY <2>1
  <2>5. /\ \A u \in us : a[u] \in Nat
        /\ SumFunctionOnSet(a, us) = pool
        /\ \A u, v \in us : wt[u] > wt[v] => a[u] >= a[v]
    BY ONLY <1>9, <2>2, <2>3, LargestRemainders
  <2>6. SumFunction(a) = pool
    BY <2>4, <2>5 DEF SumFunction
  <2>7. \A u, v \in us : UnitWeight(inputs, u) > UnitWeight(inputs, v) => a[u] >= a[v]
    BY <1>6, <2>5
  <2>8. a \in [us -> Nat]
    BY <2>4, <2>5
  <2> QED
    BY <2>6, <2>7, <2>8
<1>12. Allocations(inputs, pool) # {}
  <2>1. PICK s \in best : TRUE
    BY <1>10
  <2>2. [u \in us |-> base[u] + IF u \in s THEN 1 ELSE 0] \in Allocations(inputs, pool)
    BY <1>7, <2>1
  <2> QED
    BY <2>2
<1> QED
  BY <1>11, <1>12 DEF us

------------------------------------------------------------------------------
(* The types, with any number of workers and crashes.                       *)

\* What a window selects.
LEMMA SelectedInputs ==
  ASSUME Types, NEW w \in Windows, NEW prov
  PROVE  Selected(w, prov) \in SUBSET InputRow /\ IsFiniteSet(Selected(w, prov))
<1> DEFINE X == Covers[w] \X Miners
           Y == {x \in X : LET r == result[x[1]][x[2]] IN
                           /\ r # None
                           /\ r.eligible
                           /\ r.final \/ prov
                           /\ MatchesRanking(x[1], x[2], r.rank, r.snap)
                           /\ RewardIdentity(x[2])}
           Row(y) == [result[y[1]][y[2]] EXCEPT !.final = TRUE]
           f == [y \in Y |-> [t |-> y[1], m |-> y[2], row |-> Row(y)]]
<1>1. Covers[w] \in SUBSET Tournaments
  BY RewardsAssumption
<1>2. IsFiniteSet(X)
  <2> IsFiniteSet(Covers[w])
    BY <1>1, RewardsAssumption, FS_Subset
  <2> QED
    BY RewardsAssumption, FS_Product
<1>3. IsFiniteSet(Y)
  BY <1>2, FS_Subset
<1>4. \A y \in Y : y[1] \in Tournaments /\ y[2] \in Miners /\ result[y[1]][y[2]] \in ResultRow
  <2> \A y \in X : y[1] \in Tournaments /\ y[2] \in Miners
    BY <1>1
  <2> \A t \in Tournaments, m \in Miners : result[t][m] \in ResultRow \cup {None}
    BY DEF Types
  <2> HIDE DEF X
  <2> QED
    OBVIOUS
<1>8. \A y \in Y : Row(y) \in ResultRow
  <2> HIDE DEF Y
  <2> QED
    BY <1>4 DEF ResultRow
<1>5. Selected(w, prov) = {[t |-> y[1], m |-> y[2], row |-> Row(y)] : y \in Y}
  BY DEF Selected
<1> HIDE DEF Y, Row
<1>6. Selected(w, prov) \in SUBSET InputRow
  BY <1>4, <1>5, <1>8 DEF InputRow
<1>7. f \in Surjection(Y, Selected(w, prov))
  BY <1>5 DEF Surjection
<1> QED
  BY <1>3, <1>6, <1>7, FS_Surjection

\* A handler stays what it is when windows are added.
LEMMA SavedGrows ==
  ASSUME NEW q, NEW old, NEW new, old \subseteq new, HandlerOK(q, old)
  PROVE  HandlerOK(q, new)
BY DEF HandlerOK

\* An idle worker carries nothing.
LEMMA IdleOK ==
  ASSUME NEW saved, NEW pc \in {"idle", "done"}, NEW w \in Windows \cup {None}
  PROVE  /\ Idle \in Handler /\ IsFiniteSet(Idle.inputs) /\ HandlerOK(Idle, saved)
         /\ [Idle EXCEPT !.pc = pc, !.w = w] \in Handler
         /\ HandlerOK([Idle EXCEPT !.pc = pc, !.w = w], saved)
<1>1. Idle \in Handler
  BY DEF Idle, Handler, PCs
<1>2. IsFiniteSet({})
  BY FS_EmptySet
<1>3. [Idle EXCEPT !.pc = pc, !.w = w] \in Handler
  BY <1>1 DEF Handler, PCs
<1>4. HandlerOK(Idle, saved)
  BY <1>1, <1>2 DEF HandlerOK, Idle, PayPCs, BuildPCs, SyncPCs
<1>5. HandlerOK([Idle EXCEPT !.pc = pc, !.w = w], saved)
  BY <1>3, <1>2 DEF HandlerOK, Idle, PayPCs, BuildPCs, SyncPCs
<1> QED
  BY <1>1, <1>2, <1>3, <1>4, <1>5 DEF Idle

\* The handler after a step that begins anew, with a window.
LEMMA FreshOK ==
  ASSUME NEW saved, NEW w \in Windows
  PROVE  /\ \A pc \in {"done", "batches", "reconciled"} : HandlerOK([Idle EXCEPT !.pc = pc, !.w = w], saved)
         /\ w \in saved => HandlerOK([Idle EXCEPT !.pc = "sync", !.w = w, !.then = "reconciled"], saved)
<1>0. Idle \in Handler
  BY IdleOK
<1>1. IsFiniteSet({})
  BY FS_EmptySet
<1>2. ASSUME NEW pc \in {"done", "batches", "reconciled"}
      PROVE HandlerOK([Idle EXCEPT !.pc = pc, !.w = w], saved)
  <2>1. [Idle EXCEPT !.pc = pc, !.w = w] \in Handler
    BY <1>0 DEF Handler, PCs, PayPCs
  <2> QED
    BY <2>1, <1>1 DEF HandlerOK, Idle, PayPCs, BuildPCs, SyncPCs
<1>3. ASSUME w \in saved
      PROVE HandlerOK([Idle EXCEPT !.pc = "sync", !.w = w, !.then = "reconciled"], saved)
  <2>1. [Idle EXCEPT !.pc = "sync", !.w = w, !.then = "reconciled"] \in Handler
    BY <1>0 DEF Handler, PCs, PayPCs, SyncPCs
  <2> QED
    BY <2>1, <1>1, <1>3 DEF HandlerOK, Idle, PayPCs, BuildPCs, SyncPCs
<1> QED
  BY <1>2, <1>3

\* A step of one handler.
LEMMA OneHandler ==
  ASSUME Types, NEW k \in Workers, NEW f, Goto(k, f), HandlerOK(f, Saved'), Saved \subseteq Saved'
  PROVE  /\ proc' \in [Workers -> Handler] /\ proc'[k] = f
         /\ \A j \in Workers : HandlerOK(proc'[j], Saved')
<1>1. f \in Handler
  BY DEF HandlerOK
<1>2. proc' = [proc EXCEPT ![k] = f]
  BY DEF Goto
<1>3. proc \in [Workers -> Handler] /\ \A j \in Workers : HandlerOK(proc[j], Saved)
  BY DEF Types
<1>4. \A j \in Workers : HandlerOK(proc[j], Saved')
  BY <1>3, SavedGrows
<1> QED
  BY <1>1, <1>2, <1>3, <1>4

\* The invariant holds of an empty service.
LEMMA InitRewards ==
  ASSUME Init
  PROVE  RewardsInv
<1>1. \A k \in Workers : HandlerOK(proc[k], Saved) /\ proc[k] \in Handler
  BY IdleOK DEF Init
<1>2. Types
  BY <1>1 DEF Init, Types
<1> QED
  BY <1>2 DEF Init, AllocationAddsUp, RewardsInv

\* The rows that are written are rows.
LEMMA RowTypes ==
  ASSUME NEW rank \in 1..FieldSize
  PROVE  /\ \A hid \in HidScore \cup {0} : Score(rank, hid) \in Int
         /\ \A snap \in Nat, m \in Miners, hid \in HidScore \cup {None} :
              ProjectedRow(m, [rank |-> rank, snap |-> snap], hid) \in ResultRow
<1> DEFINE ts == Nearest(Scale * (FieldSize - rank), FieldSize - 1)
<1>0. Scale \in Int
  BY SMT DEF Scale
<1>1. FieldSize - 1 \in Nat \ {0} /\ Scale * (FieldSize - rank) \in Int
  BY <1>0, RewardsAssumption
<1>2. ts \in Int
  BY <1>1, NearestType
<1> HIDE DEF ts
<1>3. ASSUME NEW hid \in HidScore \cup {0}
      PROVE  Score(rank, hid) \in Int
  <2>1. hid \in Int
    BY DEF HidScore
  <2>2. 55 * ts + 25 * Scale * hid \in Int /\ 100 \in Nat \ {0}
    BY <1>0, <1>2, <2>1
  <2>3. Score(rank, hid) = Nearest(55 * ts + 25 * Scale * hid, 100)
    BY DEF Score, ts
  <2> QED
    BY <2>2, <2>3, NearestType
<1>4. ASSUME NEW snap \in Nat, NEW m \in Miners, NEW hid \in HidScore \cup {None}
      PROVE  ProjectedRow(m, [rank |-> rank, snap |-> snap], hid) \in ResultRow
  <2>1. Score(rank, IF hid = None THEN 0 ELSE hid) \in Int
    BY <1>3
  <2> QED
    BY <2>1 DEF ProjectedRow, ResultRow, RewardIdentity
<1> QED
  BY <1>3, <1>4

\* The tables of windows, projections, budgets and batches keep what they are when
\* a step leaves them alone.
LEMMA PayRowsKept ==
  ASSUME RewardsInv, UNCHANGED payRows
  PROVE  /\ Saved' = Saved
         /\ window' \in [Windows -> WindowRow \cup {None}]
         /\ proj' \in [Windows -> ProjectionRow \cup {None}]
         /\ ledger' \in [Windows -> BudgetRow \cup {None}]
         /\ batch' \in [Windows -> BatchRow \cup {None}]
         /\ \A w \in Windows : batch'[w] # None => w \in Saved'
         /\ AllocationAddsUp'
BY DEF RewardsInv, Types, Saved, payRows, AllocationAddsUp

\* Hidden evaluations, results and rankings arrive.
LEMMA InputSteps ==
  ASSUME RewardsInv, NEW t \in Tournaments, NEW m \in Miners,
         \/ \E s \in HiddenScores[m] : SaveHiddenEvalEntry(t, m, s)
         \/ \E p \in LegacyResults, final \in BOOLEAN : ApplyResult(t, m, p, final)
  PROVE  RewardsInv'
<1>0. Types
  BY DEF RewardsInv
<1>1. CASE \E s \in HiddenScores[m] : SaveHiddenEvalEntry(t, m, s)
  <2>1. PICK s \in HiddenScores[m] : SaveHiddenEvalEntry(t, m, s)
    BY <1>1
  <2>2. s \in HidScore
    BY RewardsAssumption DEF HidScore
  <2>3. UNCHANGED payRows /\ UNCHANGED <<ranking, result, proc>>
    BY <2>1 DEF SaveHiddenEvalEntry
  <2>4. hidden' \in [Tournaments -> [Miners -> HidScore \cup {None}]]
    BY <1>0, <2>1, <2>2 DEF SaveHiddenEvalEntry, Types
  <2> QED
    BY <1>0, <2>3, <2>4, PayRowsKept DEF RewardsInv, Types
<1>2. CASE \E p \in LegacyResults, final \in BOOLEAN : ApplyResult(t, m, p, final)
  <2>1. PICK p \in LegacyResults, final \in BOOLEAN : ApplyResult(t, m, p, final)
    BY <1>2
  <2>2. p \in ProjectionType /\ m \in DOMAIN p.ranks
    BY <2>1, RewardsAssumption DEF ApplyResult
  <2>3. p.ranks[m] \in 1..FieldSize /\ p.id \in Nat
    BY <2>2 DEF ProjectionType
  <2> DEFINE e == MatchesRanking(t, m, p.ranks[m], p.id) /\ hidden[t][m] # None
             h == IF e THEN hidden[t][m] ELSE 0
             row == [rank |-> p.ranks[m], snap |-> p.id, final |-> final, eligible |-> e,
                     score |-> Score(p.ranks[m], h)]
  <2>4. result' = [result EXCEPT ![t][m] = row]
    BY <2>1 DEF ApplyResult
  <2>5. h \in HidScore \cup {0} /\ e \in BOOLEAN
    <3>1. hidden[t][m] \in HidScore \cup {None}
      BY <1>0 DEF Types
    <3>2. e \in BOOLEAN
      BY DEF MatchesRanking
    <3> QED
      BY <3>1, <3>2
  <2> HIDE DEF e, h
  <2>6. Score(p.ranks[m], h) \in Int
    BY <2>3, <2>5, RowTypes
  <2>7. row \in ResultRow
    BY <2>3, <2>5, <2>6 DEF ResultRow
  <2> HIDE DEF row
  <2>8. result' \in [Tournaments -> [Miners -> ResultRow \cup {None}]]
    BY <1>0, <2>4, <2>7 DEF Types
  <2>9. UNCHANGED payRows /\ UNCHANGED <<ranking, hidden, proc>>
    BY <2>1 DEF ApplyResult
  <2> QED
    BY <1>0, <2>8, <2>9, PayRowsKept DEF RewardsInv, Types
<1> QED
  BY <1>1, <1>2

\* A step that leaves the payment tables alone and keeps the input tables typed.
LEMMA InputsTyped ==
  ASSUME RewardsInv, UNCHANGED payRows, NEW k \in Workers, NEW f, Goto(k, f), HandlerOK(f, Saved),
         ranking' \in [Tournaments -> [Miners -> RankRow \cup {None}]],
         hidden' \in [Tournaments -> [Miners -> HidScore \cup {None}]],
         result' \in [Tournaments -> [Miners -> ResultRow \cup {None}]]
  PROVE  RewardsInv'
<1>1. /\ Saved' = Saved
      /\ window' \in [Windows -> WindowRow \cup {None}]
      /\ proj' \in [Windows -> ProjectionRow \cup {None}]
      /\ ledger' \in [Windows -> BudgetRow \cup {None}]
      /\ batch' \in [Windows -> BatchRow \cup {None}]
      /\ \A w \in Windows : batch'[w] # None => w \in Saved'
      /\ AllocationAddsUp'
  BY PayRowsKept
<1>2. Types
  BY DEF RewardsInv
<1>3. proc' \in [Workers -> Handler] /\ \A j \in Workers : HandlerOK(proc'[j], Saved')
  BY <1>1, <1>2, OneHandler
<1> QED
  BY <1>1, <1>3 DEF RewardsInv, Types

\* The projection of a final ranking, row by row.
LEMMA ProjectSteps ==
  ASSUME RewardsInv, NEW k \in Workers, Project(k)
  PROVE  RewardsInv'
<1> DEFINE q == proc[k]
<1>0. /\ Types /\ q \in Handler /\ HandlerOK(q, Saved)
      /\ ranking \in [Tournaments -> [Miners -> RankRow \cup {None}]]
      /\ hidden \in [Tournaments -> [Miners -> HidScore \cup {None}]]
      /\ result \in [Tournaments -> [Miners -> ResultRow \cup {None}]]
  BY DEF RewardsInv, Types
<1>1. CASE \E p \in Projections : ProjectStart(k, p)
  <2>1. PICK p \in Projections : ProjectStart(k, p)
    BY <1>1
  <2> DEFINE f == [Idle EXCEPT !.pc = "rank", !.p = p, !.todo = DOMAIN p.ranks]
  <2>2. Goto(k, f) /\ UNCHANGED <<inputRows, payRows>>
    BY <2>1 DEF ProjectStart
  <2>3. DOMAIN p.ranks \in SUBSET Miners
    <3>1. p \in ProjectionType
      BY RewardsAssumption
    <3>2. PICK ms \in SUBSET Miners : p.ranks \in [ms -> 1..FieldSize]
      BY <3>1 DEF ProjectionType
    <3> QED
      BY <3>2
  <2>4. f \in Handler
    <3> Idle \in Handler
      BY IdleOK
    <3> QED
      BY <2>3 DEF Handler, PCs
  <2>5. HandlerOK(f, Saved)
    <3> IsFiniteSet({})
      BY FS_EmptySet
    <3> QED
      BY <2>4 DEF HandlerOK, Idle, PayPCs, BuildPCs, SyncPCs
  <2> HIDE DEF f
  <2> QED
    BY <1>0, <2>2, <2>5, InputsTyped DEF inputRows
<1>2. CASE SaveFinalRanking(k)
  <2>1. PICK m \in q.todo :
          /\ ranking' = [ranking EXCEPT ![q.p.tournament][m] =
                           [rank |-> q.p.ranks[m], snap |-> q.p.id]]
          /\ Goto(k, [q EXCEPT !.todo = @ \ {m}])
    BY <1>2 DEF SaveFinalRanking
  <2>2. q.pc = "rank" /\ UNCHANGED <<hidden, result>> /\ UNCHANGED payRows
    BY <1>2 DEF SaveFinalRanking, At
  <2>3. q.p \in Projections /\ q.todo \subseteq DOMAIN q.p.ranks
    BY <1>0, <2>2 DEF HandlerOK
  <2>4. q.p \in ProjectionType
    BY <2>3, RewardsAssumption
  <2>5. q.p.tournament \in Tournaments /\ m \in Miners /\ [rank |-> q.p.ranks[m], snap |-> q.p.id] \in RankRow
    BY <2>3, <2>4 DEF ProjectionType, RankRow
  <2>6. ranking' \in [Tournaments -> [Miners -> RankRow \cup {None}]]
    BY <1>0, <2>1, <2>5
  <2> DEFINE f == [q EXCEPT !.todo = @ \ {m}]
  <2>7. f \in Handler
    BY <1>0 DEF Handler
  <2>8. HandlerOK(f, Saved)
    BY <1>0, <2>2, <2>7 DEF HandlerOK, Handler, PayPCs, BuildPCs, SyncPCs
  <2>9. Goto(k, f)
    BY <2>1
  <2> HIDE DEF f
  <2> QED
    BY <1>0, <2>2, <2>6, <2>8, <2>9, InputsTyped
<1>3. CASE ProjectValidate(k)
  <2> DEFINE t == q.p.tournament
             ms == Canonical(t)
             g == [q EXCEPT !.pc = "result", !.todo = ms, !.rows = ranking[t], !.hid = hidden[t]]
             f == IF ValidRanks(t, ms) THEN g ELSE Idle
  <2>1. q.pc = "rank" /\ Goto(k, f) /\ UNCHANGED inputRows /\ UNCHANGED payRows
    BY <1>3 DEF ProjectValidate, At
  <2>2. q.p \in Projections
    BY <1>0, <2>1 DEF HandlerOK
  <2>3. t \in Tournaments
    BY <2>2, RewardsAssumption DEF ProjectionType
  <2>4. /\ ranking[t] \in [Miners -> RankRow \cup {None}]
        /\ hidden[t] \in [Miners -> HidScore \cup {None}]
    BY <1>0, <2>3
  <2>5. ms \in SUBSET Miners /\ \A m \in ms : ranking[t][m] \in RankRow
    BY <2>4 DEF Canonical
  <2> HIDE DEF t, ms
  <2>6. g \in Handler
    BY <1>0, <2>4, <2>5 DEF Handler, PCs
  <2>7. HandlerOK(g, Saved)
    BY <1>0, <2>2, <2>4, <2>5, <2>6 DEF HandlerOK, Handler, PayPCs, BuildPCs, SyncPCs
  <2>8. HandlerOK(f, Saved)
    <3> HIDE DEF g
    <3> QED
      BY <2>7, IdleOK
  <2> HIDE DEF f
  <2> QED
    BY <1>0, <2>1, <2>8, InputsTyped DEF inputRows
<1>4. CASE SaveResult(k)
  <2>1. PICK m \in q.todo :
          /\ result' = [result EXCEPT ![q.p.tournament][m] =
                          ProjectedRow(m, q.rows[m], q.hid[m])]
          /\ Goto(k, [q EXCEPT !.todo = @ \ {m}])
    BY <1>4 DEF SaveResult
  <2>2. q.pc = "result" /\ UNCHANGED <<hidden, ranking>> /\ UNCHANGED payRows
    BY <1>4 DEF SaveResult, At
  <2>3. q.p \in Projections /\ q.rows[m] \in RankRow /\ q.hid \in [Miners -> HidScore \cup {None}]
    BY <1>0, <2>2 DEF HandlerOK
  <2>4. m \in Miners /\ q.p.tournament \in Tournaments
    BY <1>0, <2>3, RewardsAssumption DEF ProjectionType, Handler
  <2>5. q.rows[m] = [rank |-> q.rows[m].rank, snap |-> q.rows[m].snap]
        /\ q.rows[m].rank \in 1..FieldSize /\ q.rows[m].snap \in Nat
    BY <2>3 DEF RankRow
  <2>6. ProjectedRow(m, q.rows[m], q.hid[m]) \in ResultRow
    <3>1. q.hid[m] \in HidScore \cup {None}
      BY <2>3, <2>4
    <3>2. ProjectedRow(m, [rank |-> q.rows[m].rank, snap |-> q.rows[m].snap], q.hid[m]) \in ResultRow
      BY <2>4, <2>5, <3>1, RowTypes
    <3> QED
      BY <2>5, <3>2
  <2>10. result' \in [Tournaments -> [Miners -> ResultRow \cup {None}]]
    BY <1>0, <2>1, <2>4, <2>6
  <2> DEFINE f == [q EXCEPT !.todo = @ \ {m}]
  <2>7. f \in Handler
    BY <1>0 DEF Handler
  <2>8. HandlerOK(f, Saved)
    BY <1>0, <2>2, <2>7 DEF HandlerOK, Handler, PayPCs, BuildPCs, SyncPCs
  <2>9. Goto(k, f)
    BY <2>1
  <2> HIDE DEF f
  <2> QED
    BY <1>0, <2>2, <2>10, <2>8, <2>9, InputsTyped
<1>5. CASE SaveProjectionArtifact(k)
  <2>1. Goto(k, Idle) /\ UNCHANGED <<ranking, hidden, result>> /\ UNCHANGED payRows
    BY <1>5 DEF SaveProjectionArtifact
  <2>2. HandlerOK(Idle, Saved)
    BY IdleOK
  <2> QED
    BY <1>0, <2>1, <2>2, InputsTyped
<1> QED
  BY <1>1, <1>2, <1>3, <1>4, <1>5 DEF Project

\* What a build wants to pay.
LEMMA AmountType ==
  ASSUME NEW q \in Handler, IsFiniteSet(q.inputs), q.w \in Windows
  PROVE  /\ Amount(q) \in Nat /\ q.pool \in Nat
         /\ Amount(q) = IF Pays(q) THEN q.pool ELSE 0
BY DEF Amount, Pays, Handler

\* The start of a build, of a request or of reconcile.
LEMMA BuildStartStep ==
  ASSUME RewardsInv, NEW k \in Workers, NEW w \in Windows, NEW prov \in BOOLEAN,
           NEW pool \in Nat, NEW then \in {"done", "batches"}, BuildStart(k, w, prov, pool, then)
  PROVE  RewardsInv'
<1> DEFINE inputs == Selected(w, prov)
           lk == window[w] # None /\ window[w].linked
           found == [Idle EXCEPT !.w = w, !.inputs = inputs, !.then = then, !.prov = prov,
                                 !.pool = pool, !.linked = lk]
           f == IF Closed(w) \/ (inputs # {} /\ UpToDate(w, inputs, prov, pool))
                    THEN [Idle EXCEPT !.pc = then, !.w = w]
                  ELSE IF inputs = {} THEN Idle
                  ELSE IF HasPositiveWeight(inputs)
                    THEN [found EXCEPT !.pc = "budget"]
                  ELSE [found EXCEPT !.pc = "cancel"]
<1>0. Types
  BY DEF RewardsInv
<1>1. Goto(k, f) /\ UNCHANGED inputRows /\ UNCHANGED payRows
  BY DEF BuildStart
<1>2. inputs \in SUBSET InputRow /\ IsFiniteSet(inputs)
  BY <1>0, SelectedInputs
<1>3. lk \in BOOLEAN
  BY <1>0 DEF Types, WindowRow
<1> HIDE DEF inputs, lk
<1>4. Idle \in Handler
  BY IdleOK
<1>5. found \in Handler
  BY <1>2, <1>3, <1>4 DEF Handler
<1>6. [found EXCEPT !.pc = "budget"] \in Handler /\ [found EXCEPT !.pc = "cancel"] \in Handler
  <2> HIDE DEF found
  <2> QED
    BY <1>5 DEF Handler, PCs, PayPCs, BuildPCs
<1>7. /\ found.w = w /\ found.inputs = inputs /\ found.then = then
  BY DEF Idle
<1>8. ASSUME inputs # {}, NEW pc \in {"budget", "cancel"}, pc = "cancel" => ~HasPositiveWeight(inputs)
      PROVE  HandlerOK([found EXCEPT !.pc = pc], Saved)
  <2> DEFINE g == [found EXCEPT !.pc = pc]
  <2>1. g \in Handler
    BY <1>6
  <2>2. g.pc = pc /\ g.w = w /\ g.inputs = inputs /\ g.then = then
    <3> HIDE DEF found
    <3> QED
      BY <1>5, <1>7 DEF Handler
  <2> HIDE DEF g
  <2>3. HandlerOK(g, Saved)
    BY <1>2, <1>8, <2>1, <2>2 DEF HandlerOK, PayPCs, BuildPCs, SyncPCs, Pays
  <2> QED
    BY <2>3 DEF g
<1>9. HandlerOK(f, Saved)
  <2>1. HandlerOK(Idle, Saved) /\ HandlerOK([Idle EXCEPT !.pc = then, !.w = w], Saved)
    BY IdleOK, FreshOK
  <2> HIDE DEF found
  <2> QED
    BY <1>8, <2>1
<1> HIDE DEF f
<1> QED
  BY <1>0, <1>1, <1>9, InputsTyped DEF inputRows, Types

\* A step that leaves the input tables alone.
LEMMA PayTyped ==
  ASSUME RewardsInv, UNCHANGED inputRows, NEW k \in Workers, NEW f, Goto(k, f), HandlerOK(f, Saved'),
         Saved \subseteq Saved',
         window' \in [Windows -> WindowRow \cup {None}],
         proj' \in [Windows -> ProjectionRow \cup {None}],
         ledger' \in [Windows -> BudgetRow \cup {None}],
         batch' \in [Windows -> BatchRow \cup {None}],
         \A w \in Windows : batch'[w] # None => w \in Saved',
         AllocationAddsUp'
  PROVE  RewardsInv'
<1>1. Types
  BY DEF RewardsInv
<1>2. proc' \in [Workers -> Handler] /\ \A j \in Workers : HandlerOK(proc'[j], Saved')
  BY <1>1, OneHandler
<1>3. UNCHANGED <<ranking, hidden, result>>
  BY DEF inputRows
<1> QED
  BY <1>1, <1>2, <1>3 DEF RewardsInv, Types

\* A handler goes on to its next step.
LEMMA Advance ==
  ASSUME NEW q, NEW saved, HandlerOK(q, saved), NEW pc \in PayPCs, q.w \in Windows,
         pc \in BuildPCs \cup {"ledgerLink"} => q.inputs # {} /\ q.then \in {"done", "batches"},
         pc # "cancel",
         pc \in SyncPCs => \/ q.inputs = {} /\ q.then = "reconciled"
                           \/ Pays(q) /\ q.then \in {"done", "batches"},
         pc \in {"ledger", "projection"} \cup SyncPCs => q.w \in saved
  PROVE  HandlerOK([q EXCEPT !.pc = pc], saved)
<1> DEFINE g == [q EXCEPT !.pc = pc]
<1>1. q \in Handler /\ IsFiniteSet(q.inputs)
  BY DEF HandlerOK
<1>2. g \in Handler
  BY <1>1 DEF Handler, PCs
<1>3. g.pc = pc /\ g.w = q.w /\ g.inputs = q.inputs /\ g.then = q.then
  BY <1>1 DEF Handler
<1> HIDE DEF g
<1>4. Pays(g) = Pays(q)
  BY <1>3 DEF Pays
<1>5. HandlerOK(g, saved)
  BY <1>1, <1>2, <1>3, <1>4 DEF HandlerOK, PayPCs, BuildPCs, SyncPCs
<1> QED
  BY <1>5 DEF g

\* What is known of a handler that builds.
LEMMA BuilderFacts ==
  ASSUME Types, NEW k \in Workers, proc[k].pc \in PayPCs
  PROVE  /\ proc[k] \in Handler /\ HandlerOK(proc[k], Saved) /\ proc[k].w \in Windows
         /\ IsFiniteSet(proc[k].inputs)
         /\ Amount(proc[k]) \in Nat /\ proc[k].pool \in Nat
         /\ Amount(proc[k]) = (IF Pays(proc[k]) THEN proc[k].pool ELSE 0)
         /\ proc[k].inputs \in SUBSET InputRow
<1>1. proc[k] \in Handler /\ HandlerOK(proc[k], Saved)
  BY DEF Types
<1>2. proc[k].w \in Windows /\ IsFiniteSet(proc[k].inputs)
  BY <1>1 DEF HandlerOK
<1> QED
  BY <1>1, <1>2, AmountType DEF Handler

\* The tables before a step.
LEMMA TablesTyped ==
  ASSUME RewardsInv
  PROVE  /\ Types
         /\ window \in [Windows -> WindowRow \cup {None}]
         /\ proj \in [Windows -> ProjectionRow \cup {None}]
         /\ ledger \in [Windows -> BudgetRow \cup {None}]
         /\ batch \in [Windows -> BatchRow \cup {None}]
         /\ proc \in [Workers -> Handler]
         /\ \A w \in Windows : batch[w] # None => w \in Saved
         /\ AllocationAddsUp
         /\ \A w \in Saved : window[w] \in WindowRow
BY DEF RewardsInv, Types, Saved

\* A build up to its budget check: it carries finite, typed inputs.
LEMMA BuildStepsFirst ==
  ASSUME RewardsInv, NEW k \in Workers,
         CancelBatch(k) \/ CheckBudget(k) \/ SaveRewardWindow(k) \/ SaveBudgetLedger(k)
  PROVE  RewardsInv'
<1> DEFINE q == proc[k]  w == proc[k].w
<1>0. /\ Types
      /\ window \in [Windows -> WindowRow \cup {None}]
      /\ proj \in [Windows -> ProjectionRow \cup {None}]
      /\ ledger \in [Windows -> BudgetRow \cup {None}]
      /\ batch \in [Windows -> BatchRow \cup {None}]
      /\ \A v \in Windows : batch[v] # None => v \in Saved
      /\ AllocationAddsUp
  BY TablesTyped
<1>1. q.pc \in BuildPCs
  BY DEF CancelBatch, CheckBudget, SaveRewardWindow, SaveBudgetLedger, At, BuildPCs
<1>2. /\ q \in Handler /\ HandlerOK(q, Saved) /\ w \in Windows /\ IsFiniteSet(q.inputs)
      /\ Amount(q) \in Nat /\ q.pool \in Nat
  BY <1>0, <1>1, BuilderFacts DEF PayPCs
<1>3. q.inputs # {} /\ q.then \in {"done", "batches"}
  BY <1>1, <1>2 DEF HandlerOK
<1>4. CASE CancelBatch(k)
  <2> DEFINE f == [q EXCEPT !.pc = "budget"]
  <2>1. /\ Goto(k, f) /\ UNCHANGED inputRows /\ UNCHANGED <<window, proj, ledger>>
        /\ \/ batch' = batch
           \/ batch[w] # None /\ batch' = [batch EXCEPT ![w] = [state |-> "cancelled", total |-> 0,
                                                               root |-> None]]
    BY <1>4 DEF CancelBatch
  <2>2. Saved' = Saved /\ AllocationAddsUp'
    BY <1>0, <2>1 DEF Saved, AllocationAddsUp
  <2>3. HandlerOK(f, Saved)
    BY <1>2, <1>3, Advance DEF PayPCs, BuildPCs, SyncPCs
  <2> HIDE DEF f
  <2>4. /\ batch' \in [Windows -> BatchRow \cup {None}]
        /\ \A v \in Windows : batch'[v] # None => v \in Saved
    <3> [state |-> "cancelled", total |-> 0, root |-> None] \in BatchRow
      BY DEF BatchRow
    <3> QED
      BY <1>0, <1>2, <2>1
  <2> QED
    BY <1>0, <2>1, <2>2, <2>3, <2>4, PayTyped
<1>5. CASE CheckBudget(k)
  <2> DEFINE f == IF Reserved(w) + Amount(q) <= Budget THEN [q EXCEPT !.pc = "window"] ELSE Idle
  <2>1. /\ Goto(k, f) /\ UNCHANGED inputRows /\ UNCHANGED payRows
    BY <1>5 DEF CheckBudget
  <2>3. HandlerOK([q EXCEPT !.pc = "window"], Saved) /\ HandlerOK(Idle, Saved)
    BY <1>2, <1>3, Advance, IdleOK DEF PayPCs, BuildPCs, SyncPCs
  <2>4. HandlerOK(f, Saved)
    BY <2>3
  <2> HIDE DEF f
  <2> QED
    BY <1>0, <2>1, <2>4, InputsTyped DEF inputRows, Types
<1>6. CASE SaveRewardWindow(k)
  <2> DEFINE f == [q EXCEPT !.pc = "ledger"]
             row == [state |-> IF Pays(q) THEN "finalized" ELSE "no_positive_weight",
                     total |-> Amount(q), linked |-> q.linked /\ Pays(q), tasks |-> TRUE]
  <2>1. /\ Goto(k, f) /\ UNCHANGED inputRows /\ UNCHANGED <<proj, ledger, batch>>
        /\ window' = [window EXCEPT ![w] = row]
    BY <1>6 DEF SaveRewardWindow, Pays
  <2>2. row \in WindowRow
    BY <1>2 DEF WindowRow, Handler, Pays, HasPositiveWeight
  <2> HIDE DEF row
  <2>5. window' \in [Windows -> WindowRow \cup {None}] /\ window'[w] # None
    BY <1>0, <1>2, <2>1, <2>2, RewardsAssumption
  <2>6. Saved \subseteq Saved' /\ w \in Saved'
    BY <1>0, <1>2, <2>1, <2>5 DEF Saved
  <2>7. HandlerOK(q, Saved')
    BY <1>2, <2>6, SavedGrows
  <2>3. HandlerOK(f, Saved')
    BY <1>2, <1>3, <2>6, <2>7, Advance DEF PayPCs, BuildPCs, SyncPCs
  <2>8. AllocationAddsUp'
    BY <1>0, <2>1 DEF AllocationAddsUp
  <2> HIDE DEF f
  <2>9. \A v \in Windows : batch'[v] # None => v \in Saved'
    BY <1>0, <2>1, <2>6
  <2> QED
    BY <1>0, <2>1, <2>3, <2>5, <2>6, <2>8, <2>9, PayTyped
<1>7. CASE SaveBudgetLedger(k)
  <2> DEFINE f == [q EXCEPT !.pc = "projection"]
  <2>1. /\ Goto(k, f) /\ UNCHANGED inputRows /\ UNCHANGED <<window, proj, batch>>
        /\ ledger' = [ledger EXCEPT ![w] = LedgerRow(q)]
        /\ q.pc = "ledger"
    BY <1>7 DEF SaveBudgetLedger, At
  <2>2. Saved' = Saved /\ AllocationAddsUp'
    BY <1>0, <2>1 DEF Saved, AllocationAddsUp
  <2>4. w \in Saved
    BY <1>2, <2>1 DEF HandlerOK
  <2>3. HandlerOK(f, Saved)
    BY <1>2, <1>3, <2>4, Advance DEF PayPCs, BuildPCs, SyncPCs
  <2>5. LedgerRow(q) \in BudgetRow
    BY <1>2 DEF LedgerRow, BudgetRow
  <2>6. ledger' \in [Windows -> BudgetRow \cup {None}]
    BY <1>0, <1>2, <2>1, <2>5
  <2> HIDE DEF f
  <2> QED
    BY <1>0, <2>1, <2>2, <2>3, <2>6, PayTyped
<1> QED
  BY <1>4, <1>5, <1>6, <1>7

\* What one projection pays, to the last unit.
AllocationOK(r) ==
    /\ SumFunction(r.alloc) = (IF HasPositiveWeight(r.inputs) THEN r.pool ELSE 0)
    /\ \A u, v \in DOMAIN r.alloc :
         UnitWeight(r.inputs, u) > UnitWeight(r.inputs, v) => r.alloc[u] >= r.alloc[v]

\* AllocationAddsUp, window by window.
LEMMA AllocationRestated ==
  AllocationAddsUp <=> \A w \in Windows : proj[w] # None => AllocationOK(proj[w])
BY DEF AllocationAddsUp, AllocationOK

\* The payments a build chooses from.
Payments(inputs, pool) == IF HasPositiveWeight(inputs) THEN Allocations(inputs, pool)
                         ELSE {[u \in Units(inputs) |-> 0]}

\* The projection that a build saves adds up.
LEMMA NewProjection ==
  ASSUME NEW inputs \in SUBSET InputRow, IsFiniteSet(inputs), NEW pool \in Nat, NEW prov \in BOOLEAN,
         NEW a \in Payments(inputs, pool)
  PROVE  LET r == [inputs |-> inputs, provisional |-> prov, pool |-> pool, alloc |-> a]
         IN r \in ProjectionRow /\ AllocationOK(r)
<1> DEFINE r == [inputs |-> inputs, provisional |-> prov, pool |-> pool, alloc |-> a]
<1>1. Units(inputs) \in SUBSET Nat /\ IsFiniteSet(Units(inputs))
  BY UnitsOfInputs
<1>2. /\ a \in [Units(inputs) -> Nat]
      /\ SumFunction(a) = (IF HasPositiveWeight(inputs) THEN pool ELSE 0)
      /\ \A u, v \in Units(inputs) :
           UnitWeight(inputs, u) > UnitWeight(inputs, v) => a[u] >= a[v]
  <2>1. CASE HasPositiveWeight(inputs)
    BY <2>1, AllocationIsExact DEF Payments
  <2>2. CASE ~HasPositiveWeight(inputs)
    <3> DEFINE z == [u \in Units(inputs) |-> 0]
    <3>1. a = z
      BY <2>2 DEF Payments
    <3>2. SumFunctionOnSet(z, Units(inputs)) = 0
      BY <1>1, SumIsZero
    <3>3. SumFunction(z) = 0
      BY <3>2 DEF SumFunction
    <3>4. z \in [Units(inputs) -> Nat] /\ \A u, v \in Units(inputs) : z[u] >= z[v]
      OBVIOUS
    <3> HIDE DEF z
    <3> QED
      BY <2>2, <3>1, <3>3, <3>4
  <2> QED
    BY <2>1, <2>2
<1>6. Units(inputs) \in SUBSET {Unit[m] : m \in Miners}
  BY DEF Units, InputRow
<1>7. a \in UNION {[us -> Nat] : us \in SUBSET {Unit[m] : m \in Miners}}
  BY <1>2, <1>6
<1>3. r \in ProjectionRow
  <2> DEFINE A == UNION {[us -> Nat] : us \in SUBSET {Unit[m] : m \in Miners}}
  <2>1. a \in A
    BY <1>7
  <2> HIDE DEF A
  <2>2. r \in [inputs : SUBSET InputRow, provisional : BOOLEAN, pool : Nat, alloc : A]
    BY <2>1
  <2> QED
    BY <2>2 DEF ProjectionRow, A
<1>4. DOMAIN r.alloc = Units(inputs) /\ r.alloc = a /\ r.inputs = inputs /\ r.pool = pool
  BY <1>2
<1> HIDE DEF r
<1>5. AllocationOK(r)
  BY <1>2, <1>4 DEF AllocationOK
<1> QED
  BY <1>3, <1>5 DEF r

\* The writes of a build, and of reconcile().
LEMMA BuildStepsLast ==
  ASSUME RewardsInv, NEW k \in Workers,
         SaveProjection(k) \/ SyncBatch(k) \/ LinkWindow(k) \/ LinkLedger(k)
  PROVE  RewardsInv'
<1> DEFINE q == proc[k]  w == proc[k].w
<1>0. /\ Types
      /\ window \in [Windows -> WindowRow \cup {None}]
      /\ proj \in [Windows -> ProjectionRow \cup {None}]
      /\ ledger \in [Windows -> BudgetRow \cup {None}]
      /\ batch \in [Windows -> BatchRow \cup {None}]
      /\ \A v \in Windows : batch[v] # None => v \in Saved
      /\ AllocationAddsUp
      /\ \A v \in Saved : window[v] \in WindowRow
  BY TablesTyped
<1>1. q.pc \in {"projection"} \cup SyncPCs
  BY DEF SaveProjection, SyncBatch, LinkWindow, LinkLedger, At, SyncPCs
<1>2. /\ q \in Handler /\ HandlerOK(q, Saved) /\ w \in Windows /\ IsFiniteSet(q.inputs)
      /\ Amount(q) \in Nat /\ q.pool \in Nat /\ q.inputs \in SUBSET InputRow
  BY <1>0, <1>1, BuilderFacts DEF PayPCs, BuildPCs
<1>3. w \in Saved
  BY <1>1, <1>2 DEF HandlerOK
<1>9. \A pc \in {"done", "batches", "reconciled"} : HandlerOK([Idle EXCEPT !.pc = pc, !.w = w], Saved)
  BY <1>2, FreshOK
<1>4. CASE SaveProjection(k)
  <2> DEFINE f == IF Pays(q) THEN [q EXCEPT !.pc = "sync"] ELSE [Idle EXCEPT !.pc = q.then, !.w = w]
             Row(a) == [inputs |-> q.inputs, provisional |-> q.prov, pool |-> q.pool, alloc |-> a]
  <2>0. /\ Goto(k, f) /\ UNCHANGED inputRows /\ UNCHANGED <<window, ledger, batch>>
        /\ \E a \in Payments(q.inputs, q.pool) : proj' = [proj EXCEPT ![w] = Row(a)]
        /\ q.pc = "projection"
    BY <1>4 DEF SaveProjection, Pays, At, Payments
  <2>9. PICK a \in Payments(q.inputs, q.pool) : proj' = [proj EXCEPT ![w] = Row(a)]
    BY <2>0
  <2> DEFINE r == Row(a)
  <2>1. /\ Goto(k, f) /\ UNCHANGED inputRows /\ UNCHANGED <<window, ledger, batch>>
        /\ proj' = [proj EXCEPT ![w] = r]
        /\ q.pc = "projection"
    BY <2>0, <2>9
  <2>2. r \in ProjectionRow /\ AllocationOK(r)
    <3> q.prov \in BOOLEAN
      BY <1>2 DEF Handler
    <3> QED
      BY <1>2, NewProjection
  <2> HIDE DEF r
  <2>3. q.inputs # {} /\ q.then \in {"done", "batches"}
    BY <1>2, <2>1 DEF HandlerOK, BuildPCs
  <2>4. HandlerOK(f, Saved)
    <3>1. Pays(q) => HandlerOK([q EXCEPT !.pc = "sync"], Saved)
      BY <1>2, <1>3, <2>3, Advance DEF PayPCs, BuildPCs, SyncPCs
    <3> QED
      BY <1>9, <2>3, <3>1
  <2> HIDE DEF f
  <2>5. Saved' = Saved
    BY <2>1 DEF Saved
  <2>6. proj' \in [Windows -> ProjectionRow \cup {None}]
    BY <1>0, <1>2, <2>1, <2>2
  <2>7. \A v \in Windows : proj'[v] # None => AllocationOK(proj'[v])
    <3>1. \A v \in Windows : proj[v] # None => AllocationOK(proj[v])
      BY <1>0, AllocationRestated
    <3>2. proj'[w] = r /\ \A v \in Windows \ {w} : proj'[v] = proj[v]
      BY <1>0, <1>2, <2>1
    <3> QED
      BY <2>2, <3>1, <3>2
  <2>8. AllocationAddsUp'
    BY <2>7 DEF AllocationAddsUp, AllocationOK
  <2> QED
    BY <1>0, <2>1, <2>4, <2>5, <2>6, <2>8, PayTyped
<1>5. CASE SyncBatch(k)
  <2> DEFINE f == [q EXCEPT !.pc = "link"]
             row == [state |-> "open", total |-> window[w].total, root |-> None]
  <2>1. /\ Goto(k, f) /\ UNCHANGED inputRows /\ UNCHANGED <<window, ledger, proj>>
        /\ batch' = batch \/ batch' = [batch EXCEPT ![w] = row]
        /\ q.pc = "sync"
    BY <1>5 DEF SyncBatch, At
  <2>2. row \in BatchRow
    BY <1>0, <1>3 DEF BatchRow, WindowRow
  <2> HIDE DEF row
  <2>3. HandlerOK(f, Saved)
    <3> (q.inputs = {} /\ q.then = "reconciled") \/ (Pays(q) /\ q.then \in {"done", "batches"})
      BY <1>2, <2>1 DEF HandlerOK, SyncPCs
    <3> QED
      BY <1>2, <1>3, Advance DEF PayPCs, BuildPCs, SyncPCs
  <2> HIDE DEF f
  <2>4. Saved' = Saved /\ AllocationAddsUp'
    BY <1>0, <2>1 DEF Saved, AllocationAddsUp
  <2>5. /\ batch' \in [Windows -> BatchRow \cup {None}]
        /\ \A v \in Windows : batch'[v] # None => v \in Saved
    BY <1>0, <1>2, <1>3, <2>1, <2>2
  <2> QED
    BY <1>0, <2>1, <2>3, <2>4, <2>5, PayTyped
<1>6. CASE LinkWindow(k)
  <2> DEFINE f == IF q.inputs = {} THEN [Idle EXCEPT !.pc = q.then, !.w = w]
                  ELSE [q EXCEPT !.pc = "ledgerLink"]
             row == [window[w] EXCEPT !.linked = TRUE]
  <2>1. /\ Goto(k, f) /\ UNCHANGED inputRows /\ UNCHANGED <<batch, ledger, proj>>
        /\ window' = [window EXCEPT ![w] = row]
        /\ q.pc = "link"
    BY <1>6 DEF LinkWindow, At
  <2>2. row \in WindowRow
    BY <1>0, <1>3 DEF WindowRow
  <2> HIDE DEF row
  <2>3. window' \in [Windows -> WindowRow \cup {None}] /\ window'[w] # None
    BY <1>0, <1>2, <2>1, <2>2, RewardsAssumption
  <2>4. Saved' = Saved /\ AllocationAddsUp'
    BY <1>0, <1>2, <1>3, <2>1, <2>3 DEF Saved, AllocationAddsUp
  <2>5. HandlerOK(f, Saved)
    <3>1. (q.inputs = {} /\ q.then = "reconciled") \/ (Pays(q) /\ q.then \in {"done", "batches"})
      BY <1>2, <2>1 DEF HandlerOK, SyncPCs
    <3>2. q.inputs # {} => HandlerOK([q EXCEPT !.pc = "ledgerLink"], Saved)
      BY <1>2, <1>3, <3>1, Advance DEF PayPCs, BuildPCs, SyncPCs
    <3> QED
      BY <1>9, <3>1, <3>2
  <2> HIDE DEF f
  <2> QED
    BY <1>0, <2>1, <2>3, <2>4, <2>5, PayTyped
<1>7. CASE LinkLedger(k)
  <2> DEFINE f == [Idle EXCEPT !.pc = q.then, !.w = w]
             row == [LedgerRow(q) EXCEPT !.linked = TRUE]
  <2>1. /\ Goto(k, f) /\ UNCHANGED inputRows /\ UNCHANGED <<batch, window, proj>>
        /\ ledger' = [ledger EXCEPT ![w] = row]
        /\ q.pc = "ledgerLink"
    BY <1>7 DEF LinkLedger, At
  <2>2. row \in BudgetRow
    BY <1>2 DEF LedgerRow, BudgetRow
  <2> HIDE DEF row
  <2>3. ledger' \in [Windows -> BudgetRow \cup {None}]
    BY <1>0, <1>2, <2>1, <2>2
  <2>4. Saved' = Saved /\ AllocationAddsUp'
    BY <1>0, <2>1 DEF Saved, AllocationAddsUp
  <2>5. HandlerOK(f, Saved)
    <3> q.then \in {"done", "batches"}
      BY <1>2, <2>1 DEF HandlerOK
    <3> QED
      BY <1>9
  <2> HIDE DEF f
  <2> QED
    BY <1>0, <2>1, <2>3, <2>4, <2>5, PayTyped
<1> QED
  BY <1>4, <1>5, <1>6, <1>7

\* The batch that an anchoring request writes has the total it had, and the root if it
\* had one.
LEMMA SentBatch ==
  ASSUME RewardsInv, NEW k \in Workers, proc[k].w \in Windows,
         AnchorBatch(k) \/ MarkAnchorJobFailed(k) \/ MarkAnchorJobAnchored(k)
  PROVE  LET w == proc[k].w IN
         \E b \in BatchRow :
           /\ batch[w] # None /\ batch' = [batch EXCEPT ![w] = b]
           /\ Sent(b) /\ b.total = batch[w].total
           /\ batch[w].root # None => b.root = batch[w].root
           /\ ~Sent(batch[w]) => /\ batch[w].state = "open" /\ batch[w].total > 0
                                 /\ b.root # None
<1> DEFINE w == proc[k].w
<1>1. batch[w] # None
  BY DEF AnchorBatch, MarkAnchorJobFailed, MarkAnchorJobAnchored, Sent
<1>2. /\ batch[w] \in BatchRow /\ window[w] \in WindowRow /\ (proj[w] # None => proj[w] \in ProjectionRow)
      /\ batch \in [Windows -> BatchRow \cup {None}]
  BY <1>1 DEF RewardsInv, Types, Saved
<1>3. \A b \in BatchRow : b # None
  BY RewardsAssumption
<1>4. CASE AnchorBatch(k)
  <2>1. proj[w] # None /\ batch[w].root \in {None, Root(w)} /\ batch[w].total > 0
        /\ batch[w].state \in {"open", "anchor_failed"}
    BY <1>4 DEF AnchorBatch
  <2>2. PICK state \in {"anchored", "anchor_failed"} :
          batch' = [batch EXCEPT ![w] = [state |-> state, total |-> batch[w].total, root |-> Root(w)]]
    BY <1>4 DEF AnchorBatch
  <2>3. Root(w) \in RootRow /\ Root(w) # None
    <3>1. Root(w) \in RootRow
      BY <1>2, <2>1 DEF Root, RootRow, WindowRow
    <3> QED
      BY <3>1, RewardsAssumption
  <2> DEFINE b == [state |-> state, total |-> batch[w].total, root |-> Root(w)]
  <2>4. b.state = state /\ b.total = batch[w].total /\ b.root = Root(w) /\ b \in BatchRow
    BY <1>2, <2>3 DEF BatchRow
  <2> HIDE DEF b
  <2>5. Sent(b)
    BY <1>3, <2>4 DEF Sent
  <2>6. ~Sent(batch[w]) => batch[w].state = "open"
    BY <1>1, <2>1 DEF Sent
  <2>7. batch' = [batch EXCEPT ![w] = b]
    BY <2>2 DEF b
  <2> QED
    BY <1>1, <2>1, <2>3, <2>4, <2>5, <2>6, <2>7
<1>5. CASE MarkAnchorJobFailed(k) \/ MarkAnchorJobAnchored(k)
  <2>1. Sent(batch[w])
    BY <1>5 DEF MarkAnchorJobFailed, MarkAnchorJobAnchored
  <2>2. PICK state \in {"anchored", "anchor_failed"} : batch' = [batch EXCEPT ![w].state = state]
    BY <1>5 DEF MarkAnchorJobFailed, MarkAnchorJobAnchored
  <2> DEFINE b == [batch[w] EXCEPT !.state = state]
  <2>3. batch' = [batch EXCEPT ![w] = b]
    BY <1>2, <2>2
  <2>4. b.state = state /\ b.total = batch[w].total /\ b.root = batch[w].root /\ b \in BatchRow
    BY <1>2 DEF BatchRow
  <2> HIDE DEF b
  <2>5. Sent(b)
    BY <1>3, <2>4 DEF Sent
  <2> QED
    BY <1>1, <2>1, <2>3, <2>4, <2>5
<1> QED
  BY <1>4, <1>5

\* The batch is made, anchored and paid.
LEMMA AnchorSteps ==
  ASSUME RewardsInv, NEW k \in Workers, Anchor(k) \/ Return(k)
  PROVE  RewardsInv'
<1> DEFINE q == proc[k]  w == proc[k].w
<1>0. /\ Types
      /\ window \in [Windows -> WindowRow \cup {None}]
      /\ proj \in [Windows -> ProjectionRow \cup {None}]
      /\ ledger \in [Windows -> BudgetRow \cup {None}]
      /\ batch \in [Windows -> BatchRow \cup {None}]
      /\ \A v \in Windows : batch[v] # None => v \in Saved
      /\ AllocationAddsUp
  BY TablesTyped
<1>1. ASSUME NEW v \in Windows, Reconcile(k, v)
      PROVE  RewardsInv'
  <2>1. CASE ReconcileWindow(k, v, "batches")
    <3> DEFINE prov == \E r \in Candidates(v) : ~r.final
    <3>1. prov \in BOOLEAN /\ Pool[v] \in Nat /\ BuildStart(k, v, prov, Pool[v], "batches")
      BY <2>1, RewardsAssumption DEF ReconcileWindow
    <3> QED
      BY <3>1, BuildStartStep
  <2>2. CASE ReconcileNoWindow(k, v, "batches")
    <3>1. Goto(k, [Idle EXCEPT !.pc = "batches", !.w = v]) /\ UNCHANGED inputRows /\ UNCHANGED payRows
      BY <2>2 DEF ReconcileNoWindow
    <3>2. HandlerOK([Idle EXCEPT !.pc = "batches", !.w = v], Saved)
      BY FreshOK
    <3> QED
      BY <1>0, <3>1, <3>2, InputsTyped DEF inputRows, Types
  <2> QED
    BY <1>1, <2>1, <2>2 DEF Reconcile
<1>2. CASE BuildSettlementBatch(k)
  <2> DEFINE f == IF window[w] = None \/ window[w].state = "no_positive_weight"
                   THEN [Idle EXCEPT !.pc = "reconciled", !.w = w]
                   ELSE [Idle EXCEPT !.pc = "sync", !.w = w, !.then = "reconciled"]
  <2>1. Goto(k, f) /\ UNCHANGED inputRows /\ UNCHANGED payRows /\ q.pc = "batches"
    BY <1>2 DEF BuildSettlementBatch, At
  <2>2. w \in Windows
    BY <1>0, <2>1, BuilderFacts DEF PayPCs
  <2>3. window[w] # None => w \in Saved
    BY <2>2 DEF Saved
  <2>4. HandlerOK(f, Saved)
    BY <2>2, <2>3, FreshOK
  <2> HIDE DEF f
  <2> QED
    BY <1>0, <2>1, <2>4, InputsTyped DEF inputRows, Types
<1>3. CASE AnchorBatch(k) \/ MarkAnchorJobFailed(k) \/ MarkAnchorJobAnchored(k)
  <2>1. /\ UNCHANGED inputRows /\ UNCHANGED <<window, proj, ledger>> /\ q.pc = "reconciled"
        /\ Goto(k, [q EXCEPT !.pc = "pay"]) \/ Goto(k, Idle)
    BY <1>3 DEF AnchorBatch, MarkAnchorJobFailed, MarkAnchorJobAnchored, At
  <2>2. w \in Windows /\ HandlerOK(q, Saved)
    BY <1>0, <2>1, BuilderFacts DEF PayPCs
  <2>3. HandlerOK([q EXCEPT !.pc = "pay"], Saved) /\ HandlerOK(Idle, Saved)
    BY <2>2, Advance, IdleOK DEF PayPCs, BuildPCs, SyncPCs
  <2>4. Saved' = Saved /\ AllocationAddsUp'
    BY <1>0, <2>1 DEF Saved, AllocationAddsUp
  <2>6. \E b \in BatchRow : batch[w] # None /\ batch' = [batch EXCEPT ![w] = b]
    BY <1>3, <2>2, SentBatch
  <2>5. /\ batch' \in [Windows -> BatchRow \cup {None}]
        /\ \A v \in Windows : batch'[v] # None => v \in Saved
    BY <1>0, <2>2, <2>6
  <2> HIDE DEF q, w
  <2> QED
    BY <1>0, <2>1, <2>3, <2>4, <2>5, PayTyped
<1>6. CASE RebuildRewardWindow(k)
  <2> DEFINE row == [window[w] EXCEPT !.total = 0, !.tasks = FALSE]
  <2>1. /\ UNCHANGED inputRows /\ UNCHANGED <<batch, proj, ledger>> /\ q.pc = "reconciled"
        /\ Goto(k, Idle) /\ window[w] # None
        /\ window' = [window EXCEPT ![w].total = 0, ![w].tasks = FALSE]
    BY <1>6 DEF RebuildRewardWindow, At
  <2>2. w \in Windows /\ w \in Saved
    BY <1>0, <2>1, BuilderFacts DEF PayPCs, Saved
  <2>3. window[w] \in WindowRow
    BY <1>0, <2>1, <2>2
  <2>4. row \in WindowRow
    BY <2>3 DEF WindowRow
  <2>5. window' = [window EXCEPT ![w] = row]
    BY <1>0, <2>1, <2>2
  <2> HIDE DEF row
  <2>6. window' \in [Windows -> WindowRow \cup {None}] /\ window'[w] # None
    BY <1>0, <2>2, <2>4, <2>5, RewardsAssumption
  <2>7. Saved' = Saved
    <3>1. \A v \in Windows \ {w} : window'[v] = window[v]
      BY <1>0, <2>5
    <3> QED
      BY <2>2, <2>6, <3>1 DEF Saved
  <2>9. AllocationAddsUp'
    BY <1>0, <2>1 DEF AllocationAddsUp
  <2>8. HandlerOK(Idle, Saved)
    BY IdleOK
  <2> QED
    BY <1>0, <2>1, <2>6, <2>7, <2>8, <2>9, PayTyped
<1>4. CASE PayLedger(k)
  <2> DEFINE row == [ledger[w] EXCEPT !.linked = TRUE,
                       !.state = IF ledger[w].approved > 0 THEN "paid" ELSE @]
  <2>1. /\ UNCHANGED inputRows /\ UNCHANGED <<window, proj, batch>> /\ q.pc = "pay"
        /\ Goto(k, Idle)
        /\ ledger' = IF ledger[w] = None THEN ledger
                   ELSE [ledger EXCEPT ![w].linked = TRUE,
                           ![w].state = IF ledger[w].approved > 0 THEN "paid" ELSE @]
    BY <1>4 DEF PayLedger, At
  <2>2. w \in Windows
    BY <1>0, <2>1, BuilderFacts DEF PayPCs
  <2>3. ledger' \in [Windows -> BudgetRow \cup {None}]
    <3>1. CASE ledger[w] = None
      BY <1>0, <2>1, <3>1
    <3>2. CASE ledger[w] # None
      <4>1. ledger[w] \in BudgetRow
        BY <1>0, <2>2, <3>2
      <4>2. row \in BudgetRow
        BY <4>1 DEF BudgetRow
      <4>3. ledger' = [ledger EXCEPT ![w] = row]
        BY <1>0, <2>1, <2>2, <3>2
      <4> HIDE DEF row
      <4> QED
        BY <1>0, <2>2, <4>2, <4>3
    <3> QED
      BY <3>1, <3>2
  <2>4. Saved' = Saved /\ AllocationAddsUp'
    BY <1>0, <2>1 DEF Saved, AllocationAddsUp
  <2>5. HandlerOK(Idle, Saved)
    BY IdleOK
  <2> QED
    BY <1>0, <2>1, <2>3, <2>4, <2>5, PayTyped
<1>5. CASE Return(k)
  <2>1. Goto(k, Idle) /\ UNCHANGED inputRows /\ UNCHANGED payRows
    BY <1>5 DEF Return
  <2>2. HandlerOK(Idle, Saved)
    BY IdleOK
  <2> QED
    BY <1>0, <2>1, <2>2, InputsTyped DEF inputRows, Types
<1> QED
  BY <1>1, <1>2, <1>3, <1>4, <1>5, <1>6 DEF Anchor

\* A crash ends every worker and keeps the rows.
LEMMA CrashStep ==
  ASSUME RewardsInv, Crash
  PROVE  RewardsInv'
<1>1. UNCHANGED inputRows /\ UNCHANGED payRows /\ proc' = [k \in Workers |-> Idle]
  BY DEF Crash
<1>2. \A k \in Workers : proc'[k] \in Handler /\ HandlerOK(proc'[k], Saved)
  BY <1>1, IdleOK
<1> QED
  BY <1>1, <1>2, PayRowsKept DEF RewardsInv, Types, inputRows

\* Every step keeps the types and the sums.
LEMMA RewardsStep ==
  ASSUME RewardsInv, [Next]_vars
  PROVE  RewardsInv'
<1>1. CASE UNCHANGED vars
  BY <1>1, PayRowsKept DEF RewardsInv, Types, vars, inputRows
<1>2. CASE \E t \in Tournaments, m \in Miners :
             \/ \E s \in HiddenScores[m] : SaveHiddenEvalEntry(t, m, s)
             \/ \E p \in LegacyResults, final \in BOOLEAN : ApplyResult(t, m, p, final)
  BY <1>2, InputSteps
<1>3. CASE Crash
  BY <1>3, CrashStep
<1>4. ASSUME NEW k \in Workers,
             \/ Project(k) \/ Build(k) \/ Anchor(k) \/ Return(k)
             \/ \E w \in Windows : AdminBuild(k, w)
      PROVE  RewardsInv'
  <2>1. CASE \E w \in Windows : AdminBuild(k, w)
    BY <2>1, RewardsAssumption, BuildStartStep DEF AdminBuild
  <2>2. CASE Build(k)
    BY <2>2, BuildStepsFirst, BuildStepsLast DEF Build
  <2> QED
    BY <1>4, <2>1, <2>2, ProjectSteps, AnchorSteps
<1> QED
  BY <1>1, <1>2, <1>3, <1>4 DEF Next

\* With any number of workers, repeated requests and crashes, the payments of every
\* stored projection add up to the pool it was built for, to the last unit, or to
\* nothing when no unit has a weight, and a unit with more weight is not paid less,
\* whichever of equal remainders rounding prefers.  The shares are exact quotients: what
\* _allocate_integer_pool_by_weights (forecast_engine.py:918-940) computes with doubles
\* for the pools of ExactPools, and not for larger ones.
THEOREM AllocationsAddUp == Spec => []AllocationAddsUp
<1>1. Init => RewardsInv
  BY InitRewards
<1>2. RewardsInv /\ [Next]_vars => RewardsInv'
  BY RewardsStep
<1>3. RewardsInv => AllocationAddsUp
  BY DEF RewardsInv
<1> QED
  BY <1>1, <1>2, <1>3, PTL DEF Spec

------------------------------------------------------------------------------
(* The budget, and what is anchored, when builds come one after the other.  *)

\* Two tables of reservations that differ in window w only.
LEMMA BudgetSplit ==
  ASSUME NEW A \in [Windows -> Nat], NEW B \in [Windows -> Nat], NEW w \in Windows,
         \A v \in Windows \ {w} : A[v] = B[v]
  PROVE  /\ SumFunction(A) = A[w] + SumFunctionOnSet(A, Windows \ {w})
         /\ SumFunctionOnSet(A, Windows \ {w}) = SumFunctionOnSet(B, Windows \ {w})
         /\ SumFunctionOnSet(A, Windows \ {w}) \in Nat
<1>1. IsFiniteSet(Windows) /\ IsFiniteSet(Windows \ {w})
  BY RewardsAssumption, FS_Subset
<1>2. \A v \in Windows : A[v] \in Int /\ A[v] \in Nat
  OBVIOUS
<1>3. SumFunctionOnSet(A, Windows) = A[w] + SumFunctionOnSet(A, Windows \ {w})
  BY <1>1, <1>2, SumRemove
<1>4. SumFunctionOnSet(A, Windows \ {w}) = SumFunctionOnSet(B, Windows \ {w})
  BY <1>1, SumSame
<1>5. SumFunctionOnSet(A, Windows \ {w}) \in Nat
  BY <1>1, <1>2, SumIsNatural
<1> QED
  BY <1>3, <1>4, <1>5 DEF SumFunction

\* What the windows have reserved are naturals.
LEMMA ApprovedType ==
  ASSUME NEW l \in [Windows -> BudgetRow \cup {None}]
  PROVE  /\ [v \in Windows |-> IF l[v] = None THEN 0 ELSE l[v].approved] \in [Windows -> Nat]
         /\ \A v \in Windows : l[v] # None => l[v].approved \in Nat
BY DEF BudgetRow

\* A worker that steps while it builds, or begins to, is the only one.
LEMMA OthersQuiet ==
  ASSUME Types, Serial, Serial', NEW k \in Workers, NEW f, Goto(k, f), f \in Handler,
         proc[k].pc \in PayPCs \/ f.pc \in PayPCs
  PROVE  /\ proc'[k] = f
         /\ \A j \in Workers \ {k} : proc'[j] = proc[j] /\ proc[j].pc \notin PayPCs
<1>1. proc \in [Workers -> Handler]
  BY DEF Types
<1>2. proc'[k] = f /\ \A j \in Workers \ {k} : proc'[j] = proc[j]
  BY <1>1 DEF Goto
<1> QED
  BY <1>2 DEF Serial, Building

\* The fields a handler keeps when it goes on to its next step.
LEMMA FieldsKept ==
  ASSUME NEW q \in Handler, NEW pc
  PROVE  LET f == [q EXCEPT !.pc = pc]
         IN  /\ f.pc = pc /\ f.w = q.w /\ f.inputs = q.inputs /\ f.then = q.then /\ f.linked = q.linked
             /\ Amount(f) = Amount(q) /\ Pays(f) = Pays(q)
<1> DEFINE f == [q EXCEPT !.pc = pc]
<1>1. f.pc = pc /\ f.w = q.w /\ f.inputs = q.inputs /\ f.then = q.then /\ f.linked = q.linked
      /\ f.pool = q.pool
  BY DEF Handler
<1> HIDE DEF f
<1>2. Amount(f) = Amount(q) /\ Pays(f) = Pays(q)
  BY <1>1 DEF Amount, Pays
<1> QED
  BY <1>1, <1>2 DEF f

\* The fields of a worker that starts on a window.
LEMMA FreshFields ==
  ASSUME NEW pc, NEW w
  PROVE  /\ [Idle EXCEPT !.pc = pc, !.w = w].pc = pc
         /\ [Idle EXCEPT !.pc = pc, !.w = w].w = w
         /\ [Idle EXCEPT !.pc = pc, !.w = w].inputs = {}
         /\ Idle.pc = "idle"
         /\ [Idle EXCEPT !.pc = "sync", !.w = w, !.then = "reconciled"].pc = "sync"
         /\ [Idle EXCEPT !.pc = "sync", !.w = w, !.then = "reconciled"].w = w
         /\ [Idle EXCEPT !.pc = "sync", !.w = w, !.then = "reconciled"].inputs = {}
BY DEF Idle

\* The tables are left alone: only the stepping worker can be affected.
LEMMA SerialUnchanged ==
  ASSUME Types, SerialInv, UNCHANGED payRows,
         \A j \in Workers : \/ proc'[j] = proc[j] \/ proc'[j].pc \notin PayPCs
                            \/ BudgetOK(proc[j])' /\ FinalOK(proc[j])'
  PROVE  SerialInv'
<1>1. UNCHANGED <<window, ledger, batch>>
  BY DEF payRows
<1>2. Approved' = Approved
  BY <1>1 DEF Approved
<1>3. BudgetHolds' /\ RootsStored'
  BY <1>1, <1>2 DEF SerialInv, BudgetHolds, RootsStored
<1>4. \A j \in Workers : BudgetOK(proc[j]) /\ FinalOK(proc[j])
  BY DEF SerialInv
<1>5. ASSUME NEW j \in Workers
      PROVE  BudgetOK(proc[j])' /\ FinalOK(proc[j])'
  <2>1. CASE proc'[j] = proc[j]
    BY <2>1, <1>1, <1>2, <1>4 DEF BudgetOK, FinalOK, Reserved, Anchored, Sent, Linked
  <2>2. CASE proc'[j].pc \notin PayPCs
    BY <2>2 DEF BudgetOK, FinalOK, PayPCs, SyncPCs, BuildPCs
  <2> QED
    BY <2>1, <2>2
<1> QED
  BY <1>3, <1>5 DEF SerialInv

\* A step of the only builder.
LEMMA SerialBuilder ==
  ASSUME NEW k \in Workers,
         \A j \in Workers \ {k} : proc'[j].pc \notin PayPCs,
         BudgetHolds', RootsStored', BudgetOK(proc[k])', FinalOK(proc[k])'
  PROVE  SerialInv'
<1>1. ASSUME NEW j \in Workers, j # k
      PROVE  BudgetOK(proc[j])' /\ FinalOK(proc[j])'
  BY <1>1 DEF BudgetOK, FinalOK, PayPCs, SyncPCs, BuildPCs
<1> QED
  BY <1>1 DEF SerialInv

\* A step of AnchoredIsFinal.
FinalStep ==
    \A w \in Windows : Sent(batch[w]) =>
         /\ Sent(batch'[w])
         /\ batch'[w].root = batch[w].root /\ batch'[w].total = batch[w].total
         /\ window[w].linked =>
              /\ proj'[w] = proj[w]
              /\ window'[w].total \in {window[w].total, 0}
              /\ ledger'[w].approved = ledger[w].approved

\* A build begins only with a batch that may still change, or without a link to it.
LEMMA SerialBuildStart ==
  ASSUME RewardsInv, SerialInv, NEW k \in Workers, NEW w \in Windows, NEW prov \in BOOLEAN,
           NEW pool \in Nat, NEW then \in {"done", "batches"}, BuildStart(k, w, prov, pool, then)
  PROVE  SerialInv' /\ UNCHANGED payRows
<1> DEFINE inputs == Selected(w, prov)
           lk == window[w] # None /\ window[w].linked
           found == [Idle EXCEPT !.w = w, !.inputs = inputs, !.then = then, !.prov = prov,
                                 !.pool = pool, !.linked = lk]
           f == IF Closed(w) \/ (inputs # {} /\ UpToDate(w, inputs, prov, pool))
                    THEN [Idle EXCEPT !.pc = then, !.w = w]
                  ELSE IF inputs = {} THEN Idle
                  ELSE IF HasPositiveWeight(inputs)
                    THEN [found EXCEPT !.pc = "budget"]
                  ELSE [found EXCEPT !.pc = "cancel"]
<1>0. Types /\ proc \in [Workers -> Handler]
  BY TablesTyped
<1>1. Goto(k, f) /\ UNCHANGED payRows
  BY DEF BuildStart
<1>2. proc'[k] = f /\ \A j \in Workers \ {k} : proc'[j] = proc[j]
  BY <1>0, <1>1 DEF Goto
<1>3. /\ [found EXCEPT !.pc = "budget"].pc = "budget" /\ [found EXCEPT !.pc = "cancel"].pc = "cancel"
      /\ [found EXCEPT !.pc = "budget"].w = w /\ [found EXCEPT !.pc = "cancel"].w = w
      /\ [found EXCEPT !.pc = "budget"].linked = lk /\ [found EXCEPT !.pc = "cancel"].linked = lk
  BY DEF Idle
<1>4. [Idle EXCEPT !.pc = then, !.w = w].pc = then /\ Idle.pc = "idle"
  BY FreshFields
<1>5. \/ f.pc \in {"idle", "done", "batches"}
      \/ ~Closed(w) /\ f.pc \in {"budget", "cancel"} /\ f.w = w /\ f.linked = lk
  <2> HIDE DEF found, lk, inputs
  <2> QED
    BY <1>3, <1>4
<1>6. UNCHANGED <<window, batch>>
  BY <1>1 DEF payRows
<1>7. BudgetOK(proc[k])' /\ FinalOK(proc[k])'
  <2> HIDE DEF f
  <2>1. proc'[k].pc \notin {"window", "ledger", "projection"} \cup SyncPCs
    BY <1>2, <1>5 DEF SyncPCs
  <2>2. BudgetOK(proc[k])'
    BY <2>1 DEF BudgetOK
  <2>3. CASE f.pc \in {"idle", "done", "batches"}
    BY <1>2, <2>2, <2>3 DEF FinalOK, BuildPCs
  <2>4. CASE ~Closed(w) /\ f.pc \in {"budget", "cancel"} /\ f.w = w /\ f.linked = lk
    <3>1. ~(Anchored(w) /\ Linked(w)) /\ (lk => ~Anchored(w))
      BY <2>4 DEF Closed, Anchored, Sent, Linked
    <3>2. ~(Anchored(w) /\ Linked(w))' /\ (lk => ~Anchored(w)')
      BY <3>1, <1>6 DEF Anchored, Sent, Linked
    <3> QED
      BY <1>2, <2>2, <2>4, <3>2 DEF FinalOK
  <2> QED
    BY <1>5, <2>3, <2>4
<1> QED
  BY <1>0, <1>1, <1>2, <1>7, SerialUnchanged

\* The steps of a build that no other build runs beside.
LEMMA SerialBuildSteps ==
  ASSUME RewardsInv, SerialInv, Serial, Serial', NEW k \in Workers, Build(k)
  PROVE  SerialInv' /\ FinalStep
<1> DEFINE q == proc[k]  w == proc[k].w
<1>0. /\ Types
      /\ window \in [Windows -> WindowRow \cup {None}]
      /\ proj \in [Windows -> ProjectionRow \cup {None}]
      /\ ledger \in [Windows -> BudgetRow \cup {None}]
      /\ batch \in [Windows -> BatchRow \cup {None}]
      /\ proc \in [Workers -> Handler]
      /\ \A v \in Windows : batch[v] # None => v \in Saved
      /\ \A v \in Saved : window[v] \in WindowRow
  BY TablesTyped
<1>1. q.pc \in BuildPCs \cup SyncPCs
  BY DEF Build, CancelBatch, CheckBudget, SaveRewardWindow, SaveBudgetLedger, At, BuildPCs,
         SaveProjection, SyncBatch, LinkWindow, LinkLedger, SyncPCs
<1>2. /\ q \in Handler /\ HandlerOK(q, Saved) /\ w \in Windows /\ q.pc \in PayPCs
      /\ Amount(q) \in Nat /\ q.pool \in Nat
  BY <1>0, <1>1, BuilderFacts DEF PayPCs
<1>3. BudgetOK(q) /\ FinalOK(q) /\ BudgetHolds /\ RootsStored
  BY DEF SerialInv
<1>4. \A j \in Workers \ {k} : proc[j].pc \notin PayPCs
  BY <1>2 DEF Serial, Building
<1>5. \A f : Goto(k, f) => proc'[k] = f /\ \A j \in Workers \ {k} : proc'[j].pc \notin PayPCs
  BY <1>0, <1>4 DEF Goto
<1>6. Approved \in [Windows -> Nat]
  BY <1>0, ApprovedType DEF Approved
<1>8. batch' = batch => RootsStored'
  BY <1>3 DEF RootsStored
<1>7. \A v \in Windows : Anchored(v) => v \in Saved /\ (window[v].linked <=> Linked(v))
  BY <1>0 DEF Anchored, Sent, Linked, Saved, WindowRow
<1>11. CASE CancelBatch(k)
  <2> DEFINE f == [q EXCEPT !.pc = "budget"]
  <2>1. /\ Goto(k, f) /\ UNCHANGED <<window, proj, ledger>>
        /\ \/ batch' = batch
           \/ /\ Open(w)
              /\ batch' = [batch EXCEPT ![w] = [state |-> "cancelled", total |-> 0, root |-> None]]
        /\ q.pc = "cancel"
    BY <1>11 DEF CancelBatch, Open, At
  <2>2. f.pc = "budget" /\ f.w = w /\ f.linked = q.linked
    BY <1>2, FieldsKept
  <2> HIDE DEF f
  <2>3. BudgetHolds'
    BY <1>3, <2>1 DEF BudgetHolds, Approved
  <2>4. BudgetOK(proc[k])'
    BY <1>5, <2>1, <2>2 DEF BudgetOK, SyncPCs
  <2>5. \A v \in Windows : Anchored(v)' <=> Anchored(v)
    BY <1>0, <1>2, <2>1 DEF Anchored, Sent, Open
  <2>9. RootsStored'
    BY <1>0, <1>2, <1>3, <2>1 DEF RootsStored, Sent, Open
  <2>6. \A v \in Windows : Linked(v)' <=> Linked(v)
    BY <2>1 DEF Linked
  <2>7. FinalOK(proc[k])'
    BY <1>2, <1>3, <1>5, <2>1, <2>2, <2>5, <2>6 DEF FinalOK, BuildPCs
  <2>8. FinalStep
    BY <1>0, <1>2, <2>1 DEF FinalStep, Open, Sent
  <2> QED
    BY <1>5, <2>1, <2>3, <2>4, <2>7, <2>8, <2>9, SerialBuilder
<1>12. CASE CheckBudget(k)
  <2> DEFINE f == IF Reserved(w) + Amount(q) <= Budget THEN [q EXCEPT !.pc = "window"] ELSE Idle
  <2>1. Goto(k, f) /\ UNCHANGED <<window, proj, ledger, batch>> /\ q.pc = "budget"
    BY <1>12 DEF CheckBudget, At, payRows
  <2>2. \/ f.pc = "idle"
        \/ /\ f.pc = "window" /\ f.w = w /\ f.linked = q.linked /\ Amount(f) = Amount(q)
           /\ Reserved(w) + Amount(q) <= Budget
    <3>1. CASE Reserved(w) + Amount(q) <= Budget
      BY <1>2, <3>1, FieldsKept
    <3>2. CASE ~(Reserved(w) + Amount(q) <= Budget)
      BY <3>2, FreshFields
    <3> QED
      BY <3>1, <3>2
  <2> HIDE DEF f
  <2>3. BudgetHolds' /\ Approved' = Approved
    BY <1>3, <2>1 DEF BudgetHolds, Approved
  <2>4. BudgetOK(proc[k])'
    BY <1>5, <2>1, <2>2, <2>3 DEF BudgetOK, SyncPCs, Reserved
  <2>5. \A v \in Windows : (Anchored(v)' <=> Anchored(v)) /\ (Linked(v)' <=> Linked(v))
    BY <2>1 DEF Anchored, Sent, Linked
  <2>7. FinalOK(proc[k])'
    BY <1>2, <1>3, <1>5, <2>1, <2>2, <2>5 DEF FinalOK, BuildPCs
  <2>8. FinalStep
    BY <2>1 DEF FinalStep
  <2> QED
    BY <1>5, <1>8, <2>1, <2>3, <2>4, <2>7, <2>8, SerialBuilder
<1>13. CASE SaveRewardWindow(k)
  <2> DEFINE f == [q EXCEPT !.pc = "ledger"]
             row == [state |-> IF Pays(q) THEN "finalized" ELSE "no_positive_weight",
                     total |-> Amount(q), linked |-> q.linked /\ Pays(q), tasks |-> TRUE]
  <2>1. /\ Goto(k, f) /\ UNCHANGED <<proj, ledger, batch>>
        /\ window' = [window EXCEPT ![w] = row] /\ q.pc = "window"
    BY <1>13 DEF SaveRewardWindow, Pays, At
  <2>2. f.pc = "ledger" /\ f.w = w /\ Amount(f) = Amount(q)
    BY <1>2, FieldsKept
  <2>9. row.linked => q.linked
    OBVIOUS
  <2> HIDE DEF f, row
  <2>3. BudgetHolds' /\ Approved' = Approved
    BY <1>3, <2>1 DEF BudgetHolds, Approved
  <2>4. BudgetOK(proc[k])'
    BY <1>3, <1>5, <2>1, <2>2, <2>3 DEF BudgetOK, SyncPCs, Reserved
  <2>5. \A v \in Windows : Anchored(v)' <=> Anchored(v)
    BY <2>1 DEF Anchored, Sent
  <2>6. \A v \in Windows : v = w => (Linked(v)' => q.linked)
    BY <1>0, <1>2, <2>1, <2>9 DEF Linked
  <2>7. FinalOK(proc[k])'
    BY <1>2, <1>3, <1>5, <2>1, <2>2, <2>5, <2>6 DEF FinalOK, BuildPCs
  <2>8. FinalStep
    <3>1. ~(Anchored(w) /\ Linked(w))
      BY <1>3, <2>1 DEF FinalOK, BuildPCs
    <3>2. \A v \in Windows \ {w} : window'[v] = window[v]
      BY <1>0, <2>1
    <3> QED
      BY <1>7, <2>1, <3>1, <3>2 DEF FinalStep, Anchored, Sent
  <2> QED
    BY <1>5, <1>8, <2>1, <2>3, <2>4, <2>7, <2>8, SerialBuilder
<1>14. CASE SaveBudgetLedger(k)
  <2> DEFINE f == [q EXCEPT !.pc = "projection"]
  <2>1. /\ Goto(k, f) /\ UNCHANGED <<window, proj, batch>>
        /\ ledger' = [ledger EXCEPT ![w] = LedgerRow(q)] /\ q.pc = "ledger"
    BY <1>14 DEF SaveBudgetLedger, At
  <2>2. f.pc = "projection" /\ f.w = w /\ Amount(f) = Amount(q) /\ f.inputs = q.inputs
    BY <1>2, FieldsKept
  <2> HIDE DEF f
  <2>3. LedgerRow(q) \in BudgetRow /\ LedgerRow(q).approved = Amount(q) /\ LedgerRow(q) # None
    <3>1. LedgerRow(q) \in BudgetRow /\ LedgerRow(q).approved = Amount(q)
      BY <1>2 DEF LedgerRow, BudgetRow
    <3> QED
      BY <3>1, RewardsAssumption
  <2>4. ledger' \in [Windows -> BudgetRow \cup {None}] /\ ledger'[w] = LedgerRow(q)
        /\ \A v \in Windows \ {w} : ledger'[v] = ledger[v]
    BY <1>0, <1>2, <2>1, <2>3
  <2>5. Approved' \in [Windows -> Nat]
    BY <2>4, ApprovedType DEF Approved
  <2>6. Approved'[w] = Amount(q) /\ \A v \in Windows \ {w} : Approved'[v] = Approved[v]
    BY <1>2, <2>3, <2>4 DEF Approved
  <2>7. /\ SumFunction(Approved') = Approved'[w] + SumFunctionOnSet(Approved', Windows \ {w})
        /\ SumFunctionOnSet(Approved', Windows \ {w}) = SumFunctionOnSet(Approved, Windows \ {w})
        /\ SumFunctionOnSet(Approved', Windows \ {w}) \in Nat
    BY <1>2, <1>6, <2>5, <2>6, BudgetSplit
  <2>8. Reserved(w) + Amount(q) <= Budget
    BY <1>3, <2>1 DEF BudgetOK
  <2>9. BudgetHolds'
    <3> SumFunction(Approved') <= Budget
      BY <1>2, <2>6, <2>7, <2>8 DEF Reserved
    <3> QED
      BY DEF BudgetHolds
  <2>10. BudgetOK(proc[k])'
    BY <1>5, <2>1, <2>2, <2>3, <2>4 DEF BudgetOK
  <2>11. \A v \in Windows : (Anchored(v)' <=> Anchored(v)) /\ (Linked(v)' <=> Linked(v))
    BY <2>1 DEF Anchored, Sent, Linked
  <2>12. FinalOK(proc[k])'
    BY <1>2, <1>3, <1>5, <2>1, <2>2, <2>11 DEF FinalOK, BuildPCs
  <2>13. FinalStep
    <3>1. ~(Anchored(w) /\ Linked(w))
      BY <1>3, <2>1 DEF FinalOK, BuildPCs
    <3> QED
      BY <1>7, <2>1, <2>4, <3>1 DEF FinalStep, Anchored, Sent
  <2> QED
    BY <1>5, <1>8, <2>1, <2>9, <2>10, <2>12, <2>13, SerialBuilder
<1>15. CASE SaveProjection(k)
  <2> DEFINE f == IF Pays(q) THEN [q EXCEPT !.pc = "sync"] ELSE [Idle EXCEPT !.pc = q.then, !.w = w]
  <2>1. /\ Goto(k, f) /\ UNCHANGED <<window, ledger, batch>> /\ q.pc = "projection"
        /\ \A v \in Windows \ {w} : proj'[v] = proj[v]
    BY <1>0, <1>15 DEF SaveProjection, Pays, At
  <2>2. q.inputs # {} /\ q.then \in {"done", "batches"}
    BY <1>2, <2>1 DEF HandlerOK, BuildPCs
  <2>3. \/ f.pc \in {"done", "batches"}
        \/ f.pc = "sync" /\ f.w = w /\ Amount(f) = Amount(q)
    <3>1. CASE Pays(q)
      BY <1>2, <3>1, FieldsKept
    <3>2. CASE ~Pays(q)
      BY <2>2, <3>2, FreshFields
    <3> QED
      BY <3>1, <3>2
  <2> HIDE DEF f
  <2>4. BudgetHolds' /\ Approved' = Approved
    BY <1>3, <2>1 DEF BudgetHolds, Approved
  <2>5. BudgetOK(proc[k])'
    BY <1>3, <1>5, <2>1, <2>2, <2>3 DEF BudgetOK, SyncPCs
  <2>6. FinalOK(proc[k])'
    BY <1>5, <2>1, <2>3 DEF FinalOK, BuildPCs
  <2>7. FinalStep
    <3>1. ~(Anchored(w) /\ Linked(w))
      BY <1>3, <2>1 DEF FinalOK, BuildPCs
    <3> QED
      BY <1>7, <2>1, <3>1 DEF FinalStep, Anchored, Sent
  <2> QED
    BY <1>5, <1>8, <2>1, <2>4, <2>5, <2>6, <2>7, SerialBuilder
<1>16. CASE SyncBatch(k)
  <2> DEFINE f == [q EXCEPT !.pc = "link"]
  <2>1. /\ Goto(k, f) /\ UNCHANGED <<window, ledger, proj>> /\ q.pc = "sync"
        /\ \A v \in Windows : Anchored(v) \/ Anchored(v)' => batch'[v] = batch[v]
    BY <1>0, <1>2, <1>16 DEF SyncBatch, At, Anchored, Sent
  <2>2. f.pc = "link" /\ f.w = w /\ Amount(f) = Amount(q) /\ f.inputs = q.inputs
    BY <1>2, FieldsKept
  <2> HIDE DEF f
  <2>4. BudgetHolds' /\ Approved' = Approved
    BY <1>3, <2>1 DEF BudgetHolds, Approved
  <2>5. BudgetOK(proc[k])'
    BY <1>3, <1>5, <2>1, <2>2 DEF BudgetOK, SyncPCs
  <2>6. FinalOK(proc[k])'
    BY <1>5, <2>1, <2>2 DEF FinalOK, BuildPCs
  <2>8. RootsStored'
    BY <1>3, <2>1 DEF RootsStored, Anchored, Sent
  <2>7. FinalStep
    BY <2>1 DEF FinalStep, Anchored, Sent
  <2> QED
    BY <1>5, <2>1, <2>4, <2>5, <2>6, <2>7, <2>8, SerialBuilder
<1>17. CASE LinkWindow(k)
  <2> DEFINE f == IF q.inputs = {} THEN [Idle EXCEPT !.pc = q.then, !.w = w]
                  ELSE [q EXCEPT !.pc = "ledgerLink"]
  <2>1. /\ Goto(k, f) /\ UNCHANGED <<ledger, proj, batch>> /\ q.pc = "link"
        /\ window' = [window EXCEPT ![w].linked = TRUE]
    BY <1>17 DEF LinkWindow, At
  <2>2. q.then \in {"reconciled", "done", "batches"}
    BY <1>2 DEF Handler
  <2>3. \/ f.pc \in {"reconciled", "done", "batches"}
        \/ f.pc = "ledgerLink" /\ f.w = w /\ Amount(f) = Amount(q) /\ f.inputs = q.inputs
    BY <1>2, <2>2, FieldsKept, FreshFields
  <2> HIDE DEF f
  <2>4. BudgetHolds' /\ Approved' = Approved
    BY <1>3, <2>1 DEF BudgetHolds, Approved
  <2>5. BudgetOK(proc[k])'
    BY <1>3, <1>5, <2>1, <2>3 DEF BudgetOK, SyncPCs
  <2>6. FinalOK(proc[k])'
    BY <1>5, <2>1, <2>3 DEF FinalOK, BuildPCs
  <2>7. FinalStep
    <3>1. \A v \in Windows : v \in Saved => window'[v].total = window[v].total
      BY <1>0, <2>1 DEF WindowRow
    <3> QED
      BY <1>7, <2>1, <3>1 DEF FinalStep, Anchored, Sent
  <2> QED
    BY <1>5, <1>8, <2>1, <2>4, <2>5, <2>6, <2>7, SerialBuilder
<1>18. CASE LinkLedger(k)
  <2> DEFINE f == [Idle EXCEPT !.pc = q.then, !.w = w]
             row == [LedgerRow(q) EXCEPT !.linked = TRUE]
  <2>1. /\ Goto(k, f) /\ UNCHANGED <<window, proj, batch>> /\ q.pc = "ledgerLink"
        /\ ledger' = [ledger EXCEPT ![w] = row]
    BY <1>18 DEF LinkLedger, At
  <2>2. q.inputs # {} /\ q.then \in {"done", "batches"}
    BY <1>2, <2>1 DEF HandlerOK
  <2>3. f.pc = q.then
    BY FreshFields
  <2> HIDE DEF f
  <2>4. row \in BudgetRow /\ row.approved = Amount(q) /\ row # None
    BY <1>2, RewardsAssumption DEF LedgerRow, BudgetRow
  <2> HIDE DEF row
  <2>5. ledger[w] # None /\ ledger[w].approved = Amount(q)
    BY <1>3, <2>1, <2>2 DEF BudgetOK, SyncPCs
  <2>6. ledger'[w] = row /\ \A v \in Windows \ {w} : ledger'[v] = ledger[v]
    BY <1>0, <1>2, <2>1
  <2>7. Approved' = Approved
    BY <2>4, <2>5, <2>6 DEF Approved
  <2>8. BudgetHolds'
    BY <1>3, <2>7 DEF BudgetHolds
  <2>9. BudgetOK(proc[k])' /\ FinalOK(proc[k])'
    BY <1>5, <2>1, <2>2, <2>3 DEF BudgetOK, FinalOK, SyncPCs, BuildPCs
  <2>10. FinalStep
    BY <2>1, <2>4, <2>5, <2>6 DEF FinalStep
  <2> QED
    BY <1>5, <1>8, <2>1, <2>8, <2>9, <2>10, SerialBuilder
<1> QED
  BY <1>11, <1>12, <1>13, <1>14, <1>15, <1>16, <1>17, <1>18 DEF Build

\* A step that leaves the rows alone changes nothing that is anchored.
LEMMA RowsStay ==
  ASSUME UNCHANGED payRows
  PROVE  FinalStep
BY DEF payRows, FinalStep

\* The steps that make, link and anchor a batch, no build beside them.
LEMMA SerialAnchorSteps ==
  ASSUME RewardsInv, SerialInv, Serial, Serial', NEW k \in Workers, Anchor(k) \/ Return(k)
  PROVE  SerialInv' /\ FinalStep
<1> DEFINE q == proc[k]  w == proc[k].w
<1>0. /\ Types
      /\ window \in [Windows -> WindowRow \cup {None}]
      /\ ledger \in [Windows -> BudgetRow \cup {None}]
      /\ batch \in [Windows -> BatchRow \cup {None}]
      /\ proc \in [Workers -> Handler]
  BY TablesTyped
<1>1. \A f : Goto(k, f) => proc'[k] = f /\ \A j \in Workers \ {k} : proc'[j] = proc[j]
  BY <1>0 DEF Goto
<1>2. ASSUME NEW f, Goto(k, f), UNCHANGED payRows, f.pc \notin BuildPCs \cup SyncPCs
      PROVE  SerialInv' /\ FinalStep
  <2>1. BudgetOK(proc[k])' /\ FinalOK(proc[k])'
    BY <1>1, <1>2 DEF BudgetOK, FinalOK, SyncPCs, BuildPCs
  <2> QED
    BY <1>0, <1>1, <1>2, <2>1, SerialUnchanged, RowsStay
<1>3. ASSUME NEW v \in Windows, Reconcile(k, v)
      PROVE  SerialInv' /\ FinalStep
  <2>1. CASE ReconcileWindow(k, v, "batches")
    <3> DEFINE prov == \E r \in Candidates(v) : ~r.final
    <3>1. prov \in BOOLEAN /\ Pool[v] \in Nat /\ BuildStart(k, v, prov, Pool[v], "batches")
      BY <2>1, RewardsAssumption DEF ReconcileWindow
    <3> QED
      BY <3>1, SerialBuildStart, RowsStay
  <2>2. CASE ReconcileNoWindow(k, v, "batches")
    <3>1. Goto(k, [Idle EXCEPT !.pc = "batches", !.w = v]) /\ UNCHANGED payRows
      BY <2>2 DEF ReconcileNoWindow
    <3>2. [Idle EXCEPT !.pc = "batches", !.w = v].pc \notin BuildPCs \cup SyncPCs
      BY FreshFields DEF BuildPCs, SyncPCs
    <3> QED
      BY <1>2, <3>1, <3>2
  <2> QED
    BY <1>3, <2>1, <2>2 DEF Reconcile
<1>4. CASE BuildSettlementBatch(k)
  <2> DEFINE f == IF window[w] = None \/ window[w].state = "no_positive_weight"
                   THEN [Idle EXCEPT !.pc = "reconciled", !.w = w]
                   ELSE [Idle EXCEPT !.pc = "sync", !.w = w, !.then = "reconciled"]
  <2>1. Goto(k, f) /\ UNCHANGED payRows
    BY <1>4 DEF BuildSettlementBatch
  <2>2. f.pc \in {"reconciled", "sync"} /\ f.inputs = {}
    BY FreshFields
  <2> HIDE DEF f
  <2>3. BudgetOK(proc[k])' /\ FinalOK(proc[k])'
    BY <1>1, <2>1, <2>2 DEF BudgetOK, FinalOK, BuildPCs
  <2> QED
    BY <1>0, <1>1, <2>1, <2>3, SerialUnchanged, RowsStay
<1>5. CASE AnchorBatch(k) \/ MarkAnchorJobFailed(k) \/ MarkAnchorJobAnchored(k)
  <2>1. /\ UNCHANGED <<window, proj, ledger>> /\ q.pc = "reconciled"
        /\ Goto(k, [q EXCEPT !.pc = "pay"]) \/ Goto(k, Idle)
    BY <1>5 DEF AnchorBatch, MarkAnchorJobFailed, MarkAnchorJobAnchored, At
  <2>2. w \in Windows /\ q \in Handler /\ q.pc \in PayPCs
    BY <1>0, <2>1, BuilderFacts DEF PayPCs
  <2>3. [q EXCEPT !.pc = "pay"].pc = "pay" /\ Idle.pc = "idle"
    BY <2>2, FieldsKept, FreshFields
  <2>4. proc'[k].pc \in {"pay", "idle"} /\ \A j \in Workers \ {k} : proc'[j] = proc[j]
    BY <1>1, <2>1, <2>3
  <2>5. \A j \in Workers \ {k} : proc'[j].pc \notin PayPCs
    BY <2>2, <2>4 DEF Serial, Building
  <2>6. BudgetOK(proc[k])' /\ FinalOK(proc[k])'
    BY <2>4 DEF BudgetOK, FinalOK, SyncPCs, BuildPCs
  <2>7. BudgetHolds'
    BY <2>1 DEF SerialInv, BudgetHolds, Approved
  <2>9. RootsStored
    BY DEF SerialInv
  <2>10. PICK b \in BatchRow :
           /\ batch[w] # None /\ batch' = [batch EXCEPT ![w] = b]
           /\ Sent(b) /\ b.total = batch[w].total
           /\ batch[w].root # None => b.root = batch[w].root
           /\ ~Sent(batch[w]) => b.root # None
    BY <1>5, <2>2, SentBatch
  <2>11. batch'[w] = b /\ \A v \in Windows \ {w} : batch'[v] = batch[v]
    BY <1>0, <2>2, <2>10
  <2>12. RootsStored'
    BY <2>9, <2>10, <2>11 DEF RootsStored
  <2>8. FinalStep
    BY <2>1, <2>2, <2>9, <2>10, <2>11 DEF FinalStep, RootsStored
  <2> QED
    BY <2>5, <2>6, <2>7, <2>8, <2>12, SerialBuilder
<1>8. CASE RebuildRewardWindow(k)
  <2>1. /\ UNCHANGED <<batch, proj, ledger>> /\ q.pc = "reconciled" /\ Goto(k, Idle)
        /\ window[w] # None
        /\ window' = [window EXCEPT ![w].total = 0, ![w].tasks = FALSE]
    BY <1>8 DEF RebuildRewardWindow, At
  <2>2. w \in Windows /\ q.pc \in PayPCs
    BY <1>0, <2>1, BuilderFacts DEF PayPCs
  <2>3. proc'[k] = Idle /\ \A j \in Workers \ {k} : proc'[j].pc \notin PayPCs
    BY <1>1, <2>1, <2>2 DEF Serial, Building
  <2>4. BudgetOK(proc[k])' /\ FinalOK(proc[k])'
    BY <2>3, FreshFields DEF BudgetOK, FinalOK, SyncPCs, BuildPCs
  <2>5. BudgetHolds' /\ RootsStored'
    BY <2>1 DEF SerialInv, BudgetHolds, Approved, RootsStored
  <2>6. \A v \in Windows : window'[v].total \in {window[v].total, 0}
    <3>1. \A v \in Windows \ {w} : window'[v] = window[v]
      BY <1>0, <2>1
    <3>2. window[w] \in WindowRow
      BY <1>0, <2>1, <2>2
    <3>3. window'[w].total = 0
      BY <1>0, <2>1, <2>2, <3>2 DEF WindowRow
    <3> QED
      BY <3>1, <3>3
  <2>7. FinalStep
    BY <2>1, <2>6 DEF FinalStep
  <2> QED
    BY <2>3, <2>4, <2>5, <2>7, SerialBuilder
<1>6. CASE PayLedger(k)
  <2>1. /\ UNCHANGED <<window, proj, batch>> /\ q.pc = "pay"
        /\ Goto(k, Idle)
        /\ ledger' = IF ledger[w] = None THEN ledger
                   ELSE [ledger EXCEPT ![w].linked = TRUE,
                           ![w].state = IF ledger[w].approved > 0 THEN "paid" ELSE @]
    BY <1>6 DEF PayLedger, At
  <2>2. w \in Windows /\ q.pc \in PayPCs
    BY <1>0, <2>1, BuilderFacts DEF PayPCs
  <2>3. \A v \in Windows : /\ ledger'[v] = None <=> ledger[v] = None
                           /\ ledger[v] # None => ledger'[v].approved = ledger[v].approved
    <3>1. CASE ledger[w] = None
      BY <2>1, <3>1
    <3>2. CASE ledger[w] # None
      <4> DEFINE row == [ledger[w] EXCEPT !.linked = TRUE,
                           !.state = IF ledger[w].approved > 0 THEN "paid" ELSE @]
      <4>1. ledger[w] \in BudgetRow
        BY <1>0, <2>2, <3>2
      <4>2. row \in BudgetRow /\ row.approved = ledger[w].approved
        BY <4>1 DEF BudgetRow
      <4>3. ledger' = [ledger EXCEPT ![w] = row]
        BY <1>0, <2>1, <2>2, <3>2
      <4>4. row # None
        BY <4>2, RewardsAssumption
      <4> HIDE DEF row
      <4> QED
        BY <1>0, <2>2, <3>2, <4>2, <4>3, <4>4
    <3> QED
      BY <3>1, <3>2
  <2>4. Approved' = Approved
    BY <2>3 DEF Approved
  <2>5. BudgetHolds' /\ RootsStored'
    BY <2>1, <2>4 DEF SerialInv, BudgetHolds, RootsStored
  <2>6. proc'[k] = Idle /\ \A j \in Workers \ {k} : proc'[j].pc \notin PayPCs
    BY <1>1, <2>1, <2>2 DEF Serial, Building
  <2>7. BudgetOK(proc[k])' /\ FinalOK(proc[k])'
    BY <2>6, FreshFields DEF BudgetOK, FinalOK, SyncPCs, BuildPCs
  <2>8. FinalStep
    <3>1. \A v \in Windows : ledger'[v].approved = ledger[v].approved
      BY <2>1, <2>3
    <3> QED
      BY <2>1, <3>1 DEF FinalStep
  <2> QED
    BY <2>5, <2>6, <2>7, <2>8, SerialBuilder
<1>7. CASE Return(k)
  <2>1. Goto(k, Idle) /\ UNCHANGED payRows /\ Idle.pc \notin BuildPCs \cup SyncPCs
    BY <1>7, FreshFields DEF Return, BuildPCs, SyncPCs
  <2> QED
    BY <1>2, <2>1
<1> QED
  BY <1>3, <1>4, <1>5, <1>6, <1>7, <1>8 DEF Anchor

\* A projection of rankings leaves the rows of the windows alone.
LEMMA ProjectApart ==
  ASSUME Types, NEW k \in Workers, Project(k)
  PROVE  /\ UNCHANGED payRows
         /\ proc'[k].pc \notin PayPCs
         /\ \A j \in Workers \ {k} : proc'[j] = proc[j]
<1> DEFINE q == proc[k]
<1>0. proc \in [Workers -> Handler] /\ q \in Handler
  BY DEF Types
<1>1. \A f : Goto(k, f) => proc'[k] = f /\ \A j \in Workers \ {k} : proc'[j] = proc[j]
  BY <1>0 DEF Goto
<1>2. UNCHANGED payRows
  BY DEF Project, ProjectStart, SaveFinalRanking, ProjectValidate, SaveResult, SaveProjectionArtifact
<1>3. PICK f : Goto(k, f) /\ f.pc \in {"rank", "result", "idle"}
  <2>1. CASE \E p \in Projections : ProjectStart(k, p)
    <3>1. PICK p \in Projections : ProjectStart(k, p)
      BY <2>1
    <3>2. Goto(k, [Idle EXCEPT !.pc = "rank", !.p = p, !.todo = DOMAIN p.ranks])
      BY <3>1 DEF ProjectStart
    <3>3. [Idle EXCEPT !.pc = "rank", !.p = p, !.todo = DOMAIN p.ranks].pc = "rank"
      BY DEF Idle
    <3> QED
      BY <3>2, <3>3
  <2>2. CASE SaveFinalRanking(k) \/ SaveResult(k)
    <3>1. PICK m : Goto(k, [q EXCEPT !.todo = @ \ {m}])
      BY <2>2 DEF SaveFinalRanking, SaveResult
    <3>2. [q EXCEPT !.todo = @ \ {m}].pc = q.pc /\ q.pc \in {"rank", "result"}
      BY <1>0, <2>2 DEF Handler, SaveFinalRanking, SaveResult, At
    <3> QED
      BY <3>1, <3>2
  <2>3. CASE ProjectValidate(k)
    <3> DEFINE t == q.p.tournament  ms == Canonical(t)
               g == [q EXCEPT !.pc = "result", !.todo = ms, !.rows = ranking[t], !.hid = hidden[t]]
    <3>1. Goto(k, IF ValidRanks(t, ms) THEN g ELSE Idle)
      BY <2>3 DEF ProjectValidate
    <3>2. g.pc = "result" /\ Idle.pc = "idle"
      BY <1>0 DEF Handler, Idle
    <3> HIDE DEF g, t, ms
    <3> QED
      BY <3>1, <3>2
  <2>4. CASE SaveProjectionArtifact(k)
    BY <2>4 DEF SaveProjectionArtifact, Idle
  <2> QED
    BY <2>1, <2>2, <2>3, <2>4 DEF Project
<1> QED
  BY <1>1, <1>2, <1>3 DEF PayPCs, BuildPCs, SyncPCs

\* Every step keeps the budget and what is anchored.
LEMMA SerialStep ==
  ASSUME RewardsInv, SerialInv, Serial, Serial', [Next]_vars
  PROVE  SerialInv' /\ FinalStep
<1>0. Types
  BY DEF RewardsInv
<1>1. CASE UNCHANGED vars
  <2> UNCHANGED payRows /\ UNCHANGED proc
    BY <1>1 DEF vars
  <2> QED
    BY <1>0, SerialUnchanged, RowsStay
<1>2. CASE \E t \in Tournaments, m \in Miners :
             \/ \E s \in HiddenScores[m] : SaveHiddenEvalEntry(t, m, s)
             \/ \E p \in LegacyResults, final \in BOOLEAN : ApplyResult(t, m, p, final)
  <2> UNCHANGED payRows /\ UNCHANGED proc
    BY <1>2 DEF SaveHiddenEvalEntry, ApplyResult
  <2> QED
    BY <1>0, SerialUnchanged, RowsStay
<1>3. CASE Crash
  <2>1. UNCHANGED payRows /\ proc' = [k \in Workers |-> Idle]
    BY <1>3 DEF Crash
  <2>2. \A k \in Workers : proc'[k].pc \notin PayPCs
    BY <2>1 DEF Idle, PayPCs, BuildPCs, SyncPCs
  <2> QED
    BY <1>0, <2>1, <2>2, SerialUnchanged, RowsStay
<1>4. ASSUME NEW k \in Workers,
             \/ Project(k) \/ Build(k) \/ Anchor(k) \/ Return(k)
             \/ \E w \in Windows : AdminBuild(k, w)
      PROVE  SerialInv' /\ FinalStep
  <2>1. CASE \E w \in Windows : AdminBuild(k, w)
    <3>3. PICK w \in Windows : AdminBuild(k, w)
      BY <2>1
    <3>1. PICK prov \in BOOLEAN, pool \in Requested[w] : BuildStart(k, w, prov, pool, "done")
      BY <3>3 DEF AdminBuild
    <3>2. pool \in Nat
      BY RewardsAssumption
    <3> QED
      BY <3>1, <3>2, SerialBuildStart, RowsStay
  <2>2. CASE Project(k)
    <3> \A j \in Workers : proc'[j] = proc[j] \/ proc'[j].pc \notin PayPCs
      BY <1>0, <2>2, ProjectApart
    <3> QED
      BY <1>0, <2>2, ProjectApart, SerialUnchanged, RowsStay
  <2> QED
    BY <1>4, <2>1, <2>2, SerialBuildSteps, SerialAnchorSteps
<1> QED
  BY <1>1, <1>2, <1>3, <1>4 DEF Next

\* The invariant holds of an empty service.
LEMMA InitSerial ==
  ASSUME Init
  PROVE  SerialInv
<1>1. \A k \in Workers : proc[k] = Idle
  BY DEF Init
<1>2. \A k \in Workers : BudgetOK(proc[k]) /\ FinalOK(proc[k])
  BY <1>1 DEF Idle, BudgetOK, FinalOK, BuildPCs, SyncPCs
<1>3. \A v \in Windows : Approved[v] = 0
  BY DEF Approved, Init
<1>4. SumFunctionOnSet(Approved, Windows) = 0
  BY <1>3, RewardsAssumption, SumIsZero
<1>5. SumFunction(Approved) = 0
  BY <1>4 DEF SumFunction, Approved
<1>6. BudgetHolds
  BY <1>5, RewardsAssumption DEF BudgetHolds
<1>7. RootsStored
  BY DEF Init, RootsStored, Sent
<1> QED
  BY <1>2, <1>6, <1>7 DEF SerialInv

\* Daily and weekly windows together never reserve more than the epoch's budget,
\* for any windows, pools and budget, with any number of crashes and repeated
\* requests, while rankings are projected at the same time, as long as builds and
\* anchorings come one after the other
\* (_prepare_poker_mtt_budget_ledger, forecast_engine.py:4280-4377).
THEOREM BudgetIsKept == Spec /\ []Serial => []BudgetHolds
<1>1. Init => RewardsInv /\ SerialInv
  BY InitRewards, InitSerial
<1>2. RewardsInv /\ SerialInv /\ Serial /\ Serial' /\ [Next]_vars => (RewardsInv /\ SerialInv)'
  BY RewardsStep, SerialStep
<1>3. SerialInv => BudgetHolds
  BY DEF SerialInv
<1> QED
  BY <1>1, <1>2, <1>3, PTL DEF Spec

\* Under the same condition the root and the total of a batch that has been sent to the
\* chain never change, and the payments and the reservation of a window that is linked
\* to it stay what they were, whatever is projected, requested or interrupted afterwards
\* (build_poker_mtt_reward_window's early return).  What mark_anchor_job_failed and
\* rebuild_reward_window may do all the same is in the statement: the batch may turn
\* from anchored to failed, and the window's total to 0.
THEOREM AnchoredStaysFinal == Spec /\ []Serial => AnchoredIsFinal
<1>1. Init => RewardsInv /\ SerialInv
  BY InitRewards, InitSerial
<1>2. RewardsInv /\ SerialInv /\ Serial /\ Serial' /\ [Next]_vars
        => (RewardsInv /\ SerialInv)' /\ [FinalStep]_vars
  BY RewardsStep, SerialStep
<1> QED
  BY <1>1, <1>2, PTL DEF Spec, AnchoredIsFinal, FinalStep

------------------------------------------------------------------------------
(* What is anchored was reserved and is what the projection pays, as long as *)
(* the service does not crash.                                              *)

\* The rows of window w while only worker k, at step pc of window x, builds.
RowsAt(pc, x, w, win, led, prj, bat) ==
    RowsOK(x = w /\ pc \in {"ledger", "projection"}, x = w /\ pc = "link", win, led, prj, bat)

\* The only builder writes the rows of its window.
LEMMA RowsOfBuilder ==
  ASSUME NEW k \in Workers, NEW w \in Windows, proc[k].w = w, proc[k].pc \in PayPCs,
         \A j \in Workers \ {k} : proc[j].pc \notin PayPCs
  PROVE  RowsAgree <=>
           /\ RowsAt(proc[k].pc, w, w, window[w], ledger[w], proj[w], batch[w])
           /\ \A v \in Windows \ {w} : RowsOK(FALSE, FALSE, window[v], ledger[v], proj[v], batch[v])
<1>1. \A v \in Windows : /\ Midway(v) <=> (v = w /\ proc[k].pc \in {"ledger", "projection"})
                         /\ Linking(v) <=> (v = w /\ proc[k].pc = "link")
  BY DEF Midway, Linking, PayPCs, BuildPCs, SyncPCs
<1> QED
  BY <1>1 DEF RowsAgree, RowsAt, RowsOK

\* Only the rows of the window at work, and what the worker carries, have to be
\* looked at.
LEMMA UncrashedBuilder ==
  ASSUME NEW k \in Workers, NEW w \in Windows, proc[k].w = w, proc[k].pc \in PayPCs,
         \A j \in Workers \ {k} : proc[j].pc \notin PayPCs /\ proc'[j].pc \notin PayPCs,
         RowsAgree,
         \A v \in Windows \ {w} : /\ window'[v] = window[v] /\ ledger'[v] = ledger[v]
                                  /\ proj'[v] = proj[v] /\ batch'[v] = batch[v],
         proc'[k].pc \in PayPCs => proc'[k].w = w /\ HandOK(proc'[k], window'[w], batch'[w]),
         RowsAt(proc'[k].pc, w, w, window'[w], ledger'[w], proj'[w], batch'[w])
  PROVE  HandsOK' /\ RowsAgree'
<1>1. HandsOK'
  BY DEF HandsOK
<1>2. \A v \in Windows \ {w} : RowsOK(FALSE, FALSE, window[v], ledger[v], proj[v], batch[v])
  BY RowsOfBuilder
<1>3. \A v \in Windows \ {w} : RowsOK(FALSE, FALSE, window'[v], ledger'[v], proj'[v], batch'[v])
  BY <1>2
<1>4. \A v \in Windows :
        /\ Midway(v)' => v = w /\ proc'[k].pc \in {"ledger", "projection"}
        /\ v = w /\ proc'[k].pc \in {"ledger", "projection"} => Midway(v)'
        /\ Linking(v)' => v = w /\ proc'[k].pc = "link"
        /\ v = w /\ proc'[k].pc = "link" => Linking(v)'
  BY DEF Midway, Linking, PayPCs, BuildPCs, SyncPCs
<1> QED
  BY <1>1, <1>3, <1>4 DEF RowsAgree, RowsAt, RowsOK

\* A step that leaves the rows alone and is not in the middle of writing them.
LEMMA UncrashedUnchanged ==
  ASSUME HandsOK, RowsAgree, UNCHANGED payRows,
         \A j \in Workers : \/ proc'[j] = proc[j]
                            \/ /\ proc[j].pc \notin {"ledger", "projection", "link"}
                               /\ proc'[j].pc \notin {"ledger", "projection", "link"}
                               /\ proc'[j].pc \in PayPCs =>
                                    HandOK(proc'[j], window[proc'[j].w], batch[proc'[j].w])
  PROVE  HandsOK' /\ RowsAgree'
<1>1. UNCHANGED <<window, ledger, proj, batch>>
  BY DEF payRows
<1>2. HandsOK'
  BY <1>1 DEF HandsOK
<1>3. \A v \in Windows : (Midway(v)' <=> Midway(v)) /\ (Linking(v)' <=> Linking(v))
  BY DEF Midway, Linking
<1> QED
  BY <1>1, <1>2, <1>3 DEF RowsAgree, RowsOK

\* A build begins with what the stored rows say.
LEMMA UncrashedBuildStart ==
  ASSUME RewardsInv, HandsOK, RowsAgree, Serial, Serial', NEW k \in Workers, NEW w \in Windows,
         NEW prov \in BOOLEAN, NEW pool \in Nat, NEW then \in {"done", "batches"},
         BuildStart(k, w, prov, pool, then)
  PROVE  HandsOK' /\ RowsAgree'
<1> DEFINE inputs == Selected(w, prov)
           lk == window[w] # None /\ window[w].linked
           found == [Idle EXCEPT !.w = w, !.inputs = inputs, !.then = then, !.prov = prov,
                                 !.pool = pool, !.linked = lk]
           f == IF Closed(w) \/ (inputs # {} /\ UpToDate(w, inputs, prov, pool))
                    THEN [Idle EXCEPT !.pc = then, !.w = w]
                  ELSE IF inputs = {} THEN Idle
                  ELSE IF HasPositiveWeight(inputs)
                    THEN [found EXCEPT !.pc = "budget"]
                  ELSE [found EXCEPT !.pc = "cancel"]
<1>0. Types /\ proc \in [Workers -> Handler] /\ batch \in [Windows -> BatchRow \cup {None}]
  BY TablesTyped
<1>1. Goto(k, f) /\ UNCHANGED payRows /\ proc[k].pc = "idle"
  BY DEF BuildStart, At
<1>2. proc'[k] = f /\ \A j \in Workers \ {k} : proc'[j] = proc[j]
  BY <1>0, <1>1 DEF Goto
<1>3. /\ [found EXCEPT !.pc = "budget"].pc = "budget" /\ [found EXCEPT !.pc = "cancel"].pc = "cancel"
      /\ [found EXCEPT !.pc = "budget"].w = w /\ [found EXCEPT !.pc = "cancel"].w = w
      /\ [found EXCEPT !.pc = "budget"].linked = lk /\ [found EXCEPT !.pc = "cancel"].linked = lk
      /\ [found EXCEPT !.pc = "budget"].inputs = inputs
  BY DEF Idle
<1>4. [Idle EXCEPT !.pc = then, !.w = w].pc = then /\ Idle.pc = "idle"
  BY FreshFields
<1>5. \/ f.pc \in {"idle", "done", "batches"}
      \/ /\ ~Closed(w) /\ f.pc \in {"budget", "cancel"} /\ f.w = w /\ f.linked = lk
         /\ f.pc = "budget" => Pays(f)
  <2> HIDE DEF found, lk, inputs
  <2> QED
    BY <1>3, <1>4 DEF Pays
<1> HIDE DEF f
<1>6. f.pc \in PayPCs => HandOK(f, window[f.w], batch[f.w])
  <2>1. CASE f.pc \in {"idle", "done", "batches"}
    BY <2>1 DEF HandOK, PayPCs, BuildPCs, SyncPCs
  <2>2. CASE /\ ~Closed(w) /\ f.pc \in {"budget", "cancel"} /\ f.w = w /\ f.linked = lk
             /\ f.pc = "budget" => Pays(f)
    <3>1. proc'[k].pc \in PayPCs
      BY <1>2, <2>2 DEF PayPCs, BuildPCs
    <3>2. \A j \in Workers \ {k} : proc[j].pc \notin PayPCs
      BY <1>2, <3>1 DEF Serial, Building
    <3>3. ~Linking(w)
      BY <1>1, <3>2 DEF Linking, PayPCs, SyncPCs
    <3>4. Sent(batch[w]) => lk
      BY <3>3 DEF RowsAgree, RowsOK
    <3>5. ~Sent(batch[w])
      BY <2>2, <3>4 DEF Closed, Sent
    <3>6. lk = IsLinked(window[w])
      BY DEF IsLinked
    <3> HIDE DEF lk
    <3> QED
      BY <2>2, <3>5, <3>6 DEF HandOK, SyncPCs
  <2> QED
    BY <1>5, <2>1, <2>2
<1>7. f.pc \notin {"ledger", "projection", "link"}
  BY <1>5
<1> QED
  BY <1>1, <1>2, <1>6, <1>7, UncrashedUnchanged

\* The steps of a build keep window, ledger, projection and batch in agreement.
LEMMA UncrashedBuildSteps ==
  ASSUME RewardsInv, SerialInv, HandsOK, RowsAgree, Serial, Serial', NEW k \in Workers, Build(k)
  PROVE  HandsOK' /\ RowsAgree'
<1> DEFINE q == proc[k]  w == proc[k].w  win == window[w]  bat == batch[w]
<1>0. /\ Types
      /\ window \in [Windows -> WindowRow \cup {None}]
      /\ proj \in [Windows -> ProjectionRow \cup {None}]
      /\ ledger \in [Windows -> BudgetRow \cup {None}]
      /\ batch \in [Windows -> BatchRow \cup {None}]
      /\ proc \in [Workers -> Handler]
      /\ \A v \in Saved : window[v] \in WindowRow
  BY TablesTyped
<1>1. q.pc \in BuildPCs \cup SyncPCs
  BY DEF Build, CancelBatch, CheckBudget, SaveRewardWindow, SaveBudgetLedger, At, BuildPCs,
         SaveProjection, SyncBatch, LinkWindow, LinkLedger, SyncPCs
<1>2. /\ q \in Handler /\ HandlerOK(q, Saved) /\ w \in Windows /\ q.pc \in PayPCs
      /\ Amount(q) \in Nat /\ q.pool \in Nat
      /\ IsFiniteSet(q.inputs) /\ q.inputs \in SUBSET InputRow
  BY <1>0, <1>1, BuilderFacts DEF PayPCs
<1>3. BudgetOK(q)
  BY DEF SerialInv
<1>4. \A j \in Workers \ {k} : proc[j].pc \notin PayPCs
  BY <1>2 DEF Serial, Building
<1>5. \A f : Goto(k, f) => proc'[k] = f /\ \A j \in Workers \ {k} : proc'[j].pc \notin PayPCs
  BY <1>0, <1>4 DEF Goto
<1>6. HandOK(q, win, bat)
  BY <1>2 DEF HandsOK
<1>7. RowsAt(q.pc, w, w, win, ledger[w], proj[w], bat)
  BY <1>2, <1>4, RowsOfBuilder
<1>8. /\ None \notin WindowRow /\ None \notin BudgetRow /\ None \notin BatchRow
      /\ bat # None => bat \in BatchRow
  BY <1>0, <1>2, RewardsAssumption
<1> HIDE DEF q, w, win, bat
<1>9. ASSUME NEW f, Goto(k, f), NEW win1, NEW led1, NEW prj1, NEW bat1,
             window' = [window EXCEPT ![w] = win1] \/ (window' = window /\ win1 = win),
             ledger' = [ledger EXCEPT ![w] = led1] \/ (ledger' = ledger /\ led1 = ledger[w]),
             proj' = [proj EXCEPT ![w] = prj1] \/ (proj' = proj /\ prj1 = proj[w]),
             batch' = [batch EXCEPT ![w] = bat1] \/ (batch' = batch /\ bat1 = bat),
             f.pc \in PayPCs => f.w = w /\ HandOK(f, win1, bat1),
             RowsAt(f.pc, w, w, win1, led1, prj1, bat1)
      PROVE  HandsOK' /\ RowsAgree'
  <2>1. proc'[k] = f /\ \A j \in Workers \ {k} : proc[j].pc \notin PayPCs /\ proc'[j].pc \notin PayPCs
    BY <1>4, <1>5, <1>9
  <2>2. window'[w] = win1 /\ ledger'[w] = led1 /\ proj'[w] = prj1 /\ batch'[w] = bat1
    BY <1>0, <1>2, <1>9 DEF win, bat
  <2>3. \A v \in Windows \ {w} : /\ window'[v] = window[v] /\ ledger'[v] = ledger[v]
                                  /\ proj'[v] = proj[v] /\ batch'[v] = batch[v]
    BY <1>0, <1>9
  <2>4. proc[k].w = w /\ proc[k].pc \in PayPCs
    BY <1>2 DEF q, w
  <2>5. proc'[k].pc \in PayPCs => proc'[k].w = w /\ HandOK(proc'[k], window'[w], batch'[w])
    BY <1>9, <2>1, <2>2
  <2>6. RowsAt(proc'[k].pc, w, w, window'[w], ledger'[w], proj'[w], batch'[w])
    BY <1>9, <2>1, <2>2
  <2> QED
    BY <1>2, <2>1, <2>3, <2>4, <2>5, <2>6, UncrashedBuilder
<1>11. CASE CancelBatch(k)
  <2> DEFINE f == [q EXCEPT !.pc = "budget"]  gone == [state |-> "cancelled", total |-> 0, root |-> None]
  <2>1. /\ Goto(k, f) /\ UNCHANGED <<window, proj, ledger>> /\ q.pc = "cancel"
        /\ \/ batch' = batch /\ ~(q.linked /\ InState(bat, "open"))
           \/ batch' = [batch EXCEPT ![w] = gone]
    BY <1>11 DEF CancelBatch, At, InState, q, w, bat
  <2>2. f.pc = "budget" /\ f.w = w /\ f.linked = q.linked /\ Pays(f) = Pays(q)
    BY <1>2, FieldsKept DEF w, q
  <2>3. gone \in BatchRow /\ gone.state = "cancelled"
    BY DEF BatchRow
  <2> HIDE DEF f, gone
  <2>4. ~Sent(bat) /\ q.linked = IsLinked(win)
        /\ (InState(bat, "open") => IsLinked(win))
    BY <1>6, <1>7, <2>1 DEF HandOK, BuildPCs, RowsAt, RowsOK, IsLinked
  <2>5. CASE batch' = batch /\ ~(q.linked /\ InState(bat, "open"))
    <3>1. ~InState(bat, "open")
      BY <2>4, <2>5
    <3>2. HandOK(f, win, bat)
      BY <2>2, <2>4, <3>1 DEF HandOK, SyncPCs
    <3>3. RowsAt(f.pc, w, w, win, ledger[w], proj[w], bat)
      BY <1>7, <2>1, <2>2 DEF RowsAt, RowsOK
    <3> QED
      BY <1>9, <2>1, <2>2, <2>5, <3>2, <3>3
  <2>6. CASE batch' = [batch EXCEPT ![w] = gone]
    <3>1. ~InState(gone, "open") /\ ~Sent(gone)
      BY <2>3 DEF InState, Sent
    <3>2. HandOK(f, win, gone)
      BY <2>2, <2>4, <3>1 DEF HandOK, SyncPCs
    <3>3. RowsAt(f.pc, w, w, win, ledger[w], proj[w], gone)
      BY <1>7, <2>1, <2>2, <3>1 DEF RowsAt, RowsOK
    <3> QED
      BY <1>9, <2>1, <2>2, <2>6, <3>2, <3>3
  <2> QED
    BY <2>1, <2>5, <2>6
<1>12. CASE CheckBudget(k)
  <2> DEFINE f == IF Reserved(w) + Amount(q) <= Budget THEN [q EXCEPT !.pc = "window"] ELSE Idle
  <2>1. Goto(k, f) /\ UNCHANGED <<window, proj, ledger, batch>> /\ q.pc = "budget"
    BY <1>12 DEF CheckBudget, At, payRows, q, w
  <2>2. \/ f.pc = "idle"
        \/ f.pc = "window" /\ f.w = w /\ f.linked = q.linked /\ Pays(f) = Pays(q)
    <3>1. CASE Reserved(w) + Amount(q) <= Budget
      BY <1>2, <3>1, FieldsKept DEF w, q
    <3>2. CASE ~(Reserved(w) + Amount(q) <= Budget)
      BY <3>2, FreshFields
    <3> QED
      BY <3>1, <3>2
  <2> HIDE DEF f
  <2>3. f.pc \in PayPCs => f.w = w /\ HandOK(f, win, bat)
    BY <1>6, <2>1, <2>2 DEF HandOK, PayPCs, BuildPCs, SyncPCs
  <2>4. RowsAt(f.pc, w, w, win, ledger[w], proj[w], bat)
    BY <1>7, <2>1, <2>2 DEF RowsAt, RowsOK
  <2> QED
    BY <1>9, <2>1, <2>3, <2>4
<1>13. CASE SaveRewardWindow(k)
  <2> DEFINE f == [q EXCEPT !.pc = "ledger"]
             row == [state |-> IF Pays(q) THEN "finalized" ELSE "no_positive_weight",
                     total |-> Amount(q), linked |-> q.linked /\ Pays(q), tasks |-> TRUE]
  <2>1. /\ Goto(k, f) /\ UNCHANGED <<proj, ledger, batch>>
        /\ window' = [window EXCEPT ![w] = row] /\ q.pc = "window"
    BY <1>13 DEF SaveRewardWindow, Pays, At, q, w
  <2>2. f.pc = "ledger" /\ f.w = w /\ Amount(f) = Amount(q) /\ Pays(f) = Pays(q)
    BY <1>2, FieldsKept DEF w, q
  <2>3. row \in WindowRow
    BY <1>2 DEF WindowRow, Handler, Pays, HasPositiveWeight
  <2>4. /\ row.total = Amount(q) /\ (Pays(q) => row.state = "finalized")
        /\ (Pays(q) /\ q.linked => row.linked) /\ row # None
    BY <1>8, <2>3
  <2> HIDE DEF f, row
  <2>5. /\ ~Sent(bat) /\ q.linked = IsLinked(win)
        /\ (InState(bat, "open") => IsLinked(win) /\ Pays(q))
    BY <1>6, <1>7, <2>1 DEF HandOK, BuildPCs, RowsAt, RowsOK, IsLinked
  <2>6. HandOK(f, row, bat)
    BY <2>2, <2>4, <2>5 DEF HandOK, SyncPCs
  <2>7. RowsAt(f.pc, w, w, row, ledger[w], proj[w], bat)
    BY <2>2, <2>4, <2>5 DEF RowsAt, RowsOK
  <2> QED
    BY <1>9, <2>1, <2>2, <2>6, <2>7
<1>14. CASE SaveBudgetLedger(k)
  <2> DEFINE f == [q EXCEPT !.pc = "projection"]
  <2>1. /\ Goto(k, f) /\ UNCHANGED <<window, proj, batch>>
        /\ ledger' = [ledger EXCEPT ![w] = LedgerRow(q)] /\ q.pc = "ledger"
    BY <1>14 DEF SaveBudgetLedger, At, q, w
  <2>2. f.pc = "projection" /\ f.w = w /\ Amount(f) = Amount(q) /\ Pays(f) = Pays(q)
    BY <1>2, FieldsKept DEF w, q
  <2> HIDE DEF f
  <2>3. HandOK(f, win, bat)
    BY <1>6, <2>1, <2>2 DEF HandOK, BuildPCs, SyncPCs
  <2>4. RowsAt(f.pc, w, w, win, LedgerRow(q), proj[w], bat)
    <3> ~Sent(bat)
      BY <1>6, <2>1 DEF HandOK, BuildPCs
    <3> QED
      BY <1>7, <2>1, <2>2 DEF RowsAt, RowsOK
  <2> QED
    BY <1>9, <2>1, <2>2, <2>3, <2>4
<1>15. CASE SaveProjection(k)
  <2> DEFINE f == IF Pays(q) THEN [q EXCEPT !.pc = "sync"] ELSE [Idle EXCEPT !.pc = q.then, !.w = w]
             Row(a) == [inputs |-> q.inputs, provisional |-> q.prov, pool |-> q.pool, alloc |-> a]
  <2>4. PICK a \in Payments(q.inputs, q.pool) : proj' = [proj EXCEPT ![w] = Row(a)]
    BY <1>15 DEF SaveProjection, Payments, q, w
  <2> DEFINE r == Row(a)
  <2>1. /\ Goto(k, f) /\ UNCHANGED <<window, ledger, batch>>
        /\ proj' = [proj EXCEPT ![w] = r] /\ q.pc = "projection"
    BY <1>15, <2>4 DEF SaveProjection, Pays, At, q, w
  <2>2. r \in ProjectionRow /\ AllocationOK(r) /\ r.inputs = q.inputs /\ r.pool = q.pool
    <3> q.prov \in BOOLEAN
      BY <1>2 DEF Handler
    <3> QED
      BY <1>2, NewProjection
  <2> HIDE DEF r
  <2>3. SumFunction(r.alloc) = Amount(q)
    BY <2>2 DEF AllocationOK, Amount, w, q
  <2>5. q.inputs # {} /\ q.then \in {"done", "batches"}
    BY <1>2, <2>1 DEF HandlerOK, BuildPCs
  <2>6. \/ f.pc \in {"done", "batches"} /\ f.w = w
        \/ f.pc = "sync" /\ f.w = w /\ Pays(q)
    <3>1. CASE Pays(q)
      BY <1>2, <3>1, FieldsKept DEF w, q
    <3>2. CASE ~Pays(q)
      BY <2>5, <3>2, FreshFields
    <3> QED
      BY <3>1, <3>2
  <2> HIDE DEF f
  <2>7. f.pc \in PayPCs => f.w = w /\ HandOK(f, win, bat)
    BY <1>6, <2>1, <2>6 DEF HandOK, PayPCs, BuildPCs, SyncPCs
  <2>8. ledger[w] # None /\ ledger[w].approved = Amount(q) /\ win.total = Amount(q)
    BY <1>3, <1>6, <2>1, <2>5 DEF BudgetOK, HandOK, w, q
  <2>9. RowsAt(f.pc, w, w, win, ledger[w], r, bat)
    BY <1>7, <2>1, <2>3, <2>6, <2>8 DEF RowsAt, RowsOK
  <2> QED
    BY <1>9, <2>1, <2>7, <2>9
<1>16. CASE SyncBatch(k)
  <2> DEFINE f == [q EXCEPT !.pc = "link"]  row == [state |-> "open", total |-> win.total, root |-> None]
  <2>1. /\ Goto(k, f) /\ UNCHANGED <<window, ledger, proj>> /\ q.pc = "sync"
        /\ \/ batch' = [batch EXCEPT ![w] = row]
           \/ batch' = batch /\ ~InState(bat, "open")
    BY <1>16 DEF SyncBatch, At, InState, q, w, win, bat
  <2>2. f.pc = "link" /\ f.w = w
    BY <1>2, FieldsKept DEF w, q
  <2>3. w \in Saved /\ win \in WindowRow /\ win # None /\ win.state = "finalized"
    BY <1>0, <1>2, <1>6, <1>8, <2>1 DEF HandlerOK, HandOK, SyncPCs, win, w, q
  <2>4. row.state = "open" /\ row.total = win.total
    OBVIOUS
  <2> HIDE DEF f, row
  <2>5. CASE batch' = [batch EXCEPT ![w] = row]
    <3>1. HandOK(f, win, row)
      BY <2>2, <2>3, <2>4 DEF HandOK, BuildPCs
    <3>2. RowsAt(f.pc, w, w, win, ledger[w], proj[w], row)
      BY <1>7, <2>1, <2>2, <2>3, <2>4 DEF RowsAt, RowsOK, InState, Sent
    <3> QED
      BY <1>9, <2>1, <2>2, <2>5, <3>1, <3>2
  <2>6. CASE batch' = batch /\ ~InState(bat, "open")
    <3>1. HandOK(f, win, bat)
      BY <2>2, <2>3, <2>6 DEF HandOK, BuildPCs
    <3>2. RowsAt(f.pc, w, w, win, ledger[w], proj[w], bat)
      BY <1>7, <2>1, <2>2 DEF RowsAt, RowsOK
    <3> QED
      BY <1>9, <2>1, <2>2, <2>6, <3>1, <3>2
  <2> QED
    BY <2>1, <2>5, <2>6
<1>17. CASE LinkWindow(k)
  <2> DEFINE f == IF q.inputs = {} THEN [Idle EXCEPT !.pc = q.then, !.w = w]
                  ELSE [q EXCEPT !.pc = "ledgerLink"]
             row == [win EXCEPT !.linked = TRUE]
  <2>1. /\ Goto(k, f) /\ UNCHANGED <<ledger, proj, batch>> /\ q.pc = "link"
        /\ window' = [window EXCEPT ![w] = row]
    BY <1>17 DEF LinkWindow, At, q, w, win
  <2>2. q.then \in {"reconciled", "done", "batches"}
    BY <1>2 DEF Handler
  <2>3. \/ f.pc \in {"reconciled", "done", "batches"} /\ f.w = w
        \/ f.pc = "ledgerLink" /\ f.w = w
    BY <1>2, <2>2, FieldsKept, FreshFields DEF w, q
  <2>4. w \in Saved /\ win \in WindowRow /\ win # None /\ win.state = "finalized"
    BY <1>0, <1>2, <1>6, <1>8, <2>1 DEF HandlerOK, HandOK, SyncPCs, win, w, q
  <2>5. row \in WindowRow /\ row.state = "finalized" /\ row.linked /\ row.total = win.total
    BY <2>4 DEF WindowRow
  <2>6. row # None
    BY <2>5, <1>8
  <2> HIDE DEF f, row
  <2>7. InState(bat, "open") => bat.total = win.total
    BY <1>6, <2>1 DEF HandOK
  <2>8. f.pc \in PayPCs => f.w = w /\ HandOK(f, row, bat)
    BY <2>3, <2>5, <2>6, <2>7 DEF HandOK, BuildPCs, SyncPCs
  <2>9. RowsAt(f.pc, w, w, row, ledger[w], proj[w], bat)
    BY <1>7, <2>1, <2>3, <2>4, <2>5, <2>6 DEF RowsAt, RowsOK
  <2> QED
    BY <1>9, <2>1, <2>8, <2>9
<1>18. CASE LinkLedger(k)
  <2> DEFINE f == [Idle EXCEPT !.pc = q.then, !.w = w]
             row == [LedgerRow(q) EXCEPT !.linked = TRUE]
  <2>1. /\ Goto(k, f) /\ UNCHANGED <<window, proj, batch>> /\ q.pc = "ledgerLink"
        /\ ledger' = [ledger EXCEPT ![w] = row]
    BY <1>18 DEF LinkLedger, At, q, w
  <2>2. q.inputs # {} /\ q.then \in {"done", "batches"}
    BY <1>2, <2>1 DEF HandlerOK
  <2>3. f.pc \in {"done", "batches"} /\ f.w = w
    BY <2>2, FreshFields
  <2> HIDE DEF f
  <2>4. row \in BudgetRow /\ row.approved = Amount(q)
    BY <1>2 DEF LedgerRow, BudgetRow
  <2>5. row # None
    BY <1>8, <2>4
  <2> HIDE DEF row
  <2>6. ledger[w] # None /\ ledger[w].approved = Amount(q)
    BY <1>3, <2>1, <2>2 DEF BudgetOK, SyncPCs, w, q
  <2>7. f.pc \in PayPCs => f.w = w /\ HandOK(f, win, bat)
    BY <2>3 DEF HandOK, BuildPCs, SyncPCs
  <2>8. RowsAt(f.pc, w, w, win, row, proj[w], bat)
    BY <1>7, <2>1, <2>3, <2>4, <2>5, <2>6 DEF RowsAt, RowsOK
  <2> QED
    BY <1>9, <2>1, <2>7, <2>8
<1> QED
  BY <1>11, <1>12, <1>13, <1>14, <1>15, <1>16, <1>17, <1>18 DEF Build

\* So do the steps that make, link and anchor the batch.
LEMMA UncrashedAnchorSteps ==
  ASSUME RewardsInv, HandsOK, RowsAgree, Serial, Serial', NEW k \in Workers, Anchor(k) \/ Return(k)
  PROVE  HandsOK' /\ RowsAgree'
<1> DEFINE q == proc[k]  w == proc[k].w
<1>0. /\ Types
      /\ window \in [Windows -> WindowRow \cup {None}]
      /\ ledger \in [Windows -> BudgetRow \cup {None}]
      /\ batch \in [Windows -> BatchRow \cup {None}]
      /\ proc \in [Workers -> Handler]
  BY TablesTyped
<1>1. \A f : Goto(k, f) => proc'[k] = f /\ \A j \in Workers \ {k} : proc'[j] = proc[j]
  BY <1>0 DEF Goto
<1>2. ASSUME NEW f, Goto(k, f), UNCHANGED payRows, q.pc \notin {"ledger", "projection", "link"},
             f.pc \notin {"ledger", "projection", "link"},
             f.pc \in PayPCs => HandOK(f, window[f.w], batch[f.w])
      PROVE  HandsOK' /\ RowsAgree'
  BY <1>1, <1>2, UncrashedUnchanged
<1>3. ASSUME NEW v \in Windows, Reconcile(k, v)
      PROVE  HandsOK' /\ RowsAgree'
  <2>1. CASE ReconcileWindow(k, v, "batches")
    <3> DEFINE prov == \E r \in Candidates(v) : ~r.final
    <3>1. prov \in BOOLEAN /\ Pool[v] \in Nat /\ BuildStart(k, v, prov, Pool[v], "batches")
      BY <2>1, RewardsAssumption DEF ReconcileWindow
    <3> QED
      BY <3>1, UncrashedBuildStart
  <2>2. CASE ReconcileNoWindow(k, v, "batches")
    <3> DEFINE f == [Idle EXCEPT !.pc = "batches", !.w = v]
    <3>1. Goto(k, f) /\ UNCHANGED payRows /\ q.pc = "idle"
      BY <2>2 DEF ReconcileNoWindow, At
    <3>2. f.pc = "batches"
      BY FreshFields
    <3> HIDE DEF f
    <3>3. HandOK(f, window[f.w], batch[f.w])
      BY <3>2 DEF HandOK, BuildPCs, SyncPCs
    <3> QED
      BY <1>2, <3>1, <3>2, <3>3
  <2> QED
    BY <1>3, <2>1, <2>2 DEF Reconcile
<1>4. CASE BuildSettlementBatch(k)
  <2> DEFINE nothing == window[w] = None \/ window[w].state = "no_positive_weight"
             f == IF nothing THEN [Idle EXCEPT !.pc = "reconciled", !.w = w]
                  ELSE [Idle EXCEPT !.pc = "sync", !.w = w, !.then = "reconciled"]
  <2>1. Goto(k, f) /\ UNCHANGED payRows /\ q.pc = "batches"
    BY <1>4 DEF BuildSettlementBatch, At
  <2>2. w \in Windows
    BY <1>0, <2>1, BuilderFacts DEF PayPCs
  <2>3. /\ f.w = w
        /\ \/ f.pc = "reconciled" /\ nothing
           \/ f.pc = "sync" /\ ~nothing
    <3> HIDE DEF nothing
    <3> QED
      BY FreshFields
  <2> HIDE DEF f
  <2>4. InState(batch[w], "open") => window[w] # None /\ window[w].state = "finalized"
    BY <2>2 DEF RowsAgree, RowsOK
  <2>5. ~nothing => window[w].state = "finalized"
    BY <1>0, <2>2 DEF WindowRow
  <2>6. HandOK(f, window[w], batch[w])
    BY <2>3, <2>4, <2>5 DEF HandOK, BuildPCs, SyncPCs
  <2> QED
    BY <1>2, <2>1, <2>3, <2>6
<1>5. CASE AnchorBatch(k) \/ MarkAnchorJobFailed(k) \/ MarkAnchorJobAnchored(k)
  <2>1. /\ UNCHANGED <<window, proj, ledger>> /\ q.pc = "reconciled"
        /\ Goto(k, [q EXCEPT !.pc = "pay"]) \/ Goto(k, Idle)
    BY <1>5 DEF AnchorBatch, MarkAnchorJobFailed, MarkAnchorJobAnchored, At
  <2>2. w \in Windows /\ q \in Handler /\ q.pc \in PayPCs
    BY <1>0, <2>1, BuilderFacts DEF PayPCs
  <2>3. /\ [q EXCEPT !.pc = "pay"].pc = "pay" /\ [q EXCEPT !.pc = "pay"].w = w
        /\ Idle.pc = "idle"
    BY <2>2, FieldsKept, FreshFields
  <2>4. /\ proc'[k].pc = "idle" \/ (proc'[k].pc = "pay" /\ proc'[k].w = w)
        /\ \A j \in Workers \ {k} : proc'[j] = proc[j]
    BY <1>1, <2>1, <2>3
  <2>5. \A j \in Workers \ {k} : proc[j].pc \notin PayPCs /\ proc'[j].pc \notin PayPCs
    BY <2>2, <2>4 DEF Serial, Building
  <2>6. PICK b \in BatchRow :
           /\ batch[w] # None /\ batch' = [batch EXCEPT ![w] = b]
           /\ Sent(b) /\ b.total = batch[w].total
           /\ ~Sent(batch[w]) => batch[w].state = "open" /\ batch[w].total > 0
    BY <1>5, <2>2, SentBatch
  <2>7. batch'[w] = b /\ \A v \in Windows \ {w} : batch'[v] = batch[v]
    BY <1>0, <2>2, <2>6
  <2>8. RowsAt(q.pc, w, w, window[w], ledger[w], proj[w], batch[w])
    BY <2>2, <2>5, RowsOfBuilder
  <2>9. InState(batch[w], "open") => window[w] # None /\ batch[w].total = window[w].total
    BY <2>1, <2>2 DEF HandsOK, HandOK
  <2>10. /\ InState(batch[w], "open") \/ Sent(batch[w])
         /\ ~Sent(batch[w]) => InState(batch[w], "open") /\ batch[w].total # 0
    BY <2>6 DEF InState
  <2>11. ~InState(b, "open")
    BY <2>6 DEF InState, Sent
  <2>12. b.total = ledger[w].approved
    BY <2>1, <2>6, <2>8, <2>9, <2>10 DEF RowsAt, RowsOK
  <2>13. RowsAt(proc'[k].pc, w, w, window[w], ledger[w], proj[w], b)
    BY <2>1, <2>4, <2>6, <2>8, <2>10, <2>11, <2>12 DEF RowsAt, RowsOK
  <2>14. RowsAt(proc'[k].pc, w, w, window'[w], ledger'[w], proj'[w], batch'[w])
    BY <2>1, <2>7, <2>13
  <2>15. proc'[k].pc \in PayPCs => proc'[k].w = w /\ HandOK(proc'[k], window'[w], batch'[w])
    BY <2>4 DEF HandOK, PayPCs, BuildPCs, SyncPCs
  <2>16. \A v \in Windows \ {w} : /\ window'[v] = window[v] /\ ledger'[v] = ledger[v]
                                  /\ proj'[v] = proj[v] /\ batch'[v] = batch[v]
    BY <2>1, <2>7
  <2> QED
    BY <2>2, <2>5, <2>14, <2>15, <2>16, UncrashedBuilder
<1>8. CASE RebuildRewardWindow(k)
  <2> DEFINE row == [window[w] EXCEPT !.total = 0, !.tasks = FALSE]
  <2>1. /\ UNCHANGED <<batch, proj, ledger>> /\ q.pc = "reconciled" /\ Goto(k, Idle)
        /\ window[w] # None
        /\ window' = [window EXCEPT ![w].total = 0, ![w].tasks = FALSE]
    BY <1>8 DEF RebuildRewardWindow, At
  <2>2. w \in Windows /\ q.pc \in PayPCs
    BY <1>0, <2>1, BuilderFacts DEF PayPCs
  <2>3. window[w] \in WindowRow
    BY <1>0, <2>1, <2>2
  <2>4. row \in WindowRow /\ row.total = 0 /\ row.state = window[w].state /\ row.linked = window[w].linked
    BY <2>3 DEF WindowRow
  <2>5. window'[w] = row /\ \A v \in Windows \ {w} : window'[v] = window[v]
    BY <1>0, <2>1, <2>2
  <2>6. row # None
    BY <2>4, RewardsAssumption
  <2> HIDE DEF row
  <2>7. \A j \in Workers \ {k} : proc[j].pc \notin PayPCs /\ proc'[j].pc \notin PayPCs
    BY <1>1, <2>1, <2>2 DEF Serial, Building
  <2>8. proc'[k].pc = "idle"
    BY <1>1, <2>1, FreshFields
  <2>9. RowsAt(q.pc, w, w, window[w], ledger[w], proj[w], batch[w])
    BY <2>2, <2>7, RowsOfBuilder
  <2>10. RowsAt("idle", w, w, row, ledger[w], proj[w], batch[w])
    BY <2>1, <2>4, <2>6, <2>9 DEF RowsAt, RowsOK
  <2>11. RowsAt(proc'[k].pc, w, w, window'[w], ledger'[w], proj'[w], batch'[w])
    BY <2>1, <2>5, <2>8, <2>10
  <2>12. proc'[k].pc \notin PayPCs
    BY <2>8 DEF PayPCs, BuildPCs, SyncPCs
  <2>13. \A v \in Windows \ {w} : /\ window'[v] = window[v] /\ ledger'[v] = ledger[v]
                                  /\ proj'[v] = proj[v] /\ batch'[v] = batch[v]
    BY <2>1, <2>5
  <2> QED
    BY <2>2, <2>7, <2>11, <2>12, <2>13, UncrashedBuilder
<1>6. CASE PayLedger(k)
  <2>1. /\ UNCHANGED <<window, proj, batch>> /\ q.pc = "pay"
        /\ Goto(k, Idle)
        /\ ledger' = IF ledger[w] = None THEN ledger
                   ELSE [ledger EXCEPT ![w].linked = TRUE,
                           ![w].state = IF ledger[w].approved > 0 THEN "paid" ELSE @]
    BY <1>6 DEF PayLedger, At
  <2>2. w \in Windows /\ q.pc \in PayPCs
    BY <1>0, <2>1, BuilderFacts DEF PayPCs
  <2>3. /\ ledger'[w] = None <=> ledger[w] = None
        /\ ledger[w] # None => ledger'[w].approved = ledger[w].approved
        /\ \A v \in Windows \ {w} : ledger'[v] = ledger[v]
    <3>1. CASE ledger[w] = None
      BY <2>1, <3>1
    <3>2. CASE ledger[w] # None
      <4> DEFINE row == [ledger[w] EXCEPT !.linked = TRUE,
                           !.state = IF ledger[w].approved > 0 THEN "paid" ELSE @]
      <4>1. ledger[w] \in BudgetRow
        BY <1>0, <2>2, <3>2
      <4>2. row \in BudgetRow /\ row.approved = ledger[w].approved
        BY <4>1 DEF BudgetRow
      <4>3. ledger' = [ledger EXCEPT ![w] = row]
        BY <1>0, <2>1, <2>2, <3>2
      <4>4. row # None
        BY <4>2, RewardsAssumption
      <4> HIDE DEF row
      <4> QED
        BY <1>0, <2>2, <3>2, <4>2, <4>3, <4>4
    <3> QED
      BY <3>1, <3>2
  <2>4. \A j \in Workers \ {k} : proc[j].pc \notin PayPCs /\ proc'[j].pc \notin PayPCs
    BY <1>1, <2>1, <2>2 DEF Serial, Building
  <2>5. proc'[k].pc = "idle"
    BY <1>1, <2>1, FreshFields
  <2>6. RowsAt(q.pc, w, w, window[w], ledger[w], proj[w], batch[w])
    BY <2>2, <2>4, RowsOfBuilder
  <2>7. RowsAt(proc'[k].pc, w, w, window'[w], ledger'[w], proj'[w], batch'[w])
    BY <2>1, <2>3, <2>5, <2>6 DEF RowsAt, RowsOK
  <2>8. proc'[k].pc \notin PayPCs
    BY <2>5 DEF PayPCs, BuildPCs, SyncPCs
  <2>9. \A v \in Windows \ {w} : /\ window'[v] = window[v] /\ ledger'[v] = ledger[v]
                                 /\ proj'[v] = proj[v] /\ batch'[v] = batch[v]
    BY <2>1, <2>3
  <2> QED
    BY <2>2, <2>4, <2>7, <2>8, <2>9, UncrashedBuilder
<1>7. CASE Return(k)
  <2>1. /\ Goto(k, Idle) /\ UNCHANGED payRows /\ q.pc \in {"done", "reconciled"}
        /\ Idle.pc \notin PayPCs \cup {"ledger", "projection", "link"}
    BY <1>7, FreshFields DEF Return, At, PayPCs, BuildPCs, SyncPCs
  <2> QED
    BY <1>2, <2>1
<1> QED
  BY <1>3, <1>4, <1>5, <1>6, <1>7, <1>8 DEF Anchor

\* Every step keeps the rows of the windows in agreement, or is a crash.
LEMMA UncrashedStep ==
  ASSUME RewardsInv, SerialInv, UncrashedInv, Serial, Serial', [Next]_vars
  PROVE  UncrashedInv'
<1>0. Types /\ crashes \in Nat
  BY DEF RewardsInv, UncrashedInv
<1>1. CASE Crash
  BY <1>0, <1>1 DEF Crash, UncrashedInv
<1>2. CASE ~Crash
  <2>1. crashes' = crashes
    <3>1. ASSUME NEW k \in Workers, Project(k) \/ Return(k)
          PROVE  crashes' = crashes
      BY <3>1 DEF Project, ProjectStart, SaveFinalRanking, ProjectValidate, SaveResult,
                  SaveProjectionArtifact, Return
    <3>2. ASSUME NEW k \in Workers, Build(k)
          PROVE  crashes' = crashes
      BY <3>2 DEF Build, CancelBatch, CheckBudget, SaveRewardWindow, SaveBudgetLedger,
                  SaveProjection, SyncBatch, LinkWindow, LinkLedger
    <3>3. ASSUME NEW k, NEW w, NEW prov, NEW pool, NEW then, BuildStart(k, w, prov, pool, then)
          PROVE  crashes' = crashes
      BY <3>3 DEF BuildStart
    <3>4. ASSUME NEW k \in Workers, Anchor(k) \/ (\E w \in Windows : AdminBuild(k, w))
          PROVE  crashes' = crashes
      BY <3>3, <3>4 DEF Anchor, Reconcile, ReconcileWindow, ReconcileNoWindow, AdminBuild,
                        BuildSettlementBatch, AnchorBatch, PayLedger, MarkAnchorJobFailed,
                        MarkAnchorJobAnchored, RebuildRewardWindow
    <3>5. ASSUME NEW t, NEW m, NEW s, NEW final,
                 SaveHiddenEvalEntry(t, m, s) \/ ApplyResult(t, m, s, final)
          PROVE  crashes' = crashes
      BY <3>5 DEF SaveHiddenEvalEntry, ApplyResult
    <3>6. CASE UNCHANGED vars
      BY <3>6 DEF vars
    <3> QED
      BY <1>2, <3>1, <3>2, <3>4, <3>5, <3>6 DEF Next
  <2>2. CASE crashes # 0
    BY <1>0, <2>1, <2>2 DEF UncrashedInv
  <2>3. CASE crashes = 0
    <3>0. HandsOK /\ RowsAgree
      BY <2>3 DEF UncrashedInv
    <3>1. ASSUME \/ UNCHANGED vars
                 \/ \E t \in Tournaments, m \in Miners :
                      \/ \E s \in HiddenScores[m] : SaveHiddenEvalEntry(t, m, s)
                      \/ \E p \in LegacyResults, final \in BOOLEAN : ApplyResult(t, m, p, final)
          PROVE  HandsOK' /\ RowsAgree'
      <4> UNCHANGED payRows /\ UNCHANGED proc
        BY <3>1 DEF vars, SaveHiddenEvalEntry, ApplyResult
      <4> QED
        BY <3>0, UncrashedUnchanged
    <3>2. ASSUME NEW k \in Workers,
                 \/ Project(k) \/ Build(k) \/ Anchor(k) \/ Return(k)
                 \/ \E w \in Windows : AdminBuild(k, w)
          PROVE  HandsOK' /\ RowsAgree'
      <4>1. CASE \E w \in Windows : AdminBuild(k, w)
        <5>3. PICK w \in Windows : AdminBuild(k, w)
          BY <4>1
        <5>1. PICK prov \in BOOLEAN, pool \in Requested[w] : BuildStart(k, w, prov, pool, "done")
          BY <5>3 DEF AdminBuild
        <5>2. pool \in Nat
          BY RewardsAssumption
        <5> QED
          BY <3>0, <5>1, <5>2, UncrashedBuildStart
      <4>2. CASE Project(k)
        <5>1. proc[k].pc \in {"idle", "rank", "result"}
          BY <4>2 DEF Project, ProjectStart, SaveFinalRanking, ProjectValidate, SaveResult,
                      SaveProjectionArtifact, At
        <5>2. /\ UNCHANGED payRows /\ proc'[k].pc \notin PayPCs
              /\ \A j \in Workers \ {k} : proc'[j] = proc[j]
          BY <1>0, <4>2, ProjectApart
        <5>3. {"ledger", "projection", "link"} \subseteq PayPCs
          BY DEF PayPCs, BuildPCs, SyncPCs
        <5> QED
          BY <3>0, <5>1, <5>2, <5>3, UncrashedUnchanged
      <4> QED
        BY <3>0, <3>2, <4>1, <4>2, UncrashedBuildSteps, UncrashedAnchorSteps
    <3>3. HandsOK' /\ RowsAgree'
      BY <1>2, <3>1, <3>2 DEF Next
    <3> QED
      BY <1>0, <2>1, <3>3 DEF UncrashedInv
  <2> QED
    BY <2>2, <2>3
<1> QED
  BY <1>1, <1>2

\* The invariant holds of an empty service.
LEMMA InitUncrashed ==
  ASSUME Init
  PROVE  UncrashedInv
<1>1. \A k \in Workers : proc[k].pc = "idle"
  BY DEF Init, Idle
<1>2. \A w \in Windows : window[w] = None /\ batch[w] = None
  BY DEF Init
<1> QED
  BY <1>1, <1>2 DEF Init, UncrashedInv, HandsOK, RowsAgree, RowsOK, InState, Sent, PayPCs, BuildPCs, SyncPCs

\* As long as builds and anchorings come one after the other and the service does
\* not crash, what an anchored batch pays on the chain was reserved in the budget
\* ledger of its window and is, to the last unit, the sum of the payments of the
\* projection they are taken from, whatever was projected or built again in between.
THEOREM AnchoredWasReserved == Spec /\ []Serial => []AnchoredIsReserved
<1> DEFINE I == RewardsInv /\ SerialInv /\ UncrashedInv
<1>1. Init => I
  BY InitRewards, InitSerial, InitUncrashed
<1>2. I /\ Serial /\ Serial' /\ [Next]_vars => I'
  BY RewardsStep, SerialStep, UncrashedStep
<1>3. I => AnchoredIsReserved
  <2> SUFFICES ASSUME I, crashes = 0, NEW w \in Windows, Sent(batch[w])
               PROVE  /\ ledger[w].approved = batch[w].total
                      /\ SumFunction(proj[w].alloc) = batch[w].total
    BY DEF AnchoredIsReserved
  <2>1. RowsOK(Midway(w), Linking(w), window[w], ledger[w], proj[w], batch[w])
    BY DEF UncrashedInv, RowsAgree
  <2>2. ~Midway(w)
    BY DEF UncrashedInv, HandsOK, Midway, HandOK, PayPCs, BuildPCs
  <2> QED
    BY <2>1, <2>2 DEF RowsOK
<1> HIDE DEF I
<1> QED
  BY <1>1, <1>2, <1>3, PTL DEF Spec
==============================================================================
