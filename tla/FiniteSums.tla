------------------------------- MODULE FiniteSums -------------------------------
(***************************************************************************)
(* Facts about SumFunctionOnSet, the sums over finite sets that the models  *)
(* of payments and budgets use.  The fold is a recursive function over the  *)
(* subsets of its set; what it computes is shown with the principle of the  *)
(* smallest counterexample, since strict inclusion is well founded on the   *)
(* subsets of a finite set.                                                 *)
(***************************************************************************)
EXTENDS Integers, FiniteSets, Functions, FiniteSetTheorems, WellFoundedInduction, TLAPS

\* A set of subsets of a finite set that is not empty has a minimal element.
LEMMA SmallestSubset ==
  ASSUME NEW S, IsFiniteSet(S), NEW T \in SUBSET (SUBSET S), T # {}
  PROVE  \E U \in T : \A V \in T : V \subseteq U => V = U
<1>1. FiniteSubsetsOf(S) = SUBSET S
  BY FS_FiniteSubsetsOfFinite
<1>2. IsWellFoundedOn(StrictSubsetOrdering(S), SUBSET S)
  BY <1>1, FS_StrictSubsetOrderingWellFounded
<1>3. PICK U \in T : \A V \in T : ~ (<<V, U>> \in StrictSubsetOrdering(S))
  BY <1>2, WFMin
<1>4. \A V \in T : V \subseteq U => V = U
  BY <1>3 DEF StrictSubsetOrdering
<1> QED
  BY <1>4

------------------------------------------------------------------------------
(* The recursion of the fold has one solution.                              *)

First(s) == CHOOSE x \in s : TRUE

\* g is the function that the fold over S iterates.
Iterates(f, S, g) ==
    g = [s \in SUBSET S |-> IF s = {} THEN 0 ELSE f[First(s)] + g[s \ {First(s)}]]

\* The element a fold takes first is one of the set.
LEMMA FirstIsIn ==
  ASSUME NEW s, s # {}
  PROVE  First(s) \in s
BY DEF First

\* Two solutions of the recursion agree on every subset: a smallest one where
\* they do not has a smaller one.
LEMMA IterationIsUnique ==
  ASSUME NEW f, NEW S, IsFiniteSet(S), NEW g, NEW h, Iterates(f, S, g), Iterates(f, S, h)
  PROVE  g = h
<1> DEFINE T == {s \in SUBSET S : g[s] # h[s]}
<1>1. SUFFICES ASSUME T # {}
               PROVE FALSE
  BY DEF Iterates
<1>2. PICK U \in T : \A V \in T : V \subseteq U => V = U
  <2> T \in SUBSET (SUBSET S)
    OBVIOUS
  <2> HIDE DEF T
  <2> QED
    BY <1>1, SmallestSubset
<1>3. U # {}
  BY DEF Iterates
<1>4. First(U) \in U
  BY <1>3, FirstIsIn
<1>5. U \ {First(U)} \notin T
  BY <1>2, <1>4
<1>6. g[U \ {First(U)}] = h[U \ {First(U)}]
  BY <1>5
<1>7. g[U] = h[U]
  BY <1>6, <1>3 DEF Iterates
<1> QED
  BY <1>7

\* A solution for a set has one for each of its subsets in it.
LEMMA IterationRestricts ==
  ASSUME NEW f, NEW S, NEW g, Iterates(f, S, g), NEW U \in SUBSET S
  PROVE  Iterates(f, U, [s \in SUBSET U |-> g[s]])
<1> DEFINE h == [s \in SUBSET U |-> g[s]]
<1>1. \A s \in SUBSET U : h[s] = IF s = {} THEN 0 ELSE f[First(s)] + h[s \ {First(s)}]
  <2> TAKE s \in SUBSET U
  <2>1. s \in SUBSET S /\ s \ {First(s)} \in SUBSET U
    OBVIOUS
  <2>2. g[s] = IF s = {} THEN 0 ELSE f[First(s)] + g[s \ {First(s)}]
    BY <2>1 DEF Iterates
  <2> QED
    BY <2>1, <2>2
<1>2. h = [s \in SUBSET U |-> h[s]]
  OBVIOUS
<1> QED
  BY <1>1, <1>2 DEF Iterates

\* Every finite set has a solution: a smallest one without is extended from its
\* subsets.
LEMMA IterationExists ==
  ASSUME NEW f, NEW S, IsFiniteSet(S)
  PROVE  \E g : Iterates(f, S, g)
<1> DEFINE G(U) == CHOOSE g : Iterates(f, U, g)
           T == {U \in SUBSET S : ~ \E g : Iterates(f, U, g)}
<1>1. SUFFICES ASSUME T # {}
               PROVE FALSE
  OBVIOUS
<1>2. PICK U \in T : \A V \in T : V \subseteq U => V = U
  <2> T \in SUBSET (SUBSET S)
    OBVIOUS
  <2> HIDE DEF T
  <2> QED
    BY <1>1, SmallestSubset
<1>3. \A V \in SUBSET U : V # U => Iterates(f, V, G(V))
  BY <1>2
<1> DEFINE Value(s) == IF s = {} THEN 0
                       ELSE f[First(s)] + G(s \ {First(s)})[s \ {First(s)}]
           h == [s \in SUBSET U |-> Value(s)]
<1>4. \A s \in SUBSET U : s # U => G(s)[s] = Value(s)
  <2> SUFFICES ASSUME NEW s \in SUBSET U, s # U
               PROVE  G(s)[s] = Value(s)
    OBVIOUS
  <2>1. Iterates(f, s, G(s))
    BY <1>3
  <2> HIDE DEF G
  <2>2. CASE s = {}
    BY <2>1, <2>2 DEF Iterates
  <2>3. CASE s # {}
    <3> DEFINE r == s \ {First(s)}
    <3>1. First(s) \in s
      BY <2>3, FirstIsIn
    <3>2. r \in SUBSET s /\ r \in SUBSET U /\ r # U
      BY <3>1
    <3>3. Iterates(f, r, G(r))
      BY <3>2, <1>3
    <3>4. Iterates(f, r, [x \in SUBSET r |-> G(s)[x]])
      BY <2>1, <3>2, IterationRestricts
    <3>5. IsFiniteSet(r)
      BY FS_Subset
    <3>6. G(r) = [x \in SUBSET r |-> G(s)[x]]
      BY <3>3, <3>4, <3>5, IterationIsUnique
    <3>7. G(r)[r] = G(s)[r]
      BY <3>6
    <3> QED
      BY <2>1, <2>3, <3>7 DEF Iterates
  <2> QED
    BY <2>2, <2>3
<1>5. \A s \in SUBSET U : h[s] = IF s = {} THEN 0 ELSE f[First(s)] + h[s \ {First(s)}]
  <2> SUFFICES ASSUME NEW s \in SUBSET U
               PROVE  h[s] = IF s = {} THEN 0 ELSE f[First(s)] + h[s \ {First(s)}]
    OBVIOUS
  <2>1. CASE s = {}
    BY <2>1
  <2>2. CASE s # {}
    <3> DEFINE r == s \ {First(s)}
    <3>1. First(s) \in s
      BY <2>2, FirstIsIn
    <3>2. r \in SUBSET U /\ r # U
      BY <3>1
    <3>3. h[r] = G(r)[r]
      BY <3>2, <1>4
    <3>4. h[s] = f[First(s)] + G(r)[r]
      BY <2>2
    <3> QED
      BY <3>3, <3>4, <2>2
  <2> QED
    BY <2>1, <2>2
<1>6. Iterates(f, U, h)
  <2> HIDE DEF Value
  <2> h = [s \in SUBSET U |-> h[s]]
    OBVIOUS
  <2> QED
    BY <1>5 DEF Iterates
<1> QED
  BY <1>6, <1>2

\* The sum is the value of that function.
LEMMA SumIsIteration ==
  ASSUME NEW f, NEW S, NEW g, IsFiniteSet(S), Iterates(f, S, g)
  PROVE  SumFunctionOnSet(f, S) = g[S]
<1> DEFINE it == CHOOSE h : Iterates(f, S, h)
<1>1. Iterates(f, S, it)
  OBVIOUS
<1>2. it = g
  BY <1>1, IterationIsUnique
<1>3. SumFunctionOnSet(f, S) = it[S]
  BY DEF SumFunctionOnSet, FoldFunctionOnSet, MapThenFoldSet, Iterates, First
<1> QED
  BY <1>2, <1>3

\* The sum over nothing.
LEMMA SumEmpty ==
  ASSUME NEW f
  PROVE  SumFunctionOnSet(f, {}) = 0
<1>1. IsFiniteSet({})
  BY FS_EmptySet
<1>2. PICK g : Iterates(f, {}, g)
  BY <1>1, IterationExists
<1>3. g[{}] = 0
  BY <1>2 DEF Iterates
<1> QED
  BY <1>1, <1>2, <1>3, SumIsIteration

\* The sum over a set, by the element the fold takes first.
LEMMA SumFirst ==
  ASSUME NEW f, NEW S, IsFiniteSet(S), S # {}
  PROVE  SumFunctionOnSet(f, S) = f[First(S)] + SumFunctionOnSet(f, S \ {First(S)})
<1> DEFINE r == S \ {First(S)}
<1>1. PICK g : Iterates(f, S, g)
  BY IterationExists
<1>2. IsFiniteSet(r)
  BY FS_Subset
<1>3. Iterates(f, r, [s \in SUBSET r |-> g[s]])
  BY <1>1, IterationRestricts
<1>4. SumFunctionOnSet(f, r) = g[r]
  BY <1>2, <1>3, SumIsIteration
<1>5. SumFunctionOnSet(f, S) = g[S]
  BY <1>1, SumIsIteration
<1> QED
  BY <1>1, <1>4, <1>5 DEF Iterates

------------------------------------------------------------------------------
(* What the sums are.                                                       *)

\* A sum of integers is an integer.
LEMMA SumIsInteger ==
  ASSUME NEW f, NEW S, IsFiniteSet(S), \A x \in S : f[x] \in Int
  PROVE  SumFunctionOnSet(f, S) \in Int
<1> DEFINE T == {U \in SUBSET S : SumFunctionOnSet(f, U) \notin Int}
<1>1. SUFFICES ASSUME T # {}
               PROVE FALSE
  OBVIOUS
<1>2. PICK U \in T : \A V \in T : V \subseteq U => V = U
  <2> T \in SUBSET (SUBSET S)
    OBVIOUS
  <2> HIDE DEF T
  <2> QED
    BY <1>1, SmallestSubset
<1>3. U # {} /\ IsFiniteSet(U)
  <2>1. IsFiniteSet(U)
    BY FS_Subset
  <2>2. SumFunctionOnSet(f, {}) = 0
    BY SumEmpty
  <2> QED
    BY <2>1, <2>2
<1>4. First(U) \in U
  BY <1>3, FirstIsIn
<1>5. SumFunctionOnSet(f, U \ {First(U)}) \in Int
  BY <1>2, <1>4
<1>6. SumFunctionOnSet(f, U) = f[First(U)] + SumFunctionOnSet(f, U \ {First(U)})
  BY <1>3, SumFirst
<1> QED
  BY <1>4, <1>5, <1>6

\* Any element of the set may be the one that is added last.
LEMMA SumRemove ==
  ASSUME NEW f, NEW S, IsFiniteSet(S), \A x \in S : f[x] \in Int, NEW e \in S
  PROVE  SumFunctionOnSet(f, S) = f[e] + SumFunctionOnSet(f, S \ {e})
<1> DEFINE Sum(U) == SumFunctionOnSet(f, U)
           T == {U \in SUBSET S : \E x \in U : Sum(U) # f[x] + Sum(U \ {x})}
<1>1. SUFFICES ASSUME T # {}
               PROVE FALSE
  OBVIOUS
<1>2. PICK U \in T : \A V \in T : V \subseteq U => V = U
  <2> T \in SUBSET (SUBSET S)
    OBVIOUS
  <2> HIDE DEF T
  <2> QED
    BY <1>1, SmallestSubset
<1>3. PICK x \in U : Sum(U) # f[x] + Sum(U \ {x})
  OBVIOUS
<1> DEFINE y == First(U)
<1>4. IsFiniteSet(U) /\ y \in U
  BY FS_Subset, FirstIsIn
<1>5. Sum(U) = f[y] + Sum(U \ {y})
  BY <1>4, <1>3, SumFirst
<1>6. x # y
  BY <1>3, <1>5
<1>0. \A V \in SUBSET U : V # U => \A z \in V : Sum(V) = f[z] + Sum(V \ {z})
  <2> HIDE DEF Sum
  <2> QED
    BY <1>2
<1>7. Sum(U \ {y}) = f[x] + Sum((U \ {y}) \ {x})
  <2> HIDE DEF Sum, y
  <2> QED
    BY <1>0, <1>4, <1>6
<1>8. Sum(U \ {x}) = f[y] + Sum((U \ {x}) \ {y})
  <2> HIDE DEF Sum, y
  <2> QED
    BY <1>0, <1>4, <1>6
<1>9. (U \ {x}) \ {y} = (U \ {y}) \ {x}
  OBVIOUS
<1>10. x \in S /\ y \in S /\ f[x] \in Int /\ f[y] \in Int
  BY <1>4
<1>11. Sum((U \ {x}) \ {y}) \in Int
  <2> IsFiniteSet((U \ {x}) \ {y})
    BY FS_Subset
  <2> QED
    BY SumIsInteger
<1> HIDE DEF y, Sum, T
<1>12. /\ Sum(U) = f[y] + (f[x] + Sum((U \ {x}) \ {y}))
       /\ f[x] + Sum(U \ {x}) = f[x] + (f[y] + Sum((U \ {x}) \ {y}))
  BY <1>5, <1>7, <1>8, <1>9
<1>13. f[y] + (f[x] + Sum((U \ {x}) \ {y})) = f[x] + (f[y] + Sum((U \ {x}) \ {y}))
  BY <1>10, <1>11
<1> QED
  BY <1>3, <1>12, <1>13

\* An element more adds its value, whichever the fold takes first.
LEMMA SumAdd ==
  ASSUME NEW f, NEW S, IsFiniteSet(S), NEW e, e \notin S, \A x \in S \cup {e} : f[x] \in Int
  PROVE  SumFunctionOnSet(f, S \cup {e}) = f[e] + SumFunctionOnSet(f, S)
<1>1. IsFiniteSet(S \cup {e})
  BY FS_AddElement
<1>2. (S \cup {e}) \ {e} = S
  OBVIOUS
<1> QED
  BY <1>1, <1>2, SumRemove

\* Two functions that agree on the set have the same sum.
LEMMA SumSame ==
  ASSUME NEW f, NEW g, NEW S, IsFiniteSet(S), \A x \in S : f[x] = g[x]
  PROVE  SumFunctionOnSet(f, S) = SumFunctionOnSet(g, S)
<1> DEFINE T == {U \in SUBSET S : SumFunctionOnSet(f, U) # SumFunctionOnSet(g, U)}
<1>1. SUFFICES ASSUME T # {}
               PROVE FALSE
  OBVIOUS
<1>2. PICK U \in T : \A V \in T : V \subseteq U => V = U
  <2> T \in SUBSET (SUBSET S)
    OBVIOUS
  <2> HIDE DEF T
  <2> QED
    BY <1>1, SmallestSubset
<1>3. U # {} /\ IsFiniteSet(U)
  <2>1. IsFiniteSet(U)
    BY FS_Subset
  <2>2. SumFunctionOnSet(f, {}) = 0 /\ SumFunctionOnSet(g, {}) = 0
    BY SumEmpty
  <2> QED
    BY <2>1, <2>2
<1>4. First(U) \in U
  BY <1>3, FirstIsIn
<1>5. SumFunctionOnSet(f, U \ {First(U)}) = SumFunctionOnSet(g, U \ {First(U)})
  BY <1>2, <1>4
<1>6. /\ SumFunctionOnSet(f, U) = f[First(U)] + SumFunctionOnSet(f, U \ {First(U)})
      /\ SumFunctionOnSet(g, U) = g[First(U)] + SumFunctionOnSet(g, U \ {First(U)})
  BY <1>3, SumFirst
<1> QED
  BY <1>4, <1>5, <1>6

\* Two functions that agree on the set except at e.
LEMMA SumUpdate ==
  ASSUME NEW f, NEW g, NEW S, IsFiniteSet(S), NEW e \in S,
         \A x \in S : f[x] \in Int /\ g[x] \in Int,
         \A x \in S \ {e} : f[x] = g[x]
  PROVE  SumFunctionOnSet(g, S) = SumFunctionOnSet(f, S) + (g[e] - f[e])
<1>1. IsFiniteSet(S \ {e})
  BY FS_Subset
<1>2. SumFunctionOnSet(f, S \ {e}) = SumFunctionOnSet(g, S \ {e})
  BY <1>1, SumSame
<1>3. /\ SumFunctionOnSet(f, S) = f[e] + SumFunctionOnSet(f, S \ {e})
      /\ SumFunctionOnSet(g, S) = g[e] + SumFunctionOnSet(g, S \ {e})
  BY SumRemove
<1>4. SumFunctionOnSet(f, S \ {e}) \in Int
  BY <1>1, SumIsInteger
<1> QED
  BY <1>2, <1>3, <1>4

\* The sum is monotone, and natural for naturals.
LEMMA SumMonotone ==
  ASSUME NEW f, NEW g, NEW S, IsFiniteSet(S),
         \A x \in S : f[x] \in Int /\ g[x] \in Int /\ f[x] <= g[x]
  PROVE  SumFunctionOnSet(f, S) <= SumFunctionOnSet(g, S)
<1> DEFINE T == {U \in SUBSET S : ~(SumFunctionOnSet(f, U) <= SumFunctionOnSet(g, U))}
<1>1. SUFFICES ASSUME T # {}
               PROVE FALSE
  OBVIOUS
<1>2. PICK U \in T : \A V \in T : V \subseteq U => V = U
  <2> T \in SUBSET (SUBSET S)
    OBVIOUS
  <2> HIDE DEF T
  <2> QED
    BY <1>1, SmallestSubset
<1>3. U # {} /\ IsFiniteSet(U)
  <2>1. IsFiniteSet(U)
    BY FS_Subset
  <2>2. SumFunctionOnSet(f, {}) = 0 /\ SumFunctionOnSet(g, {}) = 0
    BY SumEmpty
  <2> QED
    BY <2>1, <2>2
<1> DEFINE e == First(U)  r == U \ {First(U)}
<1>4. e \in U
  BY <1>3, FirstIsIn
<1>5. SumFunctionOnSet(f, r) <= SumFunctionOnSet(g, r)
  BY <1>2, <1>4
<1>6. SumFunctionOnSet(f, r) \in Int /\ SumFunctionOnSet(g, r) \in Int
  BY <1>3, FS_Subset, SumIsInteger
<1>7. /\ SumFunctionOnSet(f, U) = f[e] + SumFunctionOnSet(f, r)
      /\ SumFunctionOnSet(g, U) = g[e] + SumFunctionOnSet(g, r)
  BY <1>3, SumFirst
<1>8. f[e] \in Int /\ g[e] \in Int /\ f[e] <= g[e]
  BY <1>4
<1>9. ~(SumFunctionOnSet(f, U) <= SumFunctionOnSet(g, U))
  OBVIOUS
<1> HIDE DEF e, r
<1> QED
  BY <1>5, <1>6, <1>7, <1>8, <1>9

\* A sum of zeros.
LEMMA SumIsZero ==
  ASSUME NEW f, NEW S, IsFiniteSet(S), \A x \in S : f[x] = 0
  PROVE  SumFunctionOnSet(f, S) = 0
<1> DEFINE T == {U \in SUBSET S : SumFunctionOnSet(f, U) # 0}
<1>1. SUFFICES ASSUME T # {}
               PROVE FALSE
  OBVIOUS
<1>2. PICK U \in T : \A V \in T : V \subseteq U => V = U
  <2> T \in SUBSET (SUBSET S)
    OBVIOUS
  <2> HIDE DEF T
  <2> QED
    BY <1>1, SmallestSubset
<1>3. U # {} /\ IsFiniteSet(U)
  <2>1. IsFiniteSet(U)
    BY FS_Subset
  <2>2. SumFunctionOnSet(f, {}) = 0
    BY SumEmpty
  <2> QED
    BY <2>1, <2>2
<1>4. First(U) \in U
  BY <1>3, FirstIsIn
<1>5. SumFunctionOnSet(f, U \ {First(U)}) = 0
  BY <1>2, <1>4
<1>6. SumFunctionOnSet(f, U) = f[First(U)] + SumFunctionOnSet(f, U \ {First(U)})
  BY <1>3, SumFirst
<1> QED
  BY <1>4, <1>5, <1>6

\* A sum of naturals is a natural.
LEMMA SumIsNatural ==
  ASSUME NEW f, NEW S, IsFiniteSet(S), \A x \in S : f[x] \in Nat
  PROVE  SumFunctionOnSet(f, S) \in Nat
<1> DEFINE z == [x \in S |-> 0]
<1>1. SumFunctionOnSet(z, S) = 0
  BY SumIsZero
<1>2. SumFunctionOnSet(z, S) <= SumFunctionOnSet(f, S)
  BY SumMonotone
<1>3. SumFunctionOnSet(f, S) \in Int
  BY SumIsInteger
<1> QED
  BY <1>1, <1>2, <1>3
\* A sum of sums is the sum of the termwise sums.
LEMMA SumPlus ==
  ASSUME NEW f, NEW g, NEW h, NEW S, IsFiniteSet(S),
         \A x \in S : f[x] \in Int /\ g[x] \in Int /\ h[x] = f[x] + g[x]
  PROVE  SumFunctionOnSet(h, S) = SumFunctionOnSet(f, S) + SumFunctionOnSet(g, S)
<1> DEFINE T == {U \in SUBSET S : SumFunctionOnSet(h, U)
                                    # SumFunctionOnSet(f, U) + SumFunctionOnSet(g, U)}
<1>1. SUFFICES ASSUME T # {}
               PROVE FALSE
  OBVIOUS
<1>2. PICK U \in T : \A V \in T : V \subseteq U => V = U
  <2> T \in SUBSET (SUBSET S)
    OBVIOUS
  <2> HIDE DEF T
  <2> QED
    BY <1>1, SmallestSubset
<1>3. U # {} /\ IsFiniteSet(U)
  <2>1. IsFiniteSet(U)
    BY FS_Subset
  <2>2. /\ SumFunctionOnSet(f, {}) = 0
        /\ SumFunctionOnSet(g, {}) = 0
        /\ SumFunctionOnSet(h, {}) = 0
    BY SumEmpty
  <2>3. SumFunctionOnSet(h, {}) = SumFunctionOnSet(f, {}) + SumFunctionOnSet(g, {})
    BY <2>2
  <2> QED
    BY <2>1, <2>3
<1> DEFINE e == First(U)  r == U \ {First(U)}
<1>4. e \in U
  BY <1>3, FirstIsIn
<1>5. SumFunctionOnSet(h, r) = SumFunctionOnSet(f, r) + SumFunctionOnSet(g, r)
  BY <1>2, <1>4
<1>6. SumFunctionOnSet(f, r) \in Int /\ SumFunctionOnSet(g, r) \in Int
  BY <1>3, FS_Subset, SumIsInteger
<1>7. /\ SumFunctionOnSet(f, U) = f[e] + SumFunctionOnSet(f, r)
      /\ SumFunctionOnSet(g, U) = g[e] + SumFunctionOnSet(g, r)
      /\ SumFunctionOnSet(h, U) = h[e] + SumFunctionOnSet(h, r)
  BY <1>3, SumFirst
<1>8. f[e] \in Int /\ g[e] \in Int /\ h[e] = f[e] + g[e]
  BY <1>4
<1>9. SumFunctionOnSet(h, U) # SumFunctionOnSet(f, U) + SumFunctionOnSet(g, U)
  OBVIOUS
<1> HIDE DEF e, r, T
<1> QED
  BY <1>5, <1>6, <1>7, <1>8, <1>9

\* A common factor comes out of the sum.
LEMMA SumTimes ==
  ASSUME NEW f, NEW h, NEW S, IsFiniteSet(S), NEW c \in Int,
         \A x \in S : f[x] \in Int /\ h[x] = f[x] * c
  PROVE  SumFunctionOnSet(h, S) = SumFunctionOnSet(f, S) * c
<1> DEFINE T == {U \in SUBSET S : SumFunctionOnSet(h, U) # SumFunctionOnSet(f, U) * c}
<1>1. SUFFICES ASSUME T # {}
               PROVE FALSE
  OBVIOUS
<1>2. PICK U \in T : \A V \in T : V \subseteq U => V = U
  <2> T \in SUBSET (SUBSET S)
    OBVIOUS
  <2> HIDE DEF T
  <2> QED
    BY <1>1, SmallestSubset
<1>3. U # {} /\ IsFiniteSet(U)
  <2>1. IsFiniteSet(U)
    BY FS_Subset
  <2>2. /\ SumFunctionOnSet(f, {}) = 0
        /\ SumFunctionOnSet(h, {}) = 0
    BY SumEmpty
  <2>3. 0 * c = 0
    OBVIOUS
  <2>4. SumFunctionOnSet(h, {}) = SumFunctionOnSet(f, {}) * c
    BY <2>2, <2>3
  <2>5. SumFunctionOnSet(h, U) # SumFunctionOnSet(f, U) * c
    OBVIOUS
  <2>6. U # {}
    <3> HIDE DEF T
    <3> QED
      BY <2>4, <2>5
  <2> QED
    BY <2>1, <2>6
<1> DEFINE e == First(U)  r == U \ {First(U)}
<1>4. e \in U
  BY <1>3, FirstIsIn
<1>5. SumFunctionOnSet(h, r) = SumFunctionOnSet(f, r) * c
  BY <1>2, <1>4
<1>6. SumFunctionOnSet(f, r) \in Int
  BY <1>3, FS_Subset, SumIsInteger
<1>7. /\ SumFunctionOnSet(f, U) = f[e] + SumFunctionOnSet(f, r)
      /\ SumFunctionOnSet(h, U) = h[e] + SumFunctionOnSet(h, r)
  BY <1>3, SumFirst
<1>8. f[e] \in Int /\ h[e] = f[e] * c
  BY <1>4
<1>9. SumFunctionOnSet(h, U) # SumFunctionOnSet(f, U) * c
  OBVIOUS
<1>10. \A i, j, k \in Int : (i + j) * k = i * k + j * k
  OBVIOUS
<1> HIDE DEF e, r, T
<1> QED
  BY <1>5, <1>6, <1>7, <1>8, <1>9, <1>10

\* Elements that count nothing may be left out.
LEMMA SumWithoutZeros ==
  ASSUME NEW f, NEW S, IsFiniteSet(S), NEW A \in SUBSET S,
         \A x \in S : f[x] \in Int, \A x \in S \ A : f[x] = 0
  PROVE  SumFunctionOnSet(f, S) = SumFunctionOnSet(f, A)
<1> DEFINE Sum(U) == SumFunctionOnSet(f, U)
           T == {U \in SUBSET S : A \subseteq U /\ Sum(U) # Sum(A)}
<1>1. SUFFICES ASSUME T # {}
               PROVE FALSE
  OBVIOUS
<1>2. PICK U \in T : \A V \in T : V \subseteq U => V = U
  <2> T \in SUBSET (SUBSET S)
    OBVIOUS
  <2> HIDE DEF T
  <2> QED
    BY <1>1, SmallestSubset
<1>3. PICK e \in U : e \notin A
  OBVIOUS
<1>4. Sum(U \ {e}) = Sum(A)
  <2> HIDE DEF Sum
  <2> QED
    BY <1>2, <1>3
<1>5. IsFiniteSet(U) /\ IsFiniteSet(U \ {e})
  BY FS_Subset
<1>6. Sum(U) = f[e] + Sum(U \ {e})
  BY <1>3, <1>5, SumRemove
<1>7. Sum(U \ {e}) \in Int /\ f[e] = 0
  BY <1>3, <1>5, SumIsInteger
<1>8. Sum(U) # Sum(A)
  OBVIOUS
<1> HIDE DEF Sum
<1> QED
  BY <1>4, <1>6, <1>7, <1>8

\* The sum of ones is the cardinality.
LEMMA SumOfOnes ==
  ASSUME NEW f, NEW S, IsFiniteSet(S), \A x \in S : f[x] = 1
  PROVE  SumFunctionOnSet(f, S) = Cardinality(S)
<1> DEFINE T == {U \in SUBSET S : SumFunctionOnSet(f, U) # Cardinality(U)}
<1>1. SUFFICES ASSUME T # {}
               PROVE FALSE
  OBVIOUS
<1>2. PICK U \in T : \A V \in T : V \subseteq U => V = U
  <2> T \in SUBSET (SUBSET S)
    OBVIOUS
  <2> HIDE DEF T
  <2> QED
    BY <1>1, SmallestSubset
<1>3. U # {} /\ IsFiniteSet(U)
  <2>1. IsFiniteSet(U)
    BY FS_Subset
  <2>2. SumFunctionOnSet(f, {}) = 0 /\ Cardinality({}) = 0
    BY SumEmpty, FS_EmptySet
  <2> QED
    BY <2>1, <2>2
<1>4. First(U) \in U
  BY <1>3, FirstIsIn
<1>5. SumFunctionOnSet(f, U \ {First(U)}) = Cardinality(U \ {First(U)})
  BY <1>2, <1>4
<1>6. SumFunctionOnSet(f, U) = f[First(U)] + SumFunctionOnSet(f, U \ {First(U)})
  BY <1>3, SumFirst
<1>7. Cardinality(U \ {First(U)}) = Cardinality(U) - 1
  BY <1>3, <1>4, FS_RemoveElement
<1>8. Cardinality(U) \in Nat /\ f[First(U)] = 1
  BY <1>3, <1>4, FS_CardinalityType
<1>9. SumFunctionOnSet(f, U) # Cardinality(U)
  OBVIOUS
<1> HIDE DEF T
<1> QED
  BY <1>5, <1>6, <1>7, <1>8, <1>9

\* The sum of a constant.
LEMMA SumOfConstants ==
  ASSUME NEW f, NEW S, IsFiniteSet(S), NEW c \in Int, \A x \in S : f[x] = c
  PROVE  SumFunctionOnSet(f, S) = Cardinality(S) * c
<1> DEFINE one == [x \in S |-> 1]
<1>1. \A x \in S : one[x] = 1
  OBVIOUS
<1>2. \A x \in S : one[x] \in Int /\ f[x] = one[x] * c
  OBVIOUS
<1> HIDE DEF one
<1>3. SumFunctionOnSet(one, S) = Cardinality(S)
  BY <1>1, SumOfOnes
<1>4. SumFunctionOnSet(f, S) = SumFunctionOnSet(one, S) * c
  BY <1>2, SumTimes
<1> QED
  BY <1>3, <1>4

\* A function that is 1 on a part of the set and else 0 counts the part.
LEMMA SumCounts ==
  ASSUME NEW f, NEW S, IsFiniteSet(S), NEW A \in SUBSET S,
         \A x \in A : f[x] = 1, \A x \in S \ A : f[x] = 0
  PROVE  SumFunctionOnSet(f, S) = Cardinality(A)
<1>1. SumFunctionOnSet(f, S) = SumFunctionOnSet(f, A)
  BY SumWithoutZeros
<1>2. IsFiniteSet(A)
  BY FS_Subset
<1> QED
  BY <1>1, <1>2, SumOfOnes
------------------------------------------------------------------------------
(* The largest element of a finite set, and the first k of an order.        *)

\* f takes a largest value on a finite set.
LEMMA LargestExists ==
  ASSUME NEW f, NEW S, IsFiniteSet(S), S # {}, \A x \in S : f[x] \in Int
  PROVE  \E x \in S : \A y \in S : f[x] >= f[y]
<1> DEFINE T == {U \in SUBSET S : U # {} /\ ~ \E x \in U : \A y \in U : f[x] >= f[y]}
<1>1. SUFFICES ASSUME T # {}
               PROVE FALSE
  OBVIOUS
<1>2. PICK U \in T : \A V \in T : V \subseteq U => V = U
  <2> T \in SUBSET (SUBSET S)
    OBVIOUS
  <2> HIDE DEF T
  <2> QED
    BY <1>1, SmallestSubset
<1>3. PICK e : e \in U
  OBVIOUS
<1>4. CASE U \ {e} = {}
  <2> f[e] \in Int /\ \A y \in U : y = e
    BY <1>3, <1>4
  <2> QED
    BY <1>3
<1>5. CASE U \ {e} # {}
  <2>0. U \ {e} \notin T
    <3> U \ {e} # U /\ U \ {e} \subseteq U
      BY <1>3
    <3> HIDE DEF T
    <3> QED
      BY <1>2
  <2>1. PICK x \in U \ {e} : \A y \in U \ {e} : f[x] >= f[y]
    BY <2>0, <1>5
  <2>2. \A y \in U : f[y] \in Int
    OBVIOUS
  <2>3. CASE f[x] >= f[e]
    BY <2>1, <2>2, <2>3
  <2>4. CASE f[e] >= f[x]
    <3> \A y \in U : f[e] >= f[y]
      BY <2>1, <2>2, <2>4, <1>3
    <3> QED
      BY <1>3
  <2> QED
    BY <2>2, <2>3, <2>4, <1>3
<1> QED
  BY <1>4, <1>5

\* R is a strict order of S in which any two elements are comparable.
StrictOrder(R, S) ==
    /\ \A x \in S : <<x, x>> \notin R
    /\ \A x, y \in S : x # y => <<x, y>> \in R \/ <<y, x>> \in R
    /\ \A x, y, z \in S : <<x, y>> \in R /\ <<y, z>> \in R => <<x, z>> \in R

Before(R, S, x) == {y \in S : <<y, x>> \in R}

\* A strict order of a finite set has a last element.
LEMMA LastExists ==
  ASSUME NEW R, NEW S, IsFiniteSet(S), S # {}, StrictOrder(R, S)
  PROVE  \E x \in S : \A y \in S : y # x => <<y, x>> \in R
<1> DEFINE T == {U \in SUBSET S : U # {} /\ ~ \E x \in U : \A y \in U : y # x => <<y, x>> \in R}
<1>1. SUFFICES ASSUME T # {}
               PROVE FALSE
  OBVIOUS
<1>2. PICK U \in T : \A V \in T : V \subseteq U => V = U
  <2> T \in SUBSET (SUBSET S)
    OBVIOUS
  <2> HIDE DEF T
  <2> QED
    BY <1>1, SmallestSubset
<1>3. PICK e : e \in U
  OBVIOUS
<1>4. CASE U \ {e} = {}
  BY <1>3, <1>4
<1>5. CASE U \ {e} # {}
  <2>0. U \ {e} \notin T
    <3> U \ {e} # U /\ U \ {e} \subseteq U
      BY <1>3
    <3> HIDE DEF T
    <3> QED
      BY <1>2
  <2>1. PICK x \in U \ {e} : \A y \in U \ {e} : y # x => <<y, x>> \in R
    BY <2>0, <1>5
  <2>2. CASE <<e, x>> \in R
    BY <2>1, <2>2
  <2>3. CASE <<x, e>> \in R
    <3> \A y \in U : y # e => <<y, e>> \in R
      BY <2>1, <2>3, <1>3 DEF StrictOrder
    <3> QED
      BY <1>3
  <2> QED
    BY <2>2, <2>3, <1>3 DEF StrictOrder
<1> QED
  BY <1>4, <1>5

\* Exactly k elements have less than k elements before them.
LEMMA FirstK ==
  ASSUME NEW R, NEW S, IsFiniteSet(S), StrictOrder(R, S), NEW k \in 0..Cardinality(S)
  PROVE  Cardinality({x \in S : Cardinality(Before(R, S, x)) < k}) = k
<1> DEFINE F(U, n) == {x \in U : Cardinality(Before(R, U, x)) < n}
           T == {U \in SUBSET S : \E n \in 0..Cardinality(U) : Cardinality(F(U, n)) # n}
<1>1. SUFFICES ASSUME T # {}
               PROVE FALSE
  OBVIOUS
<1>2. PICK U \in T : \A V \in T : V \subseteq U => V = U
  <2> T \in SUBSET (SUBSET S)
    OBVIOUS
  <2> HIDE DEF T
  <2> QED
    BY <1>1, SmallestSubset
<1>3. PICK n \in 0..Cardinality(U) : Cardinality(F(U, n)) # n
  OBVIOUS
<1>4. IsFiniteSet(U) /\ Cardinality(U) \in Nat
  BY FS_Subset, FS_CardinalityType
<1>5. U # {}
  <2> SUFFICES ASSUME U = {} PROVE FALSE
    OBVIOUS
  <2>1. F(U, n) = {} /\ n = 0
    BY <1>3, FS_EmptySet
  <2> QED
    BY <2>1, <1>3, FS_EmptySet
<1>6. StrictOrder(R, U)
  BY DEF StrictOrder
<1>7. PICK e \in U : \A y \in U : y # e => <<y, e>> \in R
  BY <1>4, <1>5, <1>6, LastExists
<1> DEFINE V == U \ {e}
<1>8. IsFiniteSet(V) /\ Cardinality(V) = Cardinality(U) - 1
  BY <1>4, FS_RemoveElement
<1>9. \A x \in U : IsFiniteSet(Before(R, U, x)) /\ Cardinality(Before(R, U, x)) < Cardinality(U)
  <2> SUFFICES ASSUME NEW x \in U
               PROVE  /\ IsFiniteSet(Before(R, U, x))
                      /\ Cardinality(Before(R, U, x)) < Cardinality(U)
    OBVIOUS
  <2>1. Before(R, U, x) \in SUBSET (U \ {x})
    BY <1>6 DEF Before, StrictOrder
  <2>2. IsFiniteSet(U \ {x}) /\ Cardinality(U \ {x}) = Cardinality(U) - 1
    BY <1>4, FS_RemoveElement
  <2>3. /\ IsFiniteSet(Before(R, U, x))
        /\ Cardinality(Before(R, U, x)) <= Cardinality(U \ {x})
    BY <2>1, <2>2, FS_Subset
  <2>4. Cardinality(Before(R, U, x)) \in Nat
    BY <2>3, FS_CardinalityType
  <2> QED
    BY <1>4, <2>2, <2>3, <2>4
<1>10. CASE n = Cardinality(U)
  <2> F(U, n) = U
    BY <1>9, <1>10
  <2> QED
    BY <1>10, <1>3
<1>11. CASE n # Cardinality(U)
  <2>1. n \in 0..Cardinality(V)
    BY <1>3, <1>4, <1>8, <1>11
  <2>2. Before(R, U, e) = V
    BY <1>6, <1>7 DEF Before, StrictOrder
  <2>3. ~(Cardinality(V) < n)
    <3> Cardinality(V) \in Nat
      BY <1>8, FS_CardinalityType
    <3> HIDE DEF V
    <3> QED
      BY <2>1
  <2>4. \A x \in V : Before(R, U, x) = Before(R, V, x)
    BY <1>6, <1>7 DEF Before, StrictOrder
  <2>5. F(U, n) = F(V, n)
    BY <2>2, <2>3, <2>4
  <2>6. V \notin T
    <3> V \in SUBSET U /\ V # U
      OBVIOUS
    <3> HIDE DEF T
    <3> QED
      BY <1>2
  <2>7. Cardinality(F(V, n)) = n
    <3> V \in SUBSET S
      OBVIOUS
    <3> HIDE DEF V, F
    <3> QED
      BY <2>1, <2>6
  <2> HIDE DEF F
  <2> QED
    BY <2>5, <2>7, <1>3
<1> QED
  BY <1>10, <1>11
==============================================================================
