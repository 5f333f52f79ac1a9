--------------------------- MODULE MinerClientProofs ---------------------------
(***************************************************************************)
(* Proofs about MinerForecast and MinerClient.                               *)
(*                                                                          *)
(* The first part is arithmetic: every operator a forecast is made of either *)
(* is odd around its middle or treats both sides alike, and the cap on a     *)
(* model's answer grows with the evidence.  The second part follows a nonce: *)
(* it is drawn for one task, its commit precedes its reveal, and what the    *)
(* service has in hand for it is what it will save.  The third follows a     *)
(* record through the read and the write of append_log.                      *)
(***************************************************************************)
EXTENDS MinerClient, FiniteSetTheorems, SequenceTheorems, TLAPS

------------------------------------------------------------------------------
(* Forecasts: no rounding, threshold or cap prefers yes or no.               *)

Pack == [baseline : Int, depth : Int, trade : Int, micro : Int, yes : Nat, no : Nat,
         q : Int, spread : Int, volume24 : Int, liquidity : Int]

\* Division of a whole number by a positive one is a whole number, and 0 stays 0.
LEMMA DivisionType ==
  ASSUME NEW a \in Int, NEW b \in Int, b > 0
  PROVE  a \div b \in Int /\ 0 \div b = 0
OBVIOUS

\* int(a / b), which rounds toward zero, is odd in a.
LEMMA TruncIsOdd ==
  ASSUME NEW a \in Int, NEW b \in Int, b > 0
  PROVE  Trunc(a, b) \in Int /\ Trunc(-a, b) = -Trunc(a, b)
<1>1. a \div b \in Int /\ (-a) \div b \in Int /\ 0 \div b = 0
  BY DivisionType
<1>2. CASE a < 0
  BY <1>1, <1>2 DEF Trunc
<1>3. CASE a > 0
  BY <1>1, <1>3 DEF Trunc
<1>4. CASE a = 0
  BY <1>1, <1>4 DEF Trunc
<1> QED
  BY <1>2, <1>3, <1>4

\* The bounds of clamp_bps lie symmetrically about 5000.
LEMMA ClampMirrors ==
  ASSUME NEW p \in Int
  PROVE  Clamp(p) \in MinPYes..MaxPYes /\ Clamp(10000 - p) = 10000 - Clamp(p)
BY DEF Clamp, MinPYes, MaxPYes

\* directional_vote is odd.
LEMMA VoteIsOdd ==
  ASSUME NEW v \in Int, NEW t \in Int, t > 0
  PROVE  Vote(v, t) \in {-1, 0, 1} /\ Vote(-v, t) = -Vote(v, t)
BY DEF Vote

\* The fields of the mirrored market.
LEMMA MirrorFields ==
  ASSUME NEW pack \in Pack
  PROVE  /\ Mirror(pack) \in Pack
         /\ Mirror(pack).baseline = 10000 - pack.baseline
         /\ Mirror(pack).depth = -pack.depth
         /\ Mirror(pack).trade = -pack.trade
         /\ Mirror(pack).micro = -pack.micro
         /\ Mirror(pack).yes = pack.no
         /\ Mirror(pack).no = pack.yes
         /\ Mirror(pack).q = 10000 - pack.q
         /\ Mirror(pack).spread = pack.spread
         /\ Mirror(pack).volume24 = pack.volume24
         /\ Mirror(pack).liquidity = pack.liquidity
<1>1. /\ pack.baseline \in Int /\ pack.depth \in Int /\ pack.trade \in Int
      /\ pack.micro \in Int /\ pack.yes \in Nat /\ pack.no \in Nat /\ pack.q \in Int
      /\ pack.spread \in Int /\ pack.volume24 \in Int /\ pack.liquidity \in Int
  BY DEF Pack
<1>2. DOMAIN pack = {"baseline", "depth", "trade", "micro", "yes", "no", "q", "spread",
                     "volume24", "liquidity"}
  BY DEF Pack
<1>3. /\ Mirror(pack).baseline = 10000 - pack.baseline
      /\ Mirror(pack).depth = -pack.depth
      /\ Mirror(pack).trade = -pack.trade
      /\ Mirror(pack).micro = -pack.micro
      /\ Mirror(pack).yes = pack.no
      /\ Mirror(pack).no = pack.yes
      /\ Mirror(pack).q = 10000 - pack.q
      /\ Mirror(pack).spread = pack.spread
      /\ Mirror(pack).volume24 = pack.volume24
      /\ Mirror(pack).liquidity = pack.liquidity
  BY ONLY <1>2 DEF Mirror
<1>4. Mirror(pack) \in Pack
  <2>1. Mirror(pack) = [f \in DOMAIN pack |-> Mirror(pack)[f]]
    BY DEF Mirror
  <2> QED
    BY <1>1, <1>2, <1>3, <2>1 DEF Pack
<1> QED
  BY <1>3, <1>4

\* A sum of terms that change their sign is mirrored about its constant part.
LEMMA SumMirrors ==
  ASSUME NEW b \in Int, NEW t \in Int, NEW u \in Int, NEW v \in Int, NEW w \in Int, NEW x \in Int
  PROVE  /\ b + t + u + 2 * v + w + x \in Int
         /\ (10000 - b) + (-t) + (-u) + 2 * (-v) + (-w) + (-x)
              = 10000 - (b + t + u + 2 * v + w + x)
OBVIOUS

\* compute_heuristic_prediction: each of its terms is odd under the mirror.
LEMMA HeuristicMirrors ==
  ASSUME NEW pack \in Pack
  PROVE  Heuristic(Mirror(pack)) = 10000 - Heuristic(pack)
<1> DEFINE m == Mirror(pack)
           volume == pack.yes + pack.no
           skew == IF volume > 0 THEN Trunc(500 * (pack.yes - pack.no), volume) ELSE 0
           mskew == IF m.yes + m.no > 0 THEN Trunc(500 * (m.yes - m.no), m.yes + m.no) ELSE 0
           sum == pack.baseline + Trunc(pack.depth, 10) + Trunc(8 * pack.trade, 100)
                    + 2 * pack.micro + skew + Trunc(pack.q - pack.baseline, 5)
           msum == m.baseline + Trunc(m.depth, 10) + Trunc(8 * m.trade, 100)
                     + 2 * m.micro + mskew + Trunc(m.q - m.baseline, 5)
<1>1. /\ pack.baseline \in Int /\ pack.depth \in Int /\ pack.trade \in Int
      /\ pack.micro \in Int /\ pack.yes \in Nat /\ pack.no \in Nat /\ pack.q \in Int
  BY DEF Pack
<1>2. /\ m.baseline = 10000 - pack.baseline
      /\ m.depth = -pack.depth
      /\ m.trade = -pack.trade
      /\ m.micro = -pack.micro
      /\ m.yes = pack.no
      /\ m.no = pack.yes
      /\ m.q = 10000 - pack.q
  BY MirrorFields
<1> HIDE DEF m
<1>3. Trunc(pack.depth, 10) \in Int /\ Trunc(m.depth, 10) = -Trunc(pack.depth, 10)
  BY <1>1, <1>2, TruncIsOdd
<1>4. /\ Trunc(8 * pack.trade, 100) \in Int
      /\ Trunc(8 * m.trade, 100) = -Trunc(8 * pack.trade, 100)
  <2>1. 8 * pack.trade \in Int /\ 8 * m.trade = -(8 * pack.trade)
    BY <1>1, <1>2
  <2> QED
    BY <2>1, TruncIsOdd
<1>5. /\ Trunc(pack.q - pack.baseline, 5) \in Int
      /\ Trunc(m.q - m.baseline, 5) = -Trunc(pack.q - pack.baseline, 5)
  <2>1. pack.q - pack.baseline \in Int /\ m.q - m.baseline = -(pack.q - pack.baseline)
    BY <1>1, <1>2
  <2> QED
    BY <2>1, TruncIsOdd
<1>6. skew \in Int /\ mskew = -skew
  <2>1. m.yes + m.no = volume /\ volume \in Nat
    BY <1>1, <1>2
  <2>2. /\ 500 * (pack.yes - pack.no) \in Int
        /\ 500 * (m.yes - m.no) = -(500 * (pack.yes - pack.no))
    BY <1>1, <1>2
  <2>3. CASE volume > 0
    <3>1. /\ Trunc(500 * (pack.yes - pack.no), volume) \in Int
          /\ Trunc(-(500 * (pack.yes - pack.no)), volume)
               = -Trunc(500 * (pack.yes - pack.no), volume)
      BY <2>1, <2>2, <2>3, TruncIsOdd
    <3> QED
      BY <2>1, <2>2, <2>3, <3>1
  <2>4. CASE ~(volume > 0)
    <3>1. skew = 0 /\ mskew = 0
      BY <2>1, <2>4
    <3>2. /\ skew \in Int /\ skew <= 0 /\ 0 <= skew
          /\ mskew \in Int /\ mskew <= 0 /\ 0 <= mskew
      BY <3>1
    <3>3. \A x, y \in Int : x <= 0 /\ 0 <= x /\ y <= 0 /\ 0 <= y => y = -x
      OBVIOUS
    <3> HIDE DEF skew, mskew
    <3> QED
      BY ONLY <3>2, <3>3
  <2> QED
    BY <2>3, <2>4
<1>7. sum \in Int /\ msum = 10000 - sum
  <2> HIDE DEF skew, mskew
  <2> DEFINE t1 == Trunc(pack.depth, 10)
             t2 == Trunc(8 * pack.trade, 100)
             t3 == Trunc(pack.q - pack.baseline, 5)
  <2>1. sum = pack.baseline + t1 + t2 + 2 * pack.micro + skew + t3
    OBVIOUS
  <2>2. msum = (10000 - pack.baseline) + (-t1) + (-t2) + 2 * (-pack.micro) + (-skew) + (-t3)
    BY <1>2, <1>3, <1>4, <1>5, <1>6
  <2>3. t1 \in Int /\ t2 \in Int /\ t3 \in Int
    BY <1>3, <1>4, <1>5
  <2> HIDE DEF sum, msum, t1, t2, t3
  <2>4. /\ pack.baseline + t1 + t2 + 2 * pack.micro + skew + t3 \in Int
        /\ (10000 - pack.baseline) + (-t1) + (-t2) + 2 * (-pack.micro) + (-skew) + (-t3)
             = 10000 - (pack.baseline + t1 + t2 + 2 * pack.micro + skew + t3)
    BY <1>1, <1>6, <2>3, SumMirrors
  <2> QED
    BY <2>1, <2>2, <2>4
<1>8. Heuristic(pack) = Clamp(sum) /\ Heuristic(m) = Clamp(msum)
  BY DEF Heuristic
<1> HIDE DEF sum, msum
<1>9. Heuristic(m) = 10000 - Heuristic(pack)
  BY <1>7, <1>8, ClampMirrors
<1> QED
  BY <1>9 DEF m

\* The votes of the mirrored market are the opposite ones.
LEMMA VotesMirror ==
  ASSUME NEW pack \in Pack, ~Unpriced(pack)
  PROVE  /\ Thin(Mirror(pack)) = Thin(pack)
         /\ Flat(Mirror(pack)) = Flat(pack)
         /\ DOMAIN Votes(Mirror(pack)) = DOMAIN Votes(pack)
         /\ \A s \in DOMAIN Votes(pack) :
              Votes(pack)[s] \in {-1, 0, 1} /\ Votes(Mirror(pack))[s] = -Votes(pack)[s]
<1> DEFINE m == Mirror(pack)
<1>1. pack.depth \in Int /\ pack.trade \in Int /\ pack.micro \in Int /\ pack.q \in Int
  BY DEF Pack
<1>2. /\ m.depth = -pack.depth
      /\ m.trade = -pack.trade
      /\ m.micro = -pack.micro
      /\ m.q = 10000 - pack.q
      /\ m.spread = pack.spread
      /\ m.volume24 = pack.volume24
      /\ m.liquidity = pack.liquidity
  BY MirrorFields
<1> HIDE DEF m
<1>3. Thin(m) = Thin(pack)
  BY <1>2 DEF Thin
<1>4. Flat(m) = Flat(pack)
  BY <1>1, <1>2 DEF Flat, Abs
<1>5. DOMAIN Votes(m) = {"pm", "price", "depth", "trade"}
      /\ DOMAIN Votes(pack) = {"pm", "price", "depth", "trade"}
  BY DEF Votes
<1>6. Votes(m).depth = -Votes(pack).depth /\ Votes(pack).depth \in {-1, 0, 1}
  BY <1>1, <1>2, VoteIsOdd DEF Votes
<1>7. Votes(m).trade = -Votes(pack).trade /\ Votes(pack).trade \in {-1, 0, 1}
  BY <1>1, <1>2, VoteIsOdd DEF Votes
<1>8. Votes(m).price = -Votes(pack).price /\ Votes(pack).price \in {-1, 0, 1}
  BY <1>1, <1>2, VoteIsOdd DEF Votes
<1>9. Votes(m).pm = -Votes(pack).pm /\ Votes(pack).pm \in {-1, 0, 1}
  <2>1. pack.q - 5000 \in Int /\ m.q - 5000 = -(pack.q - 5000)
    BY <1>1, <1>2
  <2>2. Vote(pack.q - 5000, 150) \in {-1, 0, 1}
        /\ Vote(m.q - 5000, 150) = -Vote(pack.q - 5000, 150)
    BY <2>1, VoteIsOdd
  <2>3. CASE Thin(pack)
    <3>1. Votes(m).pm = 0 /\ Votes(pack).pm = 0
      BY <1>3, <2>3 DEF Votes
    <3> DEFINE x == Votes(m).pm  y == Votes(pack).pm
    <3>2. x \in Int /\ x <= 0 /\ 0 <= x /\ y \in Int /\ y <= 0 /\ 0 <= y
      BY <3>1
    <3>3. \A i, j \in Int : i <= 0 /\ 0 <= i /\ j <= 0 /\ 0 <= j => i = -j
      OBVIOUS
    <3>4. y \in {-1, 0, 1}
      BY <3>1
    <3> HIDE DEF x, y
    <3>5. x = -y
      BY ONLY <3>2, <3>3
    <3> QED
      BY <3>4, <3>5 DEF x, y
  <2>4. CASE ~Thin(pack)
    <3>1. pack.q # 0 /\ pack.q # 10000
      BY <2>4 DEF Unpriced
    <3>2. m.q # 0
      BY <1>1, <1>2, <3>1
    <3>3. MarketPrice(pack) = pack.q /\ MarketPrice(m) = m.q
      BY <3>1, <3>2 DEF MarketPrice
    <3> QED
      BY <1>3, <2>2, <2>4, <3>3 DEF Votes
  <2> QED
    BY <2>3, <2>4
<1> QED
  BY <1>3, <1>4, <1>5, <1>6, <1>7, <1>8, <1>9 DEF m

\* What votes for a direction in one market votes against it in the other.
LEMMA CountMirrors ==
  ASSUME NEW pack \in Pack, ~Unpriced(pack), NEW d \in {-1, 1}
  PROVE  Count(Mirror(pack), -d) = Count(pack, d)
<1>1. {s \in DOMAIN Votes(Mirror(pack)) : Votes(Mirror(pack))[s] = -d}
        = {s \in DOMAIN Votes(pack) : Votes(pack)[s] = d}
  BY VotesMirror
<1> QED
  BY <1>1 DEF Count

\* The cap of apply_codex_aggression_profile does not depend on the side.
LEMMA CapMirrors ==
  ASSUME NEW pack \in Pack, ~Unpriced(pack), NEW d \in {-1, 1}, NEW c
  PROVE  AggressionCap(Mirror(pack), -d, c) = AggressionCap(pack, d, c)
<1>1. Count(Mirror(pack), -d) = Count(pack, d)
  BY CountMirrors
<1>2. Count(Mirror(pack), -(-d)) = Count(pack, -d)
  BY CountMirrors
<1>3. Thin(Mirror(pack)) = Thin(pack) /\ Flat(Mirror(pack)) = Flat(pack)
  BY VotesMirror
<1> QED
  BY <1>1, <1>2, <1>3 DEF AggressionCap

\* The smallest element of a set of numbers is the one that bounds it.
LEMMA LeastIs ==
  ASSUME NEW S \in SUBSET Int, NEW x \in S, \A y \in S : x <= y
  PROVE  Least(S) = x
<1>1. Least(S) \in S /\ \A y \in S : Least(S) <= y
  BY DEF Least
<1>2. Least(S) \in Int /\ x \in Int /\ Least(S) <= x /\ x <= Least(S)
  BY <1>1
<1> QED
  BY ONLY <1>2

\* Of two numbers it is one of them and at most either.
LEMMA LeastOfTwo ==
  ASSUME NEW a \in Int, NEW b \in Int
  PROVE  /\ Least({a, b}) \in Int
         /\ Least({a, b}) <= a /\ Least({a, b}) <= b
         /\ Least({a, b}) = a \/ Least({a, b}) = b
<1>1. CASE a <= b
  <2>1. Least({a, b}) = a
    BY <1>1, LeastIs
  <2> QED
    BY <1>1, <2>1
<1>2. CASE ~(a <= b)
  <2>1. b <= a
    BY <1>2
  <2>2. Least({a, b}) = b
    BY <2>1, LeastIs
  <2> QED
    BY <2>1, <2>2
<1> QED
  BY <1>1, <1>2

\* The tier of the answer, before the caps of weak evidence.
Tier(pack, direction, confidence) ==
    IF confidence >= 80 /\ Count(pack, direction) >= 3 /\ Count(pack, -direction) = 0
         /\ ~Thin(pack) THEN 1400
    ELSE IF confidence >= 65 /\ Count(pack, direction) >= 2 /\ Count(pack, -direction) <= 1
              /\ ~(Thin(pack) /\ Flat(pack)) THEN 800
    ELSE 300

Weak(pack, direction) == \/ Flat(pack) /\ Count(pack, direction) < 2
                         \/ Thin(pack) /\ Count(pack, direction) < 3

\* The cap as a decision: two conflicting signals, then weak evidence, then the tier.
LEMMA CapIs ==
  ASSUME NEW pack, NEW d, NEW c
  PROVE  /\ AggressionCap(pack, d, c) \in {250, 300, 800, 1400}
         /\ AggressionCap(pack, d, c)
              = IF Count(pack, -d) >= 2 THEN 250
                ELSE IF Weak(pack, d) THEN 300 ELSE Tier(pack, d, c)
<1> DEFINE tier == Tier(pack, d, c)
           S == {tier}
                \cup (IF Flat(pack) /\ Count(pack, d) < 2 THEN {300} ELSE {})
                \cup (IF Thin(pack) /\ Count(pack, d) < 3 THEN {300} ELSE {})
                \cup (IF Count(pack, -d) >= 2 THEN {250} ELSE {})
<1>1. AggressionCap(pack, d, c) = Least(S)
  BY DEF AggressionCap, Tier
<1>2. tier \in {300, 800, 1400}
  BY DEF Tier
<1> HIDE DEF tier
<1>3. CASE Count(pack, -d) >= 2
  <2>1. 250 \in S /\ S \in SUBSET Int /\ \A y \in S : 250 <= y
    BY <1>2, <1>3
  <2>2. Least(S) = 250
    <3> HIDE DEF S
    <3> QED
      BY <2>1, LeastIs
  <2> QED
    BY <1>1, <1>3, <2>2
<1>4. CASE ~(Count(pack, -d) >= 2) /\ Weak(pack, d)
  <2>1. 300 \in S /\ S \in SUBSET Int /\ \A y \in S : 300 <= y
    BY <1>2, <1>4 DEF Weak
  <2>2. Least(S) = 300
    <3> HIDE DEF S
    <3> QED
      BY <2>1, LeastIs
  <2> QED
    BY <1>1, <1>4, <2>2
<1>5. CASE ~(Count(pack, -d) >= 2) /\ ~Weak(pack, d)
  <2>1. tier \in S /\ S \in SUBSET Int /\ \A y \in S : tier <= y
    BY <1>2, <1>5 DEF Weak
  <2>2. Least(S) = tier
    <3> HIDE DEF S
    <3> QED
      BY <2>1, LeastIs
  <2> QED
    BY <1>1, <1>2, <1>5, <2>2 DEF tier
<1> QED
  BY <1>3, <1>4, <1>5

\* What apply_codex_aggression_profile leaves of an answer with a confidence.
Step(pack, raw, c, d) == Least({Abs(raw - 5000), AggressionCap(pack, d, c)})

\* Its size: at least 1, at most the cap and the distance of the answer.
LEMMA StepBounds ==
  ASSUME NEW pack, NEW raw \in Int, raw # 5000, NEW c, NEW d
  PROVE  /\ Abs(raw - 5000) \in Int /\ Abs(raw - 5000) >= 1
         /\ Step(pack, raw, c, d) \in 1..1400
         /\ Step(pack, raw, c, d) <= Abs(raw - 5000)
         /\ \/ Step(pack, raw, c, d) = Abs(raw - 5000)
            \/ Step(pack, raw, c, d) = AggressionCap(pack, d, c)
         /\ Step(pack, raw, c, d) <= AggressionCap(pack, d, c)
<1> DEFINE a == Abs(raw - 5000)  cap == AggressionCap(pack, d, c)
<1>1. a \in Int /\ a >= 1
  BY DEF Abs
<1>2. cap \in Int /\ cap >= 250 /\ cap <= 1400
  <2>1. cap \in {250, 300, 800, 1400}
    BY CapIs
  <2> HIDE DEF cap
  <2> QED
    BY <2>1
<1> HIDE DEF a, cap
<1>3. /\ Least({a, cap}) \in Int
      /\ Least({a, cap}) <= a /\ Least({a, cap}) <= cap
      /\ Least({a, cap}) = a \/ Least({a, cap}) = cap
  BY <1>1, <1>2, LeastOfTwo
<1>4. Least({a, cap}) \in 1..1400
  BY <1>1, <1>2, <1>3
<1> QED
  BY <1>1, <1>3, <1>4 DEF Step, a, cap

\* The direction of an answer.
LEMMA DirectionOf ==
  ASSUME NEW raw \in Int
  PROVE  /\ Vote(raw - 5000, 1) = IF raw > 5000 THEN 1 ELSE IF raw < 5000 THEN -1 ELSE 0
         /\ Vote((10000 - raw) - 5000, 1) = -Vote(raw - 5000, 1)
<1>1. raw - 5000 \in Int /\ (10000 - raw) - 5000 = -(raw - 5000)
  OBVIOUS
<1>2. Vote(-(raw - 5000), 1) = -Vote(raw - 5000, 1)
  BY <1>1, VoteIsOdd
<1>3. Vote(raw - 5000, 1) = IF raw > 5000 THEN 1 ELSE IF raw < 5000 THEN -1 ELSE 0
  BY DEF Vote
<1> QED
  BY <1>1, <1>2, <1>3

\* The answer to the mirrored market, mirrored, has the mirrored forecast.
LEMMA CodexMirrors ==
  ASSUME NEW pack \in Pack, ~Unpriced(pack), NEW raw \in Int, NEW c
  PROVE  Codex(Mirror(pack), 10000 - raw, c) = 10000 - Codex(pack, raw, c)
<1> DEFINE d == Vote(raw - 5000, 1)
<1>1. Vote((10000 - raw) - 5000, 1) = -d
  BY DirectionOf
<1>2. d = IF raw > 5000 THEN 1 ELSE IF raw < 5000 THEN -1 ELSE 0
  BY DirectionOf
<1> HIDE DEF d
<1>3. CASE c = None \/ d = 0
  <2>1. Codex(pack, raw, c) = Clamp(raw)
    BY <1>3 DEF Codex, d
  <2>2. c = None \/ Vote((10000 - raw) - 5000, 1) = 0
    <3>1. d = 0 => raw = 5000
      BY <1>2
    <3> QED
      BY <1>3, <3>1 DEF Vote
  <2>3. Codex(Mirror(pack), 10000 - raw, c) = Clamp(10000 - raw)
    BY <2>2 DEF Codex
  <2> QED
    BY <2>1, <2>3, ClampMirrors
<1>4. CASE ~(c = None \/ d = 0)
  <2>0. d \in {-1, 1} /\ raw # 5000
    BY <1>2, <1>4
  <2> DEFINE step == Step(pack, raw, c, d)
  <2>1. step \in 1..1400
    BY <2>0, StepBounds
  <2>2. Codex(pack, raw, c) = Clamp(5000 + d * step)
    BY <1>4 DEF Codex, d, Step
  <2>3. Abs((10000 - raw) - 5000) = Abs(raw - 5000)
    BY DEF Abs
  <2>4. AggressionCap(Mirror(pack), -d, c) = AggressionCap(pack, d, c)
    BY <2>0, CapMirrors
  <2>5. Step(Mirror(pack), 10000 - raw, c, -d) = step
    BY <2>3, <2>4 DEF Step
  <2>6. ~(c = None \/ -d = 0)
    BY <1>4, <2>0
  <2>7. Codex(Mirror(pack), 10000 - raw, c) = Clamp(5000 + (-d) * step)
    BY <1>1, <2>5, <2>6 DEF Codex, Step
  <2> HIDE DEF step
  <2>8. 5000 + d * step \in Int /\ 5000 + (-d) * step = 10000 - (5000 + d * step)
    BY <2>0, <2>1
  <2>9. Clamp(10000 - (5000 + d * step)) = 10000 - Clamp(5000 + d * step)
    BY <2>8, ClampMirrors
  <2> QED
    BY <2>2, <2>7, <2>8, <2>9
<1> QED
  BY <1>3, <1>4

\* Neither mode of mine_task leans to yes or to no.
LEMMA ForecastsAreNeutral == Neutral
<1>1. \A pack \in Packs : pack \in Pack
  BY ForecastAssumption DEF Pack
<1>2. \A a \in Answers : a.raw \in Int
  BY ForecastAssumption
<1> QED
  BY <1>1, <1>2, HeuristicMirrors, CodexMirrors DEF Neutral

------------------------------------------------------------------------------
(* Forecasts: more evidence never costs distance.                            *)

\* The number of signals for a direction is a number, and grows with them.
LEMMA CountGrows ==
  ASSUME NEW pack, NEW more, NEW d,
         \A s \in {"pm", "price", "depth", "trade"} : Votes(pack)[s] = d => Votes(more)[s] = d
  PROVE  Count(pack, d) \in Nat /\ Count(more, d) \in Nat /\ Count(pack, d) <= Count(more, d)
<1> DEFINE Names == {"pm", "price", "depth", "trade"}
           S == {s \in Names : Votes(pack)[s] = d}
           T == {s \in Names : Votes(more)[s] = d}
<1>1. DOMAIN Votes(pack) = Names /\ DOMAIN Votes(more) = Names
  BY DEF Votes
<1>2. Count(pack, d) = Cardinality(S) /\ Count(more, d) = Cardinality(T)
  BY <1>1 DEF Count
<1>3. IsFiniteSet(Names)
  <2>1. IsFiniteSet({}) /\ IsFiniteSet({"pm"})
    BY FS_EmptySet, FS_Singleton
  <2>2. IsFiniteSet({"pm"} \cup {"price"})
    BY <2>1, FS_AddElement
  <2>3. IsFiniteSet(({"pm"} \cup {"price"}) \cup {"depth"})
    BY <2>2, FS_AddElement
  <2>4. IsFiniteSet((({"pm"} \cup {"price"}) \cup {"depth"}) \cup {"trade"})
    BY <2>3, FS_AddElement
  <2>5. Names = (({"pm"} \cup {"price"}) \cup {"depth"}) \cup {"trade"}
    OBVIOUS
  <2> QED
    BY <2>4, <2>5
<1>4. S \subseteq T /\ T \subseteq Names
  OBVIOUS
<1> HIDE DEF Names, S, T
<1>5. IsFiniteSet(T)
  BY <1>3, <1>4, FS_Subset
<1>6. IsFiniteSet(S) /\ Cardinality(S) <= Cardinality(T)
  BY <1>4, <1>5, FS_Subset
<1>7. Cardinality(S) \in Nat /\ Cardinality(T) \in Nat
  BY <1>5, <1>6, FS_CardinalityType
<1> QED
  BY <1>2, <1>6, <1>7

\* The cap does not fall when signals agree more, conflict less, the market is
\* not flatter and the confidence is not lower.
LEMMA CapGrows ==
  ASSUME NEW pack, NEW more, NEW d, NEW c \in Int, NEW e \in Int, c <= e,
         Count(pack, d) \in Nat, Count(more, d) \in Nat, Count(pack, d) <= Count(more, d),
         Count(pack, -d) \in Nat, Count(more, -d) \in Nat,
         Count(more, -d) <= Count(pack, -d),
         Thin(more) <=> Thin(pack), Flat(more) => Flat(pack)
  PROVE  AggressionCap(pack, d, c) <= AggressionCap(more, d, e)
<1>1. Weak(more, d) => Weak(pack, d)
  BY DEF Weak
<1>2. /\ Tier(pack, d, c) \in {300, 800, 1400} /\ Tier(more, d, e) \in {300, 800, 1400}
      /\ Tier(pack, d, c) <= Tier(more, d, e)
  BY DEF Tier
<1>3. CASE Count(pack, -d) >= 2
  <2>1. AggressionCap(pack, d, c) = 250
    BY <1>3, CapIs
  <2>2. AggressionCap(more, d, e) \in {250, 300, 800, 1400}
    BY CapIs
  <2> QED
    BY <2>1, <2>2
<1>4. CASE ~(Count(pack, -d) >= 2) /\ Weak(pack, d)
  <2>1. AggressionCap(pack, d, c) = 300
    BY <1>4, CapIs
  <2>2. ~(Count(more, -d) >= 2)
    BY <1>4
  <2>3. AggressionCap(more, d, e) = 300 \/ AggressionCap(more, d, e) = Tier(more, d, e)
    BY <2>2, CapIs
  <2> QED
    BY <1>2, <2>1, <2>3
<1>5. CASE ~(Count(pack, -d) >= 2) /\ ~Weak(pack, d)
  <2>1. AggressionCap(pack, d, c) = Tier(pack, d, c)
    BY <1>5, CapIs
  <2>2. ~(Count(more, -d) >= 2)
    BY <1>5
  <2>3. AggressionCap(more, d, e) = Tier(more, d, e)
    BY <1>1, <1>5, <2>2, CapIs
  <2> QED
    BY <1>2, <2>1, <2>3
<1> QED
  BY <1>3, <1>4, <1>5

\* A forecast with a confidence lies its step beyond 5000.
LEMMA CodexSteps ==
  ASSUME NEW pack, NEW raw \in Int, raw # 5000, NEW c, c # None
  PROVE  LET d == Vote(raw - 5000, 1) IN
         /\ d \in {-1, 1}
         /\ Codex(pack, raw, c) = 5000 + d * Step(pack, raw, c, d)
         /\ Abs(Codex(pack, raw, c) - 5000) = Step(pack, raw, c, d)
<1> DEFINE d == Vote(raw - 5000, 1)
           step == Step(pack, raw, c, d)
<1>1. d \in {-1, 1}
  BY DirectionOf
<1>2. step \in 1..1400
  BY StepBounds
<1>3. Codex(pack, raw, c) = Clamp(5000 + d * step)
  BY <1>1 DEF Codex, Step
<1> HIDE DEF d, step
<1>4. Clamp(5000 + d * step) = 5000 + d * step /\ Abs((5000 + d * step) - 5000) = step
  BY <1>1, <1>2 DEF Clamp, MinPYes, MaxPYes, Abs
<1> QED
  BY <1>1, <1>3, <1>4 DEF d, step

\* More evidence for the direction of an answer: its forecast is not nearer to 5000.
LEMMA DistanceGrows ==
  ASSUME NEW pack, NEW more, NEW raw \in Int, raw # 5000,
         NEW c \in Int, NEW e \in Int, c # None, e # None,
         AggressionCap(pack, Vote(raw - 5000, 1), c) <= AggressionCap(more, Vote(raw - 5000, 1), e)
  PROVE  Abs(Codex(more, raw, e) - 5000) >= Abs(Codex(pack, raw, c) - 5000)
<1> DEFINE d == Vote(raw - 5000, 1)
           s == Step(pack, raw, c, d)
           t == Step(more, raw, e, d)
<1>1. Abs(Codex(pack, raw, c) - 5000) = s /\ Abs(Codex(more, raw, e) - 5000) = t
  BY CodexSteps
<1>2. /\ Abs(raw - 5000) \in Int
      /\ s \in 1..1400 /\ s <= Abs(raw - 5000) /\ s <= AggressionCap(pack, d, c)
      /\ t \in 1..1400 /\ (t = Abs(raw - 5000) \/ t = AggressionCap(more, d, e))
  BY StepBounds
<1>3. AggressionCap(pack, d, c) \in Int /\ AggressionCap(more, d, e) \in Int
  <2>1. /\ AggressionCap(pack, d, c) \in {250, 300, 800, 1400}
        /\ AggressionCap(more, d, e) \in {250, 300, 800, 1400}
    BY CapIs
  <2> QED
    BY <2>1
<1>4. AggressionCap(pack, d, c) <= AggressionCap(more, d, e)
  OBVIOUS
<1> HIDE DEF d, s, t
<1>5. t >= s
  BY <1>2, <1>3, <1>4
<1> QED
  BY <1>1, <1>5

\* Setting a feature to a value that votes yes.
LEMMA StrongSignal ==
  ASSUME NEW pack \in Pack, NEW f \in DOMAIN Strong
  PROVE  LET more == [pack EXCEPT ![f] = Strong[f]] IN
         /\ Thin(more) <=> Thin(pack)
         /\ Flat(more) => Flat(pack)
         /\ \A s \in {"pm", "price", "depth", "trade"} :
              Votes(more)[s] = Votes(pack)[s] \/ Votes(more)[s] = 1
<1> DEFINE more == [pack EXCEPT ![f] = Strong[f]]
<1>1. /\ f \in {"depth", "trade", "micro", "q"} /\ Strong[f] \in Int
      /\ f = "depth" => Strong[f] >= 2500
      /\ f = "trade" => Strong[f] >= 2500
      /\ f = "micro" => Strong[f] >= 15
      /\ f = "q" => Strong[f] >= 5150
  BY ForecastAssumption
<1>2. /\ pack.depth \in Int /\ pack.trade \in Int /\ pack.micro \in Int /\ pack.q \in Int
      /\ DOMAIN pack = {"baseline", "depth", "trade", "micro", "yes", "no", "q", "spread",
                        "volume24", "liquidity"}
  BY DEF Pack
<1>3. /\ more.spread = pack.spread /\ more.volume24 = pack.volume24
      /\ more.liquidity = pack.liquidity /\ more.baseline = pack.baseline
      /\ more.depth = IF f = "depth" THEN Strong[f] ELSE pack.depth
      /\ more.trade = IF f = "trade" THEN Strong[f] ELSE pack.trade
      /\ more.micro = IF f = "micro" THEN Strong[f] ELSE pack.micro
      /\ more.q = IF f = "q" THEN Strong[f] ELSE pack.q
  BY <1>1, <1>2
<1> HIDE DEF more
<1>4. Thin(more) <=> Thin(pack)
  BY <1>3 DEF Thin
<1>5. Flat(more) => Flat(pack)
  BY <1>1, <1>2, <1>3 DEF Flat, Abs
<1>6. Votes(more).depth = Votes(pack).depth \/ Votes(more).depth = 1
  BY <1>1, <1>2, <1>3 DEF Votes, Vote
<1>7. Votes(more).trade = Votes(pack).trade \/ Votes(more).trade = 1
  BY <1>1, <1>2, <1>3 DEF Votes, Vote
<1>8. Votes(more).price = Votes(pack).price \/ Votes(more).price = 1
  BY <1>1, <1>2, <1>3 DEF Votes, Vote
<1>9. Votes(more).pm = Votes(pack).pm \/ Votes(more).pm = 1
  <2>1. CASE f = "q"
    <3>1. more.q # 0 /\ more.q >= 5150 /\ more.q \in Int
      BY <1>1, <1>3, <2>1
    <3>2. MarketPrice(more) = more.q
      BY <3>1 DEF MarketPrice
    <3>3. Vote(MarketPrice(more) - 5000, 150) = 1
      BY <3>1, <3>2 DEF Vote
    <3> QED
      BY <1>4, <3>3 DEF Votes
  <2>2. CASE f # "q"
    <3>1. MarketPrice(more) = MarketPrice(pack)
      BY <1>3, <2>2 DEF MarketPrice
    <3> QED
      BY <1>4, <3>1 DEF Votes
  <2> QED
    BY <2>1, <2>2
<1> QED
  BY <1>4, <1>5, <1>6, <1>7, <1>8, <1>9 DEF more

\* The forecast is within the bounds, not beyond the answer, and on its side.
LEMMA CodexKeepsSide ==
  ASSUME NEW pack, NEW raw \in Int, NEW c
  PROVE  /\ Codex(pack, raw, c) \in MinPYes..MaxPYes
         /\ Abs(Codex(pack, raw, c) - 5000) <= Abs(raw - 5000)
         /\ Vote(Codex(pack, raw, c) - 5000, 1) = Vote(raw - 5000, 1)
<1> DEFINE d == Vote(raw - 5000, 1)
<1>1. CASE c = None \/ raw = 5000
  <2>1. Codex(pack, raw, c) = Clamp(raw)
    <3>1. raw = 5000 => d = 0
      BY DEF Vote
    <3> QED
      BY <1>1, <3>1 DEF Codex
  <2> QED
    BY <2>1 DEF Clamp, MinPYes, MaxPYes, Abs, Vote
<1>2. CASE ~(c = None \/ raw = 5000)
  <2> DEFINE step == Step(pack, raw, c, d)
  <2>1. d \in {-1, 1} /\ Codex(pack, raw, c) = 5000 + d * step
        /\ Abs(Codex(pack, raw, c) - 5000) = step
    BY <1>2, CodexSteps
  <2>2. step \in 1..1400 /\ step <= Abs(raw - 5000)
    BY <1>2, StepBounds
  <2> HIDE DEF step, d
  <2>3. 5000 + d * step \in MinPYes..MaxPYes /\ Vote((5000 + d * step) - 5000, 1) = d
    BY <2>1, <2>2 DEF MinPYes, MaxPYes, Vote
  <2> QED
    BY <2>1, <2>2, <2>3 DEF d
<1> QED
  BY <1>1, <1>2

\* Both halves of the profile: it only tempers, and it rewards evidence.
LEMMA ForecastsFollowEvidence == FollowsEvidence
<1> SUFFICES ASSUME NEW pack \in Packs, NEW a \in Answers
             PROVE  /\ Codex(pack, a.raw, a.confidence) \in MinPYes..MaxPYes
                    /\ Abs(Codex(pack, a.raw, a.confidence) - 5000) <= Abs(a.raw - 5000)
                    /\ Vote(Codex(pack, a.raw, a.confidence) - 5000, 1) = Vote(a.raw - 5000, 1)
                    /\ a.confidence # None /\ Vote(a.raw - 5000, 1) = 1 =>
                         /\ \A f \in DOMAIN Strong :
                              Abs(Codex([pack EXCEPT ![f] = Strong[f]], a.raw, a.confidence) - 5000)
                                >= Abs(Codex(pack, a.raw, a.confidence) - 5000)
                         /\ \A b \in Answers : b.confidence # None /\ b.confidence >= a.confidence =>
                              Abs(Codex(pack, a.raw, b.confidence) - 5000)
                                >= Abs(Codex(pack, a.raw, a.confidence) - 5000)
  BY DEF FollowsEvidence
<1>1. pack \in Pack /\ a.raw \in Int /\ \A b \in Answers : b.confidence \in Int \cup {None}
  BY ForecastAssumption DEF Pack
<1>2. /\ Codex(pack, a.raw, a.confidence) \in MinPYes..MaxPYes
      /\ Abs(Codex(pack, a.raw, a.confidence) - 5000) <= Abs(a.raw - 5000)
      /\ Vote(Codex(pack, a.raw, a.confidence) - 5000, 1) = Vote(a.raw - 5000, 1)
  BY <1>1, CodexKeepsSide
<1>3. ASSUME a.confidence # None, Vote(a.raw - 5000, 1) = 1, NEW f \in DOMAIN Strong
      PROVE  Abs(Codex([pack EXCEPT ![f] = Strong[f]], a.raw, a.confidence) - 5000)
               >= Abs(Codex(pack, a.raw, a.confidence) - 5000)
  <2> DEFINE more == [pack EXCEPT ![f] = Strong[f]]
  <2>1. /\ Thin(more) <=> Thin(pack)
        /\ Flat(more) => Flat(pack)
        /\ \A s \in {"pm", "price", "depth", "trade"} :
             Votes(more)[s] = Votes(pack)[s] \/ Votes(more)[s] = 1
    BY <1>1, StrongSignal
  <2> HIDE DEF more
  <2>2. Count(pack, 1) \in Nat /\ Count(more, 1) \in Nat /\ Count(pack, 1) <= Count(more, 1)
    BY <2>1, CountGrows
  <2>3. /\ Count(pack, -1) \in Nat /\ Count(more, -1) \in Nat
        /\ Count(more, -1) <= Count(pack, -1)
    <3>1. \A s \in {"pm", "price", "depth", "trade"} : Votes(more)[s] = -1 => Votes(pack)[s] = -1
      BY <2>1
    <3> QED
      BY <3>1, CountGrows
  <2>4. a.confidence \in Int /\ a.confidence <= a.confidence /\ a.raw # 5000
    BY <1>1, <1>3 DEF Vote
  <2>5. AggressionCap(pack, 1, a.confidence) <= AggressionCap(more, 1, a.confidence)
    BY <2>1, <2>2, <2>3, <2>4, CapGrows
  <2> QED
    BY <1>1, <1>3, <2>4, <2>5, DistanceGrows DEF more
<1>4. ASSUME a.confidence # None, Vote(a.raw - 5000, 1) = 1,
             NEW b \in Answers, b.confidence # None, b.confidence >= a.confidence
      PROVE  Abs(Codex(pack, a.raw, b.confidence) - 5000)
               >= Abs(Codex(pack, a.raw, a.confidence) - 5000)
  <2>1. /\ a.confidence \in Int /\ b.confidence \in Int /\ a.confidence <= b.confidence
        /\ a.raw # 5000
    BY <1>1, <1>4 DEF Vote
  <2>2. /\ Count(pack, 1) \in Nat /\ Count(pack, 1) <= Count(pack, 1)
        /\ Count(pack, -1) \in Nat /\ Count(pack, -1) <= Count(pack, -1)
    BY CountGrows
  <2>3. AggressionCap(pack, 1, a.confidence) <= AggressionCap(pack, 1, b.confidence)
    BY <2>1, <2>2, CapGrows
  <2> QED
    BY <1>1, <1>4, <2>1, <2>3, DistanceGrows
<1> QED
  BY <1>2, <1>3, <1>4

\* Whenever mine_task predicts, whatever the market and the model's answer, the
\* forecast of the mirrored market is the mirrored forecast, except a model's answer
\* where the price of a liquid market is 0 or 10000 (mine.py:302).
THEOREM ForecastsLeanNowhere == Spec => []ForecastIsNeutral
<1>1. ForecastIsNeutral
  BY ForecastsAreNeutral DEF ForecastIsNeutral
<1> QED
  BY <1>1, PTL

\* Whenever mine_task predicts, a model's answer is only moved toward 5000, never
\* across, and neither a further signal for it nor a higher confidence brings its
\* forecast nearer to 5000.
THEOREM EvidenceIsRewarded == Spec => []AggressionFollowsEvidence
<1>1. AggressionFollowsEvidence
  BY ForecastsFollowEvidence DEF AggressionFollowsEvidence
<1> QED
  BY <1>1, PTL

------------------------------------------------------------------------------
(* The log.                                                                 *)

Forecasts == MinPYes..MaxPYes
Attempts == 1..MaxAttempts
Row == [hash : Forecasts \X Attempts, p : Forecasts \cup {None}]
Requests == [kind : {"commit", "reveal"}, t : TaskSet, n : Attempts, p : Forecasts,
             stage : {"sent", "save"}, row : Row \cup {None}]
LogRecord == [t : TaskSet, p : Forecasts, n : Attempts]
Calls == [pc : {"predict", "commit", "reveal", "log", "write"},
          n : Attempts \cup {None}, buf : Seq(LogRecord)]

\* The types of the parts of the state that the log depends on.
ClientTypeOK ==
    /\ sub \in [TaskSet -> Row \cup {None}]
    /\ net \subseteq Requests
    /\ \A r \in net : r.kind = "reveal" /\ r.stage = "save" => r.row # None
    /\ DOMAIN answer = Attempts
    /\ work \in [TaskSet -> Calls \cup {None}]
    /\ log \in Seq(LogRecord)
    /\ attempts \in 0..MaxAttempts
    /\ faults \in Nat
    /\ overlapped \in BOOLEAN

\* Requests and calls carry nonces that were drawn; no answer is kept for others.
NoncesDrawn ==
    /\ \A r \in net : r.n <= attempts /\ r.p = Forecast(r.n)
    /\ \A t \in TaskSet : work[t] # None =>
         IF work[t].pc = "predict" THEN work[t].n = None
         ELSE work[t].n \in Attempts /\ work[t].n <= attempts
    /\ \A n \in Attempts : n > attempts => answer[n] = None

\* A nonce belongs to one call, and to at most one commit.
NonceOfOne ==
    /\ \A t, u \in TaskSet :
         /\ work[t] # None /\ work[u] # None
         /\ work[t].n # None /\ work[t].n = work[u].n
         => t = u
    /\ \A r, s \in net : r.kind = "commit" /\ s.kind = "commit" /\ r.n = s.n => r = s

\* The commit of a nonce is out of the way before its reveal is sent: the script
\* waits for the answer.
CommitFirst ==
    /\ \A r, s \in net : r.kind = "commit" /\ s.kind = "reveal" => r.n # s.n
    /\ \A t \in TaskSet :
         /\ work[t] # None
         /\ \/ work[t].pc \in {"reveal", "log", "write"}
            \/ work[t].pc = "commit" /\ answer[work[t].n] # None
         => \A r \in net : r.kind = "commit" => r.n # work[t].n

\* Until two commits for a task were in service at once, a commit that is about to
\* be saved finds no row, and a reveal finds the row whose hash it matched.
SavesAreSound ==
    ~overlapped =>
      /\ \A r, s \in net :
           /\ r.kind = "commit" /\ s.kind = "commit" /\ r.t = s.t
           /\ r.stage = "save" /\ s.stage = "save"
           => r = s
      /\ \A r \in net : r.stage = "save" =>
           IF r.kind = "commit" THEN sub[r.t] = None
           ELSE /\ r.row # None /\ sub[r.t] # None
                /\ r.row.hash = Hash(r.p, r.n)
                /\ sub[r.t].hash = Hash(r.p, r.n)

\* The service holds the forecast of a record.
Holds(S, t, p, n) == S[t] = [hash |-> Hash(p, n), p |-> p]

\* What is logged, about to be logged, or answered to a reveal, is held.
LoggedIsHeld ==
    ~overlapped =>
      /\ \A i \in DOMAIN log : Holds(sub, log[i].t, log[i].p, log[i].n)
      /\ \A t \in TaskSet : work[t] # None =>
           /\ work[t].pc = "reveal" /\ answer[work[t].n] = "200" =>
                Holds(sub, t, Forecast(work[t].n), work[t].n)
           /\ work[t].pc = "log" => Holds(sub, t, Forecast(work[t].n), work[t].n)
           /\ work[t].pc = "write" => \A i \in DOMAIN work[t].buf :
                Holds(sub, work[t].buf[i].t, work[t].buf[i].p, work[t].buf[i].n)

\* The inductive invariant behind LogIsTrue.
TruthInv ==
    /\ ClientTypeOK
    /\ NoncesDrawn
    /\ NonceOfOne
    /\ CommitFirst
    /\ SavesAreSound
    /\ LoggedIsHeld

Writing(t) == work[t] # None /\ work[t].pc = "write"

\* A process that is not mining has no call at work, one of one worker has one at
\* most, a task that is yet to be begun has none; LOG_LOCK admits one writer.
PoolInv ==
    /\ client # "mining" => \A t \in TaskSet : work[t] = None
    /\ \A t \in TaskSet : t \in todo => work[t] = None
    /\ pool = 1 => \A t, u \in TaskSet : work[t] # None /\ work[u] # None => t = u
    /\ \A t, u \in TaskSet : Writing(t) /\ Writing(u) => t = u

\* A sequence of records has every task of a set, or is full.
Covers(s, S) == Len(s) = LogSize \/ \A t \in S : \E i \in DOMAIN s : s[i].t = t

\* The file, or while it is truncated the buffer of its writer, has every task mined.
NothingLost ==
    /\ Len(log) <= LogSize
    /\ \A t \in TaskSet : Writing(t) => Len(work[t].buf) <= LogSize
    /\ faults = 0 =>
         /\ (\A t \in TaskSet : ~Writing(t)) => Covers(log, mined)
         /\ \A t \in TaskSet : Writing(t) => Covers(work[t].buf, mined \cup {t})

\* The inductive invariant: with what LogIsComplete rests on.
ClientInv ==
    /\ TruthInv
    /\ PoolInv
    /\ NothingLost

------------------------------------------------------------------------------
(* Values and operators.                                                    *)

\* A row is a record, so that None is not taken for one.
LEMMA RowIsNotNone == None \notin Row
<1>1. Forecasts \subseteq Nat /\ Attempts \subseteq Nat
  BY ClientAssumption DEF Forecasts, Attempts, MinPYes, MaxPYes
<1>2. \A x \in Row : x \in [hash : Nat \X Nat, p : Nat \cup {None}]
  BY <1>1 DEF Row
<1> QED
  BY <1>2, ClientAssumption

\* Neither is the call of a thread that holds the log's lock.
LEMMA WriterIsNotNone ==
  ASSUME NEW n \in Attempts, NEW buf \in Seq(LogRecord)
  PROVE  [pc |-> "write", n |-> n, buf |-> buf] # None
<1> DEFINE Wide == [t : ToSet(Tasks), p : Nat, n : Nat]
<1>1. Forecasts \subseteq Nat /\ Attempts \subseteq Nat
  BY ClientAssumption DEF Forecasts, Attempts, MinPYes, MaxPYes
<1>2. LogRecord \subseteq Wide
  BY <1>1 DEF LogRecord, TaskSet
<1>3. buf \in Seq(Wide)
  <2> HIDE DEF Wide
  <2> QED
    BY <1>2, SeqMonotonic
<1>4. None \notin [pc : {"write"}, n : Nat, buf : Seq(Wide)]
  BY ClientAssumption
<1> DEFINE Buffers == Seq(Wide)
<1> HIDE DEF Wide
<1>5. [pc |-> "write", n |-> n, buf |-> buf] \in [pc : {"write"}, n : Nat, buf : Seq(Wide)]
  <2>1. n \in Nat /\ buf \in Buffers
    BY <1>1, <1>3
  <2> HIDE DEF Buffers
  <2>2. [pc |-> "write", n |-> n, buf |-> buf] \in [pc : {"write"}, n : Nat, buf : Buffers]
    BY ONLY <2>1
  <2> QED
    BY <2>2 DEF Buffers
<1> QED
  BY <1>4, <1>5

\* The forecast of a nonce is a forecast.
LEMMA ForecastType ==
  ASSUME NEW n \in Attempts
  PROVE  Forecast(n) \in Forecasts
BY ClientAssumption DEF Attempts, Forecasts

\* What append_log keeps of a log and a record: no other records, at most LogSize,
\* and all of them while the log is not full.
LEMMA LastRecordsKeep ==
  ASSUME NEW S, NEW s \in Seq(S), NEW x \in S, Len(s) <= LogSize
  PROVE  LET b == LastRecords(Append(s, x)) IN
         /\ b \in Seq(S)
         /\ Len(b) <= LogSize
         /\ \A i \in DOMAIN b : b[i] = x \/ \E j \in DOMAIN s : b[i] = s[j]
         /\ Len(s) = LogSize => Len(b) = LogSize
         /\ Len(s) # LogSize => b = Append(s, x)
<1> DEFINE a == Append(s, x)
           first == IF Len(a) > LogSize THEN Len(a) - LogSize + 1 ELSE 1
           b == LastRecords(a)
<1>1. /\ a \in Seq(S) /\ Len(a) = Len(s) + 1 /\ Len(s) \in Nat
      /\ \A i \in 1..Len(a) : a[i] = IF i <= Len(s) THEN s[i] ELSE x
      /\ DOMAIN s = 1..Len(s)
  BY LenProperties
<1> HIDE DEF a
<1>2. /\ LogSize \in Nat /\ LogSize > 0
      /\ Len(s) \in Nat /\ Len(a) \in Nat /\ Len(a) = Len(s) + 1 /\ Len(s) <= LogSize
  BY <1>1, ClientAssumption
<1>3. first \in Int /\ first >= 1 /\ first <= Len(a) /\ Len(a) \in Int
  BY <1>1, <1>2
<1>4. b = SubSeq(a, first, Len(a))
  BY DEF LastRecords
<1> HIDE DEF b
<1>5. Len(s) = LogSize => Len(a) - first + 1 = LogSize
  BY ONLY <1>2
<1>6. Len(s) # LogSize => first = 1 /\ Len(a) <= LogSize
  BY ONLY <1>2
<1> HIDE DEF first
<1>7. \A i \in first..Len(a) : a[i] \in S
  BY <1>1, <1>3
<1>8. /\ b \in Seq(S)
      /\ Len(b) = Len(a) - first + 1
      /\ \A i \in 1..(Len(a) - first + 1) : b[i] = a[first + i - 1]
  BY <1>3, <1>4, <1>7, SubSeqProperties
<1>9. DOMAIN b = 1..(Len(a) - first + 1)
  BY <1>8, LenProperties
<1>10. \A i \in DOMAIN b : b[i] = x \/ \E j \in DOMAIN s : b[i] = s[j]
  <2> SUFFICES ASSUME NEW i \in DOMAIN b
               PROVE  b[i] = x \/ \E j \in DOMAIN s : b[i] = s[j]
    OBVIOUS
  <2> DEFINE k == first + i - 1
  <2>1. i \in Int /\ k \in 1..Len(a) /\ b[i] = a[k]
    BY <1>3, <1>8, <1>9
  <2> HIDE DEF k
  <2> QED
    BY <1>1, <2>1
<1>11. Len(s) # LogSize => b = a
  BY <1>1, <1>4, <1>6, SubSeqFull
<1>12. Len(b) <= LogSize /\ (Len(s) = LogSize => Len(b) = LogSize)
  <2>1. Len(b) = Len(a) - first + 1
    BY <1>8
  <2> QED
    BY ONLY <1>2, <1>3, <1>5, <1>6, <2>1
<1> QED
  BY <1>8, <1>10, <1>11, <1>12 DEF a, b

\* The verdicts: none of them is an acceptance before the row is saved.
LEMMA VerdictIs ==
  ASSUME NEW r
  PROVE  /\ Verdict(r) # "200"
         /\ r.kind = "commit" /\ Verdict(r) = "ok" => sub[r.t] = None
         /\ r.kind # "commit" /\ Verdict(r) = "ok" =>
              sub[r.t] # None /\ sub[r.t].hash = Hash(r.p, r.n)
<1>1. CommitVerdict(r) \in {"400", "404", "409", "ok"} /\ (CommitVerdict(r) = "ok" => sub[r.t] = None)
  BY DEF CommitVerdict
<1>2. /\ RevealVerdict(r) \in {"400", "404", "409", "ok"}
      /\ RevealVerdict(r) = "ok" => sub[r.t] # None /\ sub[r.t].hash = Hash(r.p, r.n)
  BY DEF RevealVerdict
<1> QED
  BY <1>1, <1>2 DEF Verdict

------------------------------------------------------------------------------
(* The log says what the service holds.                                     *)

\* It holds before the script is started.
LEMMA InitTruth ==
  ASSUME Init
  PROVE  TruthInv
<1>1. ClientTypeOK
  <2>1. log \in Seq(LogRecord)
    BY EmptySeq DEF Init
  <2>2. attempts \in 0..MaxAttempts /\ faults \in Nat /\ overlapped \in BOOLEAN
    <3>1. attempts = 0 /\ faults = 0 /\ overlapped = FALSE
      BY DEF Init
    <3>2. MaxAttempts \in Nat
      BY ClientAssumption
    <3>3. attempts \in 0..MaxAttempts /\ faults \in Nat
      BY ONLY <3>1, <3>2
    <3> QED
      BY <3>1, <3>3
  <2>3. /\ sub \in [TaskSet -> Row \cup {None}] /\ work \in [TaskSet -> Calls \cup {None}]
        /\ DOMAIN answer = Attempts
    BY DEF Init, Attempts
  <2>4. net = {}
    BY DEF Init
  <2> QED
    BY <2>1, <2>2, <2>3, <2>4 DEF ClientTypeOK
<1>2. NoncesDrawn /\ NonceOfOne /\ CommitFirst
  BY DEF Init, NoncesDrawn, NonceOfOne, CommitFirst, Attempts
<1>3. SavesAreSound
  BY DEF Init, SavesAreSound
<1>4. LoggedIsHeld
  BY DEF Init, LoggedIsHeld
<1> QED
  BY <1>1, <1>2, <1>3, <1>4 DEF TruthInv

\* A step that sends and saves nothing: calls end, or begin without a nonce.
LEMMA QuietKeepsTruth ==
  ASSUME TruthInv, sub' = sub, net' = net, answer' = answer, log' = log,
         attempts' = attempts, overlapped' = overlapped, faults' \in Nat,
         work' \in [TaskSet -> Calls \cup {None}],
         \A t \in TaskSet :
           \/ work'[t] = work[t]
           \/ work'[t] = None
           \/ work'[t].pc = "predict" /\ work'[t].n = None
  PROVE  TruthInv'
<1>1. ClientTypeOK'
  BY DEF TruthInv, ClientTypeOK
<1>2. NoncesDrawn'
  BY DEF TruthInv, NoncesDrawn
<1>3. NonceOfOne'
  BY DEF TruthInv, NonceOfOne
<1>4. CommitFirst'
  BY DEF TruthInv, CommitFirst
<1>5. SavesAreSound'
  BY DEF TruthInv, SavesAreSound
<1>6. LoggedIsHeld'
  BY DEF TruthInv, LoggedIsHeld
<1> QED
  BY <1>1, <1>2, <1>3, <1>4, <1>5, <1>6 DEF TruthInv

\* A new attempt draws a nonce that no request and no answer knows.
LEMMA PredictAndCommitKeepsTruth ==
  ASSUME TruthInv, NEW t \in TaskSet, PredictAndCommit(t)
  PROVE  TruthInv'
<1> DEFINE n == attempts + 1
           c == [work[t] EXCEPT !.pc = "commit", !.n = n]
           q == Request("commit", t, n)
<1>1. /\ attempts < MaxAttempts /\ attempts' = n
      /\ work' = [work EXCEPT ![t] = c] /\ net' = net \cup {q}
      /\ UNCHANGED <<sub, answer, log, overlapped, faults>>
      /\ work[t] # None
  BY DEF PredictAndCommit, At, history
<1>2. n \in Attempts /\ n > attempts /\ attempts \in Nat /\ n \in Nat
  BY <1>1, ClientAssumption DEF TruthInv, ClientTypeOK, Attempts
<1>3. work[t] \in Calls
  BY <1>1 DEF TruthInv, ClientTypeOK
<1>4. c \in Calls /\ c.pc = "commit" /\ c.n = n
  BY <1>2, <1>3 DEF Calls
<1>5. /\ q.kind = "commit" /\ q.n = n /\ q.stage = "sent" /\ q.p = Forecast(n) /\ q.t = t
      /\ q \in Requests
  BY <1>2, ForecastType DEF Request, Requests
<1> HIDE DEF c, q
<1>6. \A r \in net : r.n \in Attempts /\ r.n <= attempts /\ r.n # n
  BY <1>2 DEF TruthInv, ClientTypeOK, Requests, NoncesDrawn, Attempts
<1>7. \A u \in TaskSet : work[u] # None /\ work[u].n # None =>
        work[u].n \in Attempts /\ work[u].n <= attempts /\ work[u].n # n
  <2> SUFFICES ASSUME NEW u \in TaskSet, work[u] # None, work[u].n # None
               PROVE  work[u].n \in Attempts /\ work[u].n <= attempts /\ work[u].n # n
    OBVIOUS
  <2>1. work[u].n \in Attempts /\ work[u].n <= attempts
    BY DEF TruthInv, NoncesDrawn
  <2> QED
    BY <1>2, <2>1 DEF Attempts
<1>8. work'[t] = c /\ \A u \in TaskSet : u # t => work'[u] = work[u]
  BY <1>1 DEF TruthInv, ClientTypeOK
<1> HIDE DEF n
<1>9. ClientTypeOK'
  BY <1>1, <1>2, <1>4, <1>5, <1>8 DEF TruthInv, ClientTypeOK, Attempts
<1>10. NoncesDrawn'
  <2>1. \A r \in net' : r.n <= attempts' /\ r.p = Forecast(r.n)
    <3>1. \A r \in net : r.n \in Nat /\ r.n <= n /\ r.p = Forecast(r.n)
      BY <1>2, <1>6 DEF TruthInv, NoncesDrawn, Attempts, n
    <3> QED
      BY <1>1, <1>2, <1>5, <3>1
  <2>2. \A u \in TaskSet : work'[u] # None =>
          IF work'[u].pc = "predict" THEN work'[u].n = None
          ELSE work'[u].n \in Attempts /\ work'[u].n <= attempts'
    <3> TAKE u \in TaskSet
    <3>1. CASE u = t
      BY <1>1, <1>2, <1>4, <1>8, <3>1
    <3>2. CASE u # t
      <4>1. work'[u] = work[u]
        BY <1>8, <3>2
      <4>2. \A k \in Attempts : k <= attempts => k <= n
        BY <1>2 DEF Attempts, n
      <4> QED
        BY <1>1, <4>1, <4>2 DEF TruthInv, NoncesDrawn
    <3> QED
      BY <3>1, <3>2
  <2>3. \A k \in Attempts : k > attempts' => answer'[k] = None
    <3>1. \A k \in Attempts : k > n => k > attempts
      BY <1>2 DEF Attempts, n
    <3> QED
      BY <1>1, <3>1 DEF TruthInv, NoncesDrawn
  <2> QED
    BY <2>1, <2>2, <2>3 DEF NoncesDrawn
<1>11. NonceOfOne'
  <2>1. \A u, v \in TaskSet :
          /\ work'[u] # None /\ work'[v] # None
          /\ work'[u].n # None /\ work'[u].n = work'[v].n
          => u = v
    BY <1>4, <1>7, <1>8 DEF TruthInv, NonceOfOne
  <2>2. \A r, s \in net' : r.kind = "commit" /\ s.kind = "commit" /\ r.n = s.n => r = s
    BY <1>1, <1>5, <1>6 DEF TruthInv, NonceOfOne
  <2> QED
    BY <2>1, <2>2 DEF NonceOfOne
<1>12. CommitFirst'
  <2>1. \A r, s \in net' : r.kind = "commit" /\ s.kind = "reveal" => r.n # s.n
    BY <1>1, <1>5, <1>6 DEF TruthInv, CommitFirst
  <2>2. ASSUME NEW u \in TaskSet, work'[u] # None,
               \/ work'[u].pc \in {"reveal", "log", "write"}
               \/ work'[u].pc = "commit" /\ answer'[work'[u].n] # None,
               NEW r \in net', r.kind = "commit"
        PROVE  r.n # work'[u].n
    <3>1. answer[n] = None
      BY <1>2 DEF TruthInv, NoncesDrawn
    <3>2. u # t
      BY <1>1, <1>4, <1>8, <2>2, <3>1
    <3>3. work'[u] = work[u]
      BY <1>8, <3>2
    <3>4. CASE r \in net
      BY <1>1, <2>2, <3>3, <3>4 DEF TruthInv, CommitFirst
    <3>5. CASE r = q
      <4>1. work[u] # None /\ work[u].pc # "predict"
        BY <2>2, <3>3
      <4>2. work[u].n \in Attempts /\ work[u].n <= attempts
        BY <4>1 DEF TruthInv, NoncesDrawn
      <4> QED
        BY <1>2, <1>5, <3>3, <3>5, <4>2 DEF Attempts
    <3> QED
      BY <1>1, <3>4, <3>5
  <2> QED
    BY <2>1, <2>2 DEF CommitFirst
<1>13. SavesAreSound'
  BY <1>1, <1>5 DEF TruthInv, SavesAreSound
<1>14. LoggedIsHeld'
  BY <1>1, <1>4, <1>8 DEF TruthInv, LoggedIsHeld
<1> QED
  BY <1>9, <1>10, <1>11, <1>12, <1>13, <1>14 DEF TruthInv

\* A call that is waiting has a nonce.
LEMMA NonceOfCall ==
  ASSUME TruthInv, NEW t \in TaskSet, work[t] # None, work[t].pc # "predict"
  PROVE  work[t] \in Calls /\ work[t].n \in Attempts /\ work[t].n <= attempts /\ work[t].n # None
<1>1. work[t] \in Calls
  BY DEF TruthInv, ClientTypeOK
<1>2. work[t].n \in Attempts /\ work[t].n <= attempts
  BY DEF TruthInv, NoncesDrawn
<1> QED
  BY <1>1, <1>2, ClientAssumption DEF Attempts

\* A call goes on with the nonce it has, and takes the answer it has waited for:
\* what it sends is a reveal, once its commit is answered.
LEMMA CallGoesOn ==
  ASSUME TruthInv, NEW t \in TaskSet, work[t] # None, work[t].pc # "predict",
         NEW c \in Calls \cup {None},
         c # None => c.n = work[t].n /\ c.pc \in {"reveal", "log", "write"},
         work' = [work EXCEPT ![t] = c],
         answer' = answer \/ answer' = [answer EXCEPT ![work[t].n] = None],
         net' = net \/ net' = net \cup {Request("reveal", t, work[t].n)},
         c # None \/ net' # net => work[t].pc # "commit" \/ answer[work[t].n] # None,
         sub' = sub, attempts' = attempts, overlapped' = overlapped, faults' = faults,
         log' \in Seq(LogRecord)
  PROVE  /\ ClientTypeOK' /\ NoncesDrawn' /\ NonceOfOne' /\ CommitFirst' /\ SavesAreSound'
         /\ \A u \in TaskSet : u # t => work'[u] = work[u]
         /\ work'[t] = c
         /\ \A k \in Attempts : answer'[k] = answer[k] \/ answer'[k] = None
<1> DEFINE n == work[t].n
           q == Request("reveal", t, n)
<1>1. n \in Attempts /\ n <= attempts /\ n # None /\ work[t] \in Calls
  BY NonceOfCall
<1>2. /\ q.kind = "reveal" /\ q.n = n /\ q.stage = "sent" /\ q.p = Forecast(n) /\ q.t = t
      /\ q \in Requests
  BY <1>1, ForecastType DEF Request, Requests
<1>3. work'[t] = c /\ \A u \in TaskSet : u # t => work'[u] = work[u]
  BY DEF TruthInv, ClientTypeOK
<1>4. DOMAIN answer' = Attempts /\ \A k \in Attempts : answer'[k] = answer[k] \/ answer'[k] = None
  BY DEF TruthInv, ClientTypeOK
<1>5. net' = net \/ net' = net \cup {q}
  OBVIOUS
<1> HIDE DEF q
<1>6. c # None \/ net' # net => \A r \in net : r.kind = "commit" => r.n # n
  <2>1. work[t].pc \in {"commit", "reveal", "log", "write"}
    BY <1>1 DEF Calls
  <2> QED
    BY <2>1 DEF TruthInv, CommitFirst
<1>7. ClientTypeOK'
  <2>1. /\ net' \subseteq Requests
        /\ \A r \in net' : r.kind = "reveal" /\ r.stage = "save" => r.row # None
    BY <1>2, <1>5 DEF TruthInv, ClientTypeOK
  <2>2. work' \in [TaskSet -> Calls \cup {None}]
    BY DEF TruthInv, ClientTypeOK
  <2> QED
    BY <1>4, <2>1, <2>2 DEF TruthInv, ClientTypeOK
<1>8. NoncesDrawn'
  <2>1. \A r \in net' : r.n <= attempts' /\ r.p = Forecast(r.n)
    BY <1>1, <1>2, <1>5 DEF TruthInv, NoncesDrawn
  <2>2. \A u \in TaskSet : work'[u] # None =>
          IF work'[u].pc = "predict" THEN work'[u].n = None
          ELSE work'[u].n \in Attempts /\ work'[u].n <= attempts'
    BY <1>1, <1>3 DEF TruthInv, NoncesDrawn
  <2>3. \A k \in Attempts : k > attempts' => answer'[k] = None
    BY <1>4 DEF TruthInv, NoncesDrawn
  <2> QED
    BY <2>1, <2>2, <2>3 DEF NoncesDrawn
<1>9. NonceOfOne'
  <2>1. \A u, v \in TaskSet :
          /\ work'[u] # None /\ work'[v] # None
          /\ work'[u].n # None /\ work'[u].n = work'[v].n
          => u = v
    BY <1>1, <1>3 DEF TruthInv, NonceOfOne
  <2>2. \A r, s \in net' : r.kind = "commit" /\ s.kind = "commit" /\ r.n = s.n => r = s
    BY <1>2, <1>5 DEF TruthInv, NonceOfOne
  <2> QED
    BY <2>1, <2>2 DEF NonceOfOne
<1>10. CommitFirst'
  <2>1. \A r, s \in net' : r.kind = "commit" /\ s.kind = "reveal" => r.n # s.n
    BY <1>2, <1>5, <1>6 DEF TruthInv, CommitFirst
  <2>2. ASSUME NEW u \in TaskSet, work'[u] # None,
               \/ work'[u].pc \in {"reveal", "log", "write"}
               \/ work'[u].pc = "commit" /\ answer'[work'[u].n] # None,
               NEW r \in net', r.kind = "commit"
        PROVE  r.n # work'[u].n
    <3>1. r \in net
      BY <1>2, <1>5, <2>2
    <3>2. CASE u = t
      BY <1>3, <1>6, <2>2, <3>1, <3>2
    <3>3. CASE u # t
      <4>1. work'[u] = work[u]
        BY <1>3, <3>3
      <4>2. work[u].pc = "commit" => answer[work[u].n] # None
        <5>1. work[u].pc # "predict" => work[u].n \in Attempts
          BY <2>2, <4>1, NonceOfCall
        <5> QED
          BY <1>4, <2>2, <4>1, <5>1
      <4> QED
        BY <2>2, <3>1, <4>1, <4>2 DEF TruthInv, CommitFirst
    <3> QED
      BY <3>2, <3>3
  <2> QED
    BY <2>1, <2>2 DEF CommitFirst
<1>11. SavesAreSound'
  BY <1>2, <1>5 DEF TruthInv, SavesAreSound
<1> QED
  BY <1>3, <1>4, <1>7, <1>8, <1>9, <1>10, <1>11

\* The answer to a commit.
LEMMA CommitAnsweredKeepsTruth ==
  ASSUME TruthInv, NEW t \in TaskSet, CommitAnswered(t)
  PROVE  TruthInv'
<1> DEFINE n == work[t].n
<1>1. /\ work[t] # None /\ work[t].pc = "commit" /\ answer[n] # None
      /\ answer' = [answer EXCEPT ![n] = None]
      /\ UNCHANGED <<sub, log, attempts, overlapped, faults>>
  BY DEF CommitAnswered, At, history
<1>2. work[t] \in Calls /\ n \in Attempts /\ n # None
  BY <1>1, NonceOfCall
<1>3. PICK c \in Calls \cup {None} :
        /\ c # None => c.n = n /\ c.pc = "reveal"
        /\ work' = [work EXCEPT ![t] = c]
        /\ net' = net \/ net' = net \cup {Request("reveal", t, n)}
  <2>1. CASE answer[n] \in {"200", "409"}
    <3> DEFINE c == [work[t] EXCEPT !.pc = "reveal"]
    <3>1. c \in Calls /\ c.n = n /\ c.pc = "reveal"
      BY <1>2 DEF Calls
    <3>2. work' = [work EXCEPT ![t] = c] /\ net' = net \cup {Request("reveal", t, n)}
      BY <2>1 DEF CommitAnswered, RevealRequest
    <3> QED
      BY <3>1, <3>2
  <2>2. CASE answer[n] \notin {"200", "409"}
    BY <2>2 DEF CommitAnswered, Stop
  <2> QED
    BY <2>1, <2>2
<1>4. log' \in Seq(LogRecord)
  BY <1>1 DEF TruthInv, ClientTypeOK
<1>5. /\ ClientTypeOK' /\ NoncesDrawn' /\ NonceOfOne' /\ CommitFirst' /\ SavesAreSound'
      /\ \A u \in TaskSet : u # t => work'[u] = work[u]
      /\ work'[t] = c
      /\ \A k \in Attempts : answer'[k] = answer[k] \/ answer'[k] = None
  BY <1>1, <1>3, <1>4, CallGoesOn
<1>6. LoggedIsHeld'
  <2>1. answer'[n] # "200"
    BY <1>1, <1>2, ClientAssumption DEF TruthInv, ClientTypeOK
  <2> QED
    BY <1>1, <1>3, <1>5, <2>1 DEF TruthInv, LoggedIsHeld
<1> QED
  BY <1>5, <1>6 DEF TruthInv

\* The answer to a reveal: a call goes on to log only on a 200.
LEMMA RevealAnsweredKeepsTruth ==
  ASSUME TruthInv, NEW t \in TaskSet, RevealAnswered(t)
  PROVE  TruthInv'
<1> DEFINE n == work[t].n
<1>1. /\ work[t] # None /\ work[t].pc = "reveal" /\ answer[n] # None
      /\ answer' = [answer EXCEPT ![n] = None]
      /\ UNCHANGED <<sub, net, log, attempts, overlapped, faults>>
  BY DEF RevealAnswered, At, history
<1>2. work[t] \in Calls /\ n \in Attempts /\ n # None
  BY <1>1, NonceOfCall
<1>3. PICK c \in Calls \cup {None} :
        /\ c # None => c.n = n /\ c.pc = "log" /\ answer[n] = "200"
        /\ work' = [work EXCEPT ![t] = c]
  <2>1. CASE answer[n] = "200"
    <3> DEFINE c == [work[t] EXCEPT !.pc = "log"]
    <3>1. c \in Calls /\ c.n = n /\ c.pc = "log"
      BY <1>2 DEF Calls
    <3>2. work' = [work EXCEPT ![t] = c]
      BY <2>1 DEF RevealAnswered
    <3> QED
      BY <2>1, <3>1, <3>2
  <2>2. CASE answer[n] # "200"
    <3>1. Stop(t)
      BY <2>2 DEF RevealAnswered
    <3> QED
      BY <3>1 DEF Stop
  <2> QED
    BY <2>1, <2>2
<1>4. log' \in Seq(LogRecord)
  BY <1>1 DEF TruthInv, ClientTypeOK
<1>5. /\ ClientTypeOK' /\ NoncesDrawn' /\ NonceOfOne' /\ CommitFirst' /\ SavesAreSound'
      /\ \A u \in TaskSet : u # t => work'[u] = work[u]
      /\ work'[t] = c
      /\ \A k \in Attempts : answer'[k] = answer[k] \/ answer'[k] = None
  BY <1>1, <1>3, <1>4, CallGoesOn
<1>6. LoggedIsHeld'
  <2> SUFFICES ASSUME ~overlapped
               PROVE  LoggedIsHeld'
    BY <1>1 DEF LoggedIsHeld
  <2>1. c # None => Holds(sub, t, Forecast(n), n)
    BY <1>1, <1>3 DEF TruthInv, LoggedIsHeld
  <2>2. \A u \in TaskSet : u # t /\ work[u] # None /\ work[u].pc = "reveal" =>
          answer'[work[u].n] = answer[work[u].n]
    <3> SUFFICES ASSUME NEW u \in TaskSet, u # t, work[u] # None, work[u].pc = "reveal"
                 PROVE  answer'[work[u].n] = answer[work[u].n]
      OBVIOUS
    <3>1. work[u].n \in Attempts
      BY NonceOfCall
    <3>2. work[u].n # n
      BY <1>1, <1>2 DEF TruthInv, NonceOfOne
    <3> QED
      BY <1>1, <3>1, <3>2 DEF TruthInv, ClientTypeOK
  <2> QED
    BY <1>1, <1>3, <1>5, <2>1, <2>2 DEF TruthInv, LoggedIsHeld
<1> QED
  BY <1>5, <1>6 DEF TruthInv

\* append_log keeps records of the file and adds the one of a reveal that is held.
LEMMA AppendLogKeepsTruth ==
  ASSUME TruthInv, Len(log) <= LogSize, NEW t \in TaskSet, AppendLog(t)
  PROVE  TruthInv'
<1> DEFINE n == work[t].n
           b == LastRecords(Append(log, Record(t)))
           c == [work[t] EXCEPT !.pc = "write", !.buf = b]
<1>1. /\ work[t] # None /\ work[t].pc = "log"
      /\ work' = [work EXCEPT ![t] = c] /\ log' = <<>>
      /\ UNCHANGED <<sub, net, answer, attempts, overlapped, faults>>
  BY DEF AppendLog, At, history, service
<1>2. work[t] \in Calls /\ n \in Attempts /\ n # None
  BY <1>1, NonceOfCall
<1>3. Record(t) \in LogRecord /\ Record(t).t = t /\ Record(t).p = Forecast(n) /\ Record(t).n = n
  BY <1>2, ForecastType DEF Record, LogRecord
<1>4. /\ b \in Seq(LogRecord)
      /\ \A i \in DOMAIN b : b[i] = Record(t) \/ \E j \in DOMAIN log : b[i] = log[j]
  BY <1>3, LastRecordsKeep DEF TruthInv, ClientTypeOK
<1> HIDE DEF b
<1>5. c \in Calls /\ c.n = n /\ c.pc = "write" /\ c.buf = b
  BY <1>2, <1>4 DEF Calls
<1> HIDE DEF c
<1>6. log' \in Seq(LogRecord) /\ DOMAIN log' = {}
  BY <1>1, EmptySeq
<1>7. /\ ClientTypeOK' /\ NoncesDrawn' /\ NonceOfOne' /\ CommitFirst' /\ SavesAreSound'
      /\ \A u \in TaskSet : u # t => work'[u] = work[u]
      /\ work'[t] = c
  BY <1>1, <1>5, <1>6, CallGoesOn
<1>8. LoggedIsHeld'
  <2> SUFFICES ASSUME ~overlapped
               PROVE  LoggedIsHeld'
    BY <1>1 DEF LoggedIsHeld
  <2>1. \A i \in DOMAIN b : Holds(sub, b[i].t, b[i].p, b[i].n)
    <3>1. Holds(sub, t, Forecast(n), n)
      BY <1>1 DEF TruthInv, LoggedIsHeld
    <3>2. \A j \in DOMAIN log : Holds(sub, log[j].t, log[j].p, log[j].n)
      BY DEF TruthInv, LoggedIsHeld
    <3> QED
      BY <1>3, <1>4, <3>1, <3>2
  <2> QED
    BY <1>1, <1>5, <1>6, <1>7, <2>1 DEF TruthInv, LoggedIsHeld
<1> QED
  BY <1>7, <1>8 DEF TruthInv

\* The write puts the buffer into the file.
LEMMA WriteLogKeepsTruth ==
  ASSUME TruthInv, NEW t \in TaskSet, WriteLog(t)
  PROVE  TruthInv'
<1>1. /\ work[t] # None /\ work[t].pc = "write"
      /\ work' = [work EXCEPT ![t] = None] /\ log' = work[t].buf
      /\ UNCHANGED <<sub, net, answer, attempts, overlapped, faults>>
  BY DEF WriteLog, At, Stop, service
<1>2. work[t] \in Calls
  BY <1>1, NonceOfCall
<1>3. log' \in Seq(LogRecord)
  BY <1>1, <1>2 DEF Calls
<1>4. /\ ClientTypeOK' /\ NoncesDrawn' /\ NonceOfOne' /\ CommitFirst' /\ SavesAreSound'
      /\ \A u \in TaskSet : u # t => work'[u] = work[u]
      /\ work'[t] = None
  BY <1>1, <1>3, CallGoesOn
<1>5. LoggedIsHeld'
  BY <1>1, <1>4 DEF TruthInv, LoggedIsHeld
<1> QED
  BY <1>4, <1>5 DEF TruthInv

\* A request that is answered is gone, and only its own call gets the answer.
LEMMA ReplyIs ==
  ASSUME TruthInv, NEW r \in net, NEW status, Reply(r, status)
  PROVE  /\ net' = net \ {r}
         /\ DOMAIN answer' = Attempts
         /\ \A k \in Attempts : answer'[k] # answer[k] =>
              /\ k = r.n /\ answer'[k] = status
              /\ r.t \in TaskSet /\ work[r.t] # None /\ work[r.t].n = r.n
<1>1. r.t \in TaskSet /\ r.n \in Attempts
  BY DEF TruthInv, ClientTypeOK, Requests
<1> QED
  BY <1>1 DEF Reply, TruthInv, ClientTypeOK

\* The parts of the invariant that do not speak of rows survive a reply.
LEMMA ReplyKeeps ==
  ASSUME TruthInv, NEW r \in net, NEW status, Reply(r, status),
         work' = work, attempts' = attempts
  PROVE  NoncesDrawn' /\ NonceOfOne' /\ CommitFirst'
<1>1. /\ net' = net \ {r}
      /\ \A k \in Attempts : answer'[k] # answer[k] =>
           /\ k = r.n /\ r.t \in TaskSet /\ work[r.t] # None /\ work[r.t].n = r.n
  BY ReplyIs
<1>2. NoncesDrawn'
  <2>1. \A k \in Attempts : k > attempts => answer'[k] = None
    <3> SUFFICES ASSUME NEW k \in Attempts, k > attempts
                 PROVE  answer'[k] = None
      OBVIOUS
    <3>1. k # r.n
      BY DEF TruthInv, NoncesDrawn, ClientTypeOK, Attempts
    <3> QED
      BY <1>1, <3>1 DEF TruthInv, NoncesDrawn
  <2> QED
    BY <1>1, <2>1 DEF TruthInv, NoncesDrawn
<1>3. NonceOfOne'
  BY <1>1 DEF TruthInv, NonceOfOne
<1>4. CommitFirst'
  <2>1. \A s, q \in net' : s.kind = "commit" /\ q.kind = "reveal" => s.n # q.n
    BY <1>1 DEF TruthInv, CommitFirst
  <2>2. ASSUME NEW u \in TaskSet, work[u] # None,
               \/ work[u].pc \in {"reveal", "log", "write"}
               \/ work[u].pc = "commit" /\ answer'[work[u].n] # None,
               NEW s \in net', s.kind = "commit"
        PROVE  s.n # work[u].n
    <3>0. s \in net /\ s # r
      BY <1>1
    <3>1. work[u].n \in Attempts
      BY <2>2, NonceOfCall
    <3>2. CASE answer'[work[u].n] = answer[work[u].n]
      BY <2>2, <3>0, <3>2 DEF TruthInv, CommitFirst
    <3>3. CASE answer'[work[u].n] # answer[work[u].n]
      <4>1. work[u].n = r.n
        BY <1>1, <3>1, <3>3
      <4>2. r.kind \in {"commit", "reveal"}
        BY DEF TruthInv, ClientTypeOK, Requests
      <4>3. CASE r.kind = "commit"
        BY <2>2, <3>0, <4>1, <4>3 DEF TruthInv, NonceOfOne
      <4>4. CASE r.kind = "reveal"
        BY <2>2, <3>0, <4>1, <4>4 DEF TruthInv, CommitFirst
      <4> QED
        BY <4>2, <4>3, <4>4
    <3> QED
      BY <3>2, <3>3
  <2> QED
    BY <2>1, <2>2 DEF CommitFirst
<1> QED
  BY <1>2, <1>3, <1>4

\* The read of a submission: a refused request is answered, another one keeps
\* what it read.
LEMMA ServeReadKeepsTruth ==
  ASSUME TruthInv, NEW r \in net, ServeRead(r)
  PROVE  TruthInv'
<1>1. /\ UNCHANGED <<sub, work, log, attempts, faults>> /\ r.stage = "sent"
      /\ overlapped' = (overlapped \/ (r.kind = "commit" /\
           \E s \in net : s.kind = "commit" /\ s.t = r.t /\ s.stage = "save"))
  BY DEF ServeRead, process
<1>2. overlapped' \in BOOLEAN /\ (overlapped => overlapped')
  BY <1>1 DEF TruthInv, ClientTypeOK
<1>3. r \in Requests
  BY DEF TruthInv, ClientTypeOK
<1>4. CASE Verdict(r) = "ok"
  <2> DEFINE q == [r EXCEPT !.stage = "save", !.row = sub[r.t]]
  <2>1. net' = (net \ {r}) \cup {q} /\ answer' = answer
    BY <1>4 DEF ServeRead
  <2>2. sub[r.t] \in Row \cup {None} /\ r.t \in TaskSet
    BY <1>3 DEF TruthInv, ClientTypeOK, Requests
  <2>3. /\ q \in Requests /\ q.kind = r.kind /\ q.t = r.t /\ q.n = r.n /\ q.p = r.p
        /\ q.stage = "save" /\ q.row = sub[r.t]
    BY <1>3, <2>2 DEF Requests
  <2> HIDE DEF q
  <2>4. ClientTypeOK'
    <3>1. q.kind = "reveal" => q.row # None
      BY <1>4, <2>3, VerdictIs
    <3>2. /\ net' \subseteq Requests
          /\ \A s \in net' : s.kind = "reveal" /\ s.stage = "save" => s.row # None
      BY <2>1, <2>3, <3>1 DEF TruthInv, ClientTypeOK
    <3> QED
      BY <1>1, <1>2, <2>1, <3>2 DEF TruthInv, ClientTypeOK
  <2>5. NoncesDrawn'
    BY <1>1, <2>1, <2>3 DEF TruthInv, NoncesDrawn
  <2>6. NonceOfOne'
    BY <1>1, <2>1, <2>3 DEF TruthInv, NonceOfOne
  <2>7. CommitFirst'
    BY <1>1, <2>1, <2>3 DEF TruthInv, CommitFirst
  <2>8. SavesAreSound'
    <3> SUFFICES ASSUME ~overlapped'
                 PROVE  SavesAreSound'
      BY DEF SavesAreSound
    <3>0. ~overlapped
      BY <1>2
    <3>1. r.kind = "commit" => \A s \in net : ~(s.kind = "commit" /\ s.t = r.t /\ s.stage = "save")
      BY <1>1
    <3>2. \A x, y \in net' :
            /\ x.kind = "commit" /\ y.kind = "commit" /\ x.t = y.t
            /\ x.stage = "save" /\ y.stage = "save"
            => x = y
      BY <2>1, <2>3, <3>0, <3>1 DEF TruthInv, SavesAreSound
    <3>3. \A x \in net' : x.stage = "save" =>
            IF x.kind = "commit" THEN sub[x.t] = None
            ELSE /\ x.row # None /\ sub[x.t] # None
                 /\ x.row.hash = Hash(x.p, x.n)
                 /\ sub[x.t].hash = Hash(x.p, x.n)
      <4> SUFFICES ASSUME NEW x \in net', x.stage = "save"
                   PROVE  IF x.kind = "commit" THEN sub[x.t] = None
                          ELSE /\ x.row # None /\ sub[x.t] # None
                               /\ x.row.hash = Hash(x.p, x.n)
                               /\ sub[x.t].hash = Hash(x.p, x.n)
        OBVIOUS
      <4>1. CASE x \in net
        BY <3>0, <4>1 DEF TruthInv, SavesAreSound
      <4>2. CASE x = q
        BY <1>4, <2>3, <4>2, VerdictIs
      <4> QED
        BY <2>1, <4>1, <4>2
    <3> QED
      BY <1>1, <3>2, <3>3 DEF SavesAreSound
  <2>9. LoggedIsHeld'
    BY <1>1, <1>2, <2>1 DEF TruthInv, LoggedIsHeld
  <2> QED
    BY <2>4, <2>5, <2>6, <2>7, <2>8, <2>9 DEF TruthInv
<1>5. CASE Verdict(r) # "ok"
  <2>1. Reply(r, Verdict(r))
    BY <1>5 DEF ServeRead
  <2>2. /\ net' = net \ {r} /\ DOMAIN answer' = Attempts
        /\ \A k \in Attempts : answer'[k] # answer[k] => answer'[k] = Verdict(r)
    BY <2>1, ReplyIs
  <2>3. ClientTypeOK'
    BY <1>1, <1>2, <2>2 DEF TruthInv, ClientTypeOK
  <2>4. NoncesDrawn' /\ NonceOfOne' /\ CommitFirst'
    BY <1>1, <2>1, ReplyKeeps
  <2>5. SavesAreSound'
    BY <1>1, <1>2, <2>2 DEF TruthInv, SavesAreSound
  <2>6. LoggedIsHeld'
    <3>1. \A k \in Attempts : answer'[k] = "200" => answer[k] = "200"
      BY <2>2, VerdictIs
    <3>2. \A t \in TaskSet : work[t] # None /\ work[t].pc = "reveal" => work[t].n \in Attempts
      BY NonceOfCall
    <3> QED
      BY <1>1, <1>2, <3>1, <3>2 DEF TruthInv, LoggedIsHeld
  <2> QED
    BY <2>3, <2>4, <2>5, <2>6 DEF TruthInv
<1> QED
  BY <1>4, <1>5

\* The save: without two commits in service at once it takes nothing back.
LEMMA ServeSaveKeepsTruth ==
  ASSUME TruthInv, NEW r \in net, ServeSave(r)
  PROVE  TruthInv'
<1> DEFINE row == IF r.kind = "commit" THEN [hash |-> Hash(r.p, r.n), p |-> None]
                  ELSE [r.row EXCEPT !.p = r.p]
<1>1. /\ UNCHANGED <<work, log, attempts, faults, overlapped>> /\ r.stage = "save"
      /\ sub' = [sub EXCEPT ![r.t] = row] /\ Reply(r, "200")
  BY DEF ServeSave, process, history
<1>2. /\ r \in Requests /\ r.t \in TaskSet /\ r.n \in Attempts /\ r.p \in Forecasts
      /\ r.kind \in {"commit", "reveal"} /\ r.row \in Row \cup {None}
  BY DEF TruthInv, ClientTypeOK, Requests
<1>3. /\ net' = net \ {r} /\ DOMAIN answer' = Attempts
      /\ \A k \in Attempts : answer'[k] # answer[k] =>
           k = r.n /\ work[r.t] # None /\ work[r.t].n = r.n
  BY <1>1, ReplyIs
<1>4. NoncesDrawn' /\ NonceOfOne' /\ CommitFirst'
  BY <1>1, ReplyKeeps
<1>5. r.p = Forecast(r.n)
  BY DEF TruthInv, NoncesDrawn
<1>6. /\ row \in Row
      /\ r.kind = "reveal" => row.hash = r.row.hash /\ row.p = r.p
  <2>1. CASE r.kind = "commit"
    BY <1>2, <2>1 DEF Row, Hash
  <2>2. CASE r.kind = "reveal"
    <3>1. r.row \in Row
      BY <1>1, <1>2, <2>2 DEF TruthInv, ClientTypeOK
    <3> QED
      BY <1>2, <2>2, <3>1 DEF Row
  <2> QED
    BY <1>2, <2>1, <2>2
<1> HIDE DEF row
<1>7. sub'[r.t] = row /\ \A t \in TaskSet : t # r.t => sub'[t] = sub[t]
  BY <1>1, <1>2 DEF TruthInv, ClientTypeOK
<1>8. row # None
  BY <1>6, RowIsNotNone
<1>9. ClientTypeOK'
  BY <1>1, <1>3, <1>6 DEF TruthInv, ClientTypeOK
<1>10. SavesAreSound'
  <2> SUFFICES ASSUME ~overlapped
               PROVE  SavesAreSound'
    BY <1>1 DEF SavesAreSound
  <2>1. ASSUME NEW x \in net', x.stage = "save"
        PROVE  IF x.kind = "commit" THEN sub'[x.t] = None
               ELSE /\ x.row # None /\ sub'[x.t] # None
                    /\ x.row.hash = Hash(x.p, x.n)
                    /\ sub'[x.t].hash = Hash(x.p, x.n)
    <3>1. x \in net /\ x # r /\ x.t \in TaskSet /\ x.kind \in {"commit", "reveal"}
      BY <1>3 DEF TruthInv, ClientTypeOK, Requests
    <3>2. IF x.kind = "commit" THEN sub[x.t] = None
          ELSE /\ x.row # None /\ sub[x.t] # None
               /\ x.row.hash = Hash(x.p, x.n)
               /\ sub[x.t].hash = Hash(x.p, x.n)
      BY <2>1, <3>1 DEF TruthInv, SavesAreSound
    <3>3. CASE x.t # r.t
      BY <1>7, <3>1, <3>2, <3>3
    <3>4. CASE x.t = r.t /\ r.kind = "commit"
      <4>1. sub[r.t] = None
        BY <1>1, <3>4 DEF TruthInv, SavesAreSound
      <4>2. x.kind = "commit"
        BY <3>1, <3>2, <3>4, <4>1
      <4> QED
        BY <1>1, <2>1, <3>1, <3>4, <4>2 DEF TruthInv, SavesAreSound
    <3>5. CASE x.t = r.t /\ r.kind = "reveal"
      <4>1. sub[r.t] # None /\ r.row.hash = Hash(r.p, r.n) /\ sub[r.t].hash = Hash(r.p, r.n)
        BY <1>1, <3>5 DEF TruthInv, SavesAreSound
      <4>2. x.kind # "commit"
        BY <3>2, <3>5, <4>1
      <4> QED
        BY <1>6, <1>7, <1>8, <3>2, <3>5, <4>1, <4>2
    <3> QED
      BY <1>2, <3>3, <3>4, <3>5
  <2>2. \A x, y \in net' :
          /\ x.kind = "commit" /\ y.kind = "commit" /\ x.t = y.t
          /\ x.stage = "save" /\ y.stage = "save"
          => x = y
    BY <1>3 DEF TruthInv, SavesAreSound
  <2> QED
    BY <2>1, <2>2 DEF SavesAreSound
<1>11. LoggedIsHeld'
  <2> SUFFICES ASSUME ~overlapped
               PROVE  LoggedIsHeld'
    BY <1>1 DEF LoggedIsHeld
  <2>1. r.kind = "reveal" => Holds(sub', r.t, Forecast(r.n), r.n)
    <3> SUFFICES ASSUME r.kind = "reveal"
                 PROVE  Holds(sub', r.t, Forecast(r.n), r.n)
      OBVIOUS
    <3>1. r.row.hash = Hash(r.p, r.n)
      BY <1>1 DEF TruthInv, SavesAreSound
    <3>2. row.hash = Hash(r.p, r.n) /\ row.p = r.p /\ row \in Row
      BY <1>6, <3>1
    <3>3. row = [hash |-> Hash(r.p, r.n), p |-> r.p]
      BY <3>2 DEF Row
    <3> QED
      BY <1>5, <1>7, <3>3 DEF Holds
  <2>2. ASSUME NEW t \in TaskSet, NEW p \in Forecasts, NEW n \in Attempts, Holds(sub, t, p, n)
        PROVE  Holds(sub', t, p, n)
    <3>0. sub[t] \in Row /\ sub[t].hash = Hash(p, n)
      BY <2>2 DEF Holds, Row, Hash
    <3>1. CASE t # r.t
      BY <1>7, <2>2, <3>1 DEF Holds
    <3>2. CASE t = r.t /\ r.kind = "commit"
      <4>1. sub[t] = None
        BY <1>1, <3>2 DEF TruthInv, SavesAreSound
      <4> QED
        BY <3>0, <4>1, RowIsNotNone
    <3>3. CASE t = r.t /\ r.kind = "reveal"
      <4>1. sub[t].hash = Hash(r.p, r.n)
        BY <1>1, <3>3 DEF TruthInv, SavesAreSound
      <4>2. p = r.p /\ n = r.n
        BY <3>0, <4>1 DEF Hash
      <4> QED
        BY <1>5, <2>1, <3>3, <4>2
    <3> QED
      BY <1>2, <3>1, <3>2, <3>3
  <2>3. \A i \in DOMAIN log : Holds(sub', log[i].t, log[i].p, log[i].n)
    <3> TAKE i \in DOMAIN log
    <3>1. log[i] \in LogRecord
      BY LenProperties, ElementOfSeq DEF TruthInv, ClientTypeOK
    <3>2. Holds(sub, log[i].t, log[i].p, log[i].n)
      BY DEF TruthInv, LoggedIsHeld
    <3> QED
      BY <2>2, <3>1, <3>2 DEF LogRecord
  <2>4. ASSUME NEW t \in TaskSet, work[t] # None
        PROVE  /\ work[t].pc = "reveal" /\ answer'[work[t].n] = "200" =>
                    Holds(sub', t, Forecast(work[t].n), work[t].n)
               /\ work[t].pc = "log" => Holds(sub', t, Forecast(work[t].n), work[t].n)
               /\ work[t].pc = "write" => \A i \in DOMAIN work[t].buf :
                    Holds(sub', work[t].buf[i].t, work[t].buf[i].p, work[t].buf[i].n)
    <3>0. work[t].pc # "predict" => work[t].n \in Attempts /\ work[t].n # None /\ work[t] \in Calls
      BY <2>4, NonceOfCall
    <3>1. ASSUME work[t].pc = "log"
          PROVE  Holds(sub', t, Forecast(work[t].n), work[t].n)
      <4>1. Holds(sub, t, Forecast(work[t].n), work[t].n)
        BY <2>4, <3>1 DEF TruthInv, LoggedIsHeld
      <4> QED
        BY <2>2, <3>0, <3>1, <4>1, ForecastType
    <3>2. ASSUME work[t].pc = "write", NEW i \in DOMAIN work[t].buf
          PROVE  Holds(sub', work[t].buf[i].t, work[t].buf[i].p, work[t].buf[i].n)
      <4>1. work[t].buf \in Seq(LogRecord)
        BY <3>0, <3>2 DEF Calls
      <4>2. work[t].buf[i] \in LogRecord
        BY <4>1, LenProperties, ElementOfSeq
      <4>3. Holds(sub, work[t].buf[i].t, work[t].buf[i].p, work[t].buf[i].n)
        BY <2>4, <3>2 DEF TruthInv, LoggedIsHeld
      <4> QED
        BY <2>2, <4>2, <4>3 DEF LogRecord
    <3>3. ASSUME work[t].pc = "reveal", answer'[work[t].n] = "200"
          PROVE  Holds(sub', t, Forecast(work[t].n), work[t].n)
      <4>1. CASE answer[work[t].n] = "200"
        <5>1. Holds(sub, t, Forecast(work[t].n), work[t].n)
          BY <2>4, <3>3, <4>1 DEF TruthInv, LoggedIsHeld
        <5> QED
          BY <2>2, <3>0, <3>3, <5>1, ForecastType
      <4>2. CASE answer[work[t].n] # "200"
        <5>1. work[t].n = r.n /\ work[r.t] # None /\ work[r.t].n = r.n
          BY <1>3, <3>0, <3>3, <4>2
        <5>2. t = r.t
          BY <1>2, <2>4, <3>0, <3>3, <5>1 DEF TruthInv, NonceOfOne
        <5>3. r.kind = "reveal"
          BY <1>2, <2>4, <3>3, <5>1 DEF TruthInv, CommitFirst
        <5> QED
          BY <2>1, <5>1, <5>2, <5>3
      <4> QED
        BY <4>1, <4>2
    <3> QED
      BY <3>1, <3>2, <3>3
  <2> QED
    BY <1>1, <2>3, <2>4 DEF LoggedIsHeld
<1> QED
  BY <1>4, <1>9, <1>10, <1>11 DEF TruthInv

------------------------------------------------------------------------------
(* The log misses nothing.                                                  *)

\* Finitely many tasks are listed.
LEMMA TasksAreFinite == IsFiniteSet(TaskSet)
<1>1. Len(Tasks) \in Nat /\ DOMAIN Tasks = 1..Len(Tasks)
  BY ClientAssumption, LenProperties
<1>2. IsFiniteSet(1..Len(Tasks))
  BY <1>1, FS_Interval
<1>3. Tasks \in [1..Len(Tasks) -> TaskSet]
  BY <1>1, ClientAssumption, LenProperties DEF TaskSet
<1>4. \A t \in TaskSet : \E i \in 1..Len(Tasks) : Tasks[i] = t
  BY <1>1 DEF TaskSet, ToSet
<1>5. Tasks \in Surjection(1..Len(Tasks), TaskSet)
  BY <1>3, <1>4 DEF Surjection
<1> QED
  BY <1>2, <1>5, FS_Surjection

\* Before the script is started.
LEMMA InitComplete ==
  ASSUME Init
  PROVE  PoolInv /\ NothingLost
<1>1. PoolInv
  BY DEF Init, PoolInv, Writing
<1>2. Len(log) = 0 /\ mined = {} /\ LogSize \in Nat
  BY ClientAssumption, EmptySeq DEF Init
<1>3. \A t \in TaskSet : ~Writing(t)
  BY DEF Init, Writing
<1>4. Covers(log, mined)
  BY <1>2 DEF Covers
<1> QED
  BY <1>1, <1>2, <1>3, <1>4 DEF NothingLost

\* A step in which nobody starts or stops writing.
LEMMA NoWriterKeepsLog ==
  ASSUME NothingLost, log' = log, mined' = mined, faults' = faults,
         \A t \in TaskSet : Writing(t) \/ Writing(t)' => work'[t] = work[t]
  PROVE  NothingLost' /\ \A t \in TaskSet : Writing(t)' => Writing(t)
<1>1. \A t \in TaskSet : Writing(t)' <=> Writing(t)
  BY DEF Writing
<1>2. \A t \in TaskSet : Writing(t) => work'[t] = work[t]
  OBVIOUS
<1>3. Covers(log, mined)' <=> Covers(log, mined)
  BY DEF Covers
<1>4. \A t \in TaskSet : Writing(t) =>
        (Covers(work'[t].buf, mined' \cup {t}) <=> Covers(work[t].buf, mined \cup {t}))
  BY <1>2
<1> QED
  BY <1>1, <1>2, <1>3, <1>4 DEF NothingLost

\* A step that counts a fault: the log is not promised to be complete any more.
LEMMA FaultKeepsLog ==
  ASSUME NothingLost, log' = log, faults \in Nat, faults' = faults + 1,
         \A t \in TaskSet : Writing(t)' => work'[t] = work[t]
  PROVE  NothingLost' /\ \A t \in TaskSet : Writing(t)' => Writing(t)
<1>1. \A t \in TaskSet : Writing(t)' => Writing(t)
  BY DEF Writing
<1>2. faults' # 0
  OBVIOUS
<1> QED
  BY <1>1, <1>2 DEF NothingLost

\* The lock admits one writer, and it takes over what the file has.
LEMMA AppendLogKeepsComplete ==
  ASSUME ClientInv, NEW t \in TaskSet, AppendLog(t)
  PROVE  PoolInv' /\ NothingLost'
<1> DEFINE n == work[t].n
           b == LastRecords(Append(log, Record(t)))
           c == [work[t] EXCEPT !.pc = "write", !.buf = b]
<1>1. /\ client = "mining" /\ work[t] # None /\ work[t].pc = "log"
      /\ work' = [work EXCEPT ![t] = c] /\ log' = <<>>
      /\ UNCHANGED <<client, pool, todo, mined, faults>>
      /\ \A u \in Busy : ~At(u, "write")
  BY DEF AppendLog, At, history, config
<1>2. work[t] \in Calls /\ n \in Attempts
  BY <1>1, NonceOfCall DEF ClientInv
<1>3. \A u \in TaskSet : ~Writing(u)
  BY <1>1 DEF Busy, At, Writing
<1>4. work'[t] = c /\ \A u \in TaskSet : u # t => work'[u] = work[u]
  BY <1>1 DEF ClientInv, TruthInv, ClientTypeOK
<1>5. Record(t) \in LogRecord /\ Record(t).t = t
  BY <1>2, ForecastType DEF Record, LogRecord
<1>6. log \in Seq(LogRecord) /\ Len(log) <= LogSize /\ Len(log) \in Nat
  BY LenProperties DEF ClientInv, TruthInv, ClientTypeOK, NothingLost
<1>7. /\ b \in Seq(LogRecord) /\ Len(b) <= LogSize
      /\ Len(log) = LogSize => Len(b) = LogSize
      /\ Len(log) # LogSize => b = Append(log, Record(t))
  BY <1>5, <1>6, LastRecordsKeep
<1> HIDE DEF b
<1>8. c = [pc |-> "write", n |-> n, buf |-> b]
  <2>1. c \in Calls /\ c.pc = "write" /\ c.n = n /\ c.buf = b
    BY <1>2, <1>7 DEF Calls
  <2> HIDE DEF c, n
  <2> QED
    BY ONLY <2>1 DEF Calls
<1>9. c # None /\ c.pc = "write" /\ c.buf = b
  BY <1>2, <1>7, <1>8, WriterIsNotNone
<1> HIDE DEF c
<1>10. Writing(t)' /\ \A u \in TaskSet : Writing(u)' => u = t
  BY <1>3, <1>4, <1>9 DEF Writing
<1>11. PoolInv'
  BY <1>1, <1>4, <1>10 DEF ClientInv, PoolInv
<1>12. faults = 0 => Covers(b, mined \cup {t})
  <2> SUFFICES ASSUME faults = 0, Len(log) # LogSize
               PROVE  Covers(b, mined \cup {t})
    BY <1>7 DEF Covers
  <2>1. \A u \in mined : \E i \in DOMAIN log : log[i].t = u
    BY <1>3 DEF ClientInv, NothingLost, Covers
  <2>2. /\ b = Append(log, Record(t)) /\ DOMAIN log = 1..Len(log)
        /\ DOMAIN b = 1..(Len(log) + 1)
        /\ b[Len(log) + 1] = Record(t)
        /\ \A i \in DOMAIN log : b[i] = log[i]
    BY <1>5, <1>6, <1>7, LenProperties
  <2>3. Len(log) + 1 \in DOMAIN b /\ DOMAIN log \subseteq DOMAIN b
    BY <1>6, <2>2
  <2> QED
    BY <1>5, <2>1, <2>2, <2>3 DEF Covers
<1>13. Len(log') <= LogSize
  BY <1>1, EmptySeq, ClientAssumption
<1> QED
  BY <1>1, <1>4, <1>7, <1>9, <1>10, <1>11, <1>12, <1>13 DEF NothingLost

\* The write, whose call is over with a task mined.
LEMMA WriteLogKeepsComplete ==
  ASSUME ClientInv, NEW t \in TaskSet, WriteLog(t)
  PROVE  PoolInv' /\ NothingLost'
<1>1. /\ client = "mining" /\ Writing(t)
      /\ work' = [work EXCEPT ![t] = None] /\ log' = work[t].buf
      /\ mined' = mined \cup {t}
      /\ UNCHANGED <<client, pool, todo, faults>>
  BY DEF WriteLog, At, Stop, Writing, config
<1>2. work'[t] = None /\ \A u \in TaskSet : u # t => work'[u] = work[u]
  BY <1>1 DEF ClientInv, TruthInv, ClientTypeOK
<1>3. \A u \in TaskSet : ~Writing(u)'
  BY <1>1, <1>2 DEF ClientInv, PoolInv, Writing
<1>4. PoolInv'
  BY <1>1, <1>2, <1>3 DEF ClientInv, PoolInv
<1>5. Len(work[t].buf) <= LogSize /\ (faults = 0 => Covers(work[t].buf, mined \cup {t}))
  BY <1>1 DEF ClientInv, NothingLost
<1> QED
  BY <1>1, <1>3, <1>4, <1>5 DEF NothingLost

\* A step of a call that neither begins nor ends a write.
LEMMA CallKeepsComplete ==
  ASSUME ClientInv, NEW t \in TaskSet, client = "mining", work[t] # None,
         work[t].pc # "write", NEW c, c # None => c.pc # "write",
         work' = [work EXCEPT ![t] = c],
         log' = log, mined' = mined, pool' = pool,
         \/ client' = client /\ todo' = todo
         \/ pool = 1 /\ c = None /\ todo' = {},
         faults' = faults \/ faults' = faults + 1
  PROVE  PoolInv' /\ NothingLost'
<1>1. work'[t] = c /\ (\A u \in TaskSet : u # t => work'[u] = work[u]) /\ faults \in Nat
  BY DEF ClientInv, TruthInv, ClientTypeOK
<1>2. \A u \in TaskSet : Writing(u) \/ Writing(u)' => work'[u] = work[u]
  BY <1>1 DEF Writing
<1>3. NothingLost' /\ \A u \in TaskSet : Writing(u)' => Writing(u)
  BY <1>1, <1>2, NoWriterKeepsLog, FaultKeepsLog DEF ClientInv
<1>4. client' # "mining" => \A u \in TaskSet : work'[u] = None
  BY <1>1 DEF ClientInv, PoolInv
<1>5. \A u \in TaskSet : u \in todo' => work'[u] = None
  BY <1>1 DEF ClientInv, PoolInv
<1>6. pool = 1 => \A u, v \in TaskSet : work'[u] # None /\ work'[v] # None => u = v
  BY <1>1 DEF ClientInv, PoolInv
<1>7. \A u, v \in TaskSet : Writing(u)' /\ Writing(v)' => u = v
  BY <1>3 DEF ClientInv, PoolInv
<1> QED
  BY <1>3, <1>4, <1>5, <1>6, <1>7 DEF PoolInv

\* A step that leaves calls, log and history alone.
LEMMA IdleKeepsComplete ==
  ASSUME ClientInv, work' = work, log' = log, mined' = mined,
         faults' = faults \/ faults' = faults + 1,
         pool' = pool \/ \A t \in TaskSet : work[t] = None,
         client' = "mining" \/ \A t \in TaskSet : work[t] = None,
         todo' \subseteq todo \/ \A t \in TaskSet : work[t] = None
  PROVE  PoolInv' /\ NothingLost'
<1>1. faults \in Nat /\ \A u \in TaskSet : work'[u] = work[u]
  BY DEF ClientInv, TruthInv, ClientTypeOK
<1>2. NothingLost' /\ \A u \in TaskSet : Writing(u)' => Writing(u)
  BY <1>1, NoWriterKeepsLog, FaultKeepsLog DEF ClientInv
<1>3. \A t \in TaskSet : t \in todo' => work'[t] = None
  BY DEF ClientInv, PoolInv
<1>4. pool' = 1 => \A t, u \in TaskSet : work'[t] # None /\ work'[u] # None => t = u
  BY DEF ClientInv, PoolInv
<1>5. \A u, v \in TaskSet : Writing(u)' /\ Writing(v)' => u = v
  BY <1>2 DEF ClientInv, PoolInv
<1> QED
  BY <1>2, <1>3, <1>4, <1>5 DEF PoolInv

\* The pool begins a task: a pool of one only when it is idle.
LEMMA BeginTaskKeepsComplete ==
  ASSUME ClientInv, NEW t \in TaskSet, BeginTask(t)
  PROVE  PoolInv' /\ NothingLost'
<1> DEFINE c == IF phase[t] = "open" THEN [pc |-> "predict", n |-> None, buf |-> <<>>] ELSE None
<1>1. /\ client = "mining" /\ t \in todo /\ Cardinality(Busy) < pool
      /\ work' = [work EXCEPT ![t] = c] /\ todo' = todo \ {t}
      /\ UNCHANGED <<client, pool, log, mined, faults>>
  BY DEF BeginTask, IsNext, config, history
<1>2. c # None => c.pc # "write"
  OBVIOUS
<1> HIDE DEF c
<1>3. work'[t] = c /\ (\A u \in TaskSet : u # t => work'[u] = work[u]) /\ work[t] = None
  BY <1>1 DEF ClientInv, TruthInv, ClientTypeOK, PoolInv
<1>4. \A u \in TaskSet : Writing(u) \/ Writing(u)' => work'[u] = work[u]
  BY <1>2, <1>3 DEF Writing
<1>5. NothingLost' /\ \A u \in TaskSet : Writing(u)' => Writing(u)
  BY <1>1, <1>4, NoWriterKeepsLog DEF ClientInv
<1>6. pool = 1 => \A u \in TaskSet : work[u] = None
  <2> SUFFICES ASSUME pool = 1
               PROVE  \A u \in TaskSet : work[u] = None
    OBVIOUS
  <2>1. IsFiniteSet(Busy)
    BY TasksAreFinite, FS_Subset DEF Busy
  <2>2. Cardinality(Busy) \in Nat
    BY <2>1, FS_CardinalityType
  <2>3. Cardinality(Busy) = 0
    BY <1>1, <2>2
  <2>4. Busy = {}
    BY <2>1, <2>3, FS_EmptySet
  <2> QED
    BY <2>4 DEF Busy
<1>7. \A u \in TaskSet : u \in todo' => work'[u] = None
  BY <1>1, <1>3 DEF ClientInv, PoolInv
<1>8. pool = 1 => \A u, v \in TaskSet : work'[u] # None /\ work'[v] # None => u = v
  BY <1>3, <1>6
<1>9. \A u, v \in TaskSet : Writing(u)' /\ Writing(v)' => u = v
  BY <1>5 DEF ClientInv, PoolInv
<1> QED
  BY <1>1, <1>5, <1>7, <1>8, <1>9 DEF PoolInv

\* Every step keeps what the two log properties rest on.
LEMMA StepKeepsClientInv ==
  ASSUME ClientInv, [Next]_vars
  PROVE  ClientInv'
<1>0. /\ TruthInv /\ PoolInv /\ NothingLost
      /\ work \in [TaskSet -> Calls \cup {None}] /\ faults \in Nat
  BY DEF ClientInv, TruthInv, ClientTypeOK
<1>1. ASSUME NEW r \in net, ServeRead(r)
      PROVE  ClientInv'
  <2>1. TruthInv'
    BY <1>0, <1>1, ServeReadKeepsTruth
  <2>2. UNCHANGED <<work, log, mined, faults, pool, client, todo>>
    BY <1>1 DEF ServeRead, process, config
  <2>3. PoolInv' /\ NothingLost'
    BY <1>0, <2>2, IdleKeepsComplete DEF PoolInv
  <2> QED
    BY <2>1, <2>3 DEF ClientInv
<1>2. ASSUME NEW r \in net, ServeSave(r)
      PROVE  ClientInv'
  <2>1. TruthInv'
    BY <1>0, <1>2, ServeSaveKeepsTruth
  <2>2. UNCHANGED <<work, log, mined, faults, pool, client, todo>>
    BY <1>2 DEF ServeSave, process, config, history
  <2>3. PoolInv' /\ NothingLost'
    BY <1>0, <2>2, IdleKeepsComplete DEF PoolInv
  <2> QED
    BY <2>1, <2>3 DEF ClientInv
<1>3. ASSUME NEW t \in TaskSet, Tick(t) \/ DetailFails(t)
      PROVE  ClientInv'
  <2>1. /\ UNCHANGED <<sub, net, answer, work, log, attempts, overlapped, mined, pool, client>>
        /\ faults' = faults \/ faults' = faults + 1
        /\ todo' \subseteq todo
    BY <1>3 DEF Tick, DetailFails, process, config, history, service
  <2>2. TruthInv'
    BY <1>0, <2>1, QuietKeepsTruth
  <2>3. PoolInv' /\ NothingLost'
    BY <1>0, <2>1, IdleKeepsComplete DEF PoolInv
  <2> QED
    BY <2>2, <2>3 DEF ClientInv
<1>4. ASSUME Register \/ RegisterFails \/ FetchTasks
      PROVE  ClientInv'
  <2>1. /\ UNCHANGED <<sub, net, answer, work, log, attempts, overlapped, mined>>
        /\ faults' = faults \/ faults' = faults + 1
        /\ client # "mining"
    BY <1>4 DEF Register, RegisterFails, FetchTasks, process, config, history, service
  <2>2. TruthInv'
    BY <1>0, <2>1, QuietKeepsTruth
  <2>3. \A t \in TaskSet : work[t] = None
    BY <1>0, <2>1 DEF PoolInv
  <2>4. PoolInv' /\ NothingLost'
    BY <2>1, <2>3, IdleKeepsComplete
  <2> QED
    BY <2>2, <2>4 DEF ClientInv
<1>5. ASSUME IterationDone
      PROVE  ClientInv'
  <2>1. /\ UNCHANGED <<sub, net, answer, work, log, attempts, overlapped, mined, faults>>
        /\ \A t \in TaskSet : work[t] = None
    BY <1>5 DEF IterationDone, Busy, config, history, service
  <2>2. TruthInv'
    BY <1>0, <2>1, QuietKeepsTruth
  <2>3. PoolInv' /\ NothingLost'
    BY <2>1, IdleKeepsComplete
  <2> QED
    BY <2>2, <2>3 DEF ClientInv
<1>6. ASSUME NEW t \in TaskSet, BeginTask(t)
      PROVE  ClientInv'
  <2> DEFINE c == IF phase[t] = "open" THEN [pc |-> "predict", n |-> None, buf |-> <<>>] ELSE None
  <2>1. /\ UNCHANGED <<sub, net, answer, log, attempts, overlapped, faults>>
        /\ work' = [work EXCEPT ![t] = c]
    BY <1>6 DEF BeginTask, config, history, service
  <2>2. c \in Calls \cup {None} /\ (c # None => c.pc = "predict" /\ c.n = None)
    BY EmptySeq DEF Calls
  <2> HIDE DEF c
  <2>3. /\ work' \in [TaskSet -> Calls \cup {None}]
        /\ work'[t] = c /\ \A u \in TaskSet : u # t => work'[u] = work[u]
    BY <1>0, <2>1, <2>2
  <2>4. TruthInv'
    BY <1>0, <2>1, <2>2, <2>3, QuietKeepsTruth
  <2>5. PoolInv' /\ NothingLost'
    BY <1>6, BeginTaskKeepsComplete
  <2> QED
    BY <2>4, <2>5 DEF ClientInv
<1>7. ASSUME NEW t \in TaskSet, PredictionFails(t) \/ RequestFails(t)
      PROVE  ClientInv'
  <2>1. /\ UNCHANGED <<sub, net, answer, log, attempts, overlapped, mined, pool, client, todo>>
        /\ faults' = faults \/ faults' = faults + 1
        /\ work' = [work EXCEPT ![t] = None]
        /\ client = "mining" /\ work[t] # None /\ work[t].pc # "write"
    BY <1>7 DEF PredictionFails, RequestFails, At, Stop, config, history, service
  <2>2. /\ work' \in [TaskSet -> Calls \cup {None}]
        /\ work'[t] = None /\ \A u \in TaskSet : u # t => work'[u] = work[u]
    BY <1>0, <2>1
  <2>3. TruthInv'
    BY <1>0, <2>1, <2>2, QuietKeepsTruth
  <2>4. PoolInv' /\ NothingLost'
    BY <2>1, CallKeepsComplete
  <2> QED
    BY <2>3, <2>4 DEF ClientInv
<1>8. ASSUME Kill
      PROVE  ClientInv'
  <2>1. /\ UNCHANGED <<sub, net, answer, log, attempts, overlapped>>
        /\ faults' = faults + 1 /\ work' = [t \in TaskSet |-> None]
    BY <1>8 DEF Kill, config, service
  <2>2. TruthInv'
    BY <1>0, <2>1, QuietKeepsTruth
  <2>3. \A t \in TaskSet : work'[t] = None /\ ~Writing(t)'
    BY <2>1 DEF Writing
  <2>4. PoolInv'
    BY <2>3 DEF PoolInv
  <2>5. NothingLost'
    BY <1>0, <2>1, <2>3, FaultKeepsLog
  <2> QED
    BY <2>2, <2>4, <2>5 DEF ClientInv
<1>9. ASSUME NEW t \in TaskSet, PredictAndCommit(t)
      PROVE  ClientInv'
  <2>1. TruthInv'
    BY <1>0, <1>9, PredictAndCommitKeepsTruth
  <2> DEFINE c == [work[t] EXCEPT !.pc = "commit", !.n = attempts + 1]
  <2>2. /\ client = "mining" /\ work[t] # None /\ work[t].pc = "predict"
        /\ work' = [work EXCEPT ![t] = c]
        /\ UNCHANGED <<log, mined, pool, client, todo, faults>>
    BY <1>9 DEF PredictAndCommit, At, config, history
  <2>3. c.pc = "commit"
    <3>1. work[t] \in Calls
      BY <1>0, <2>2
    <3> QED
      BY <3>1 DEF Calls
  <2> HIDE DEF c
  <2>4. PoolInv' /\ NothingLost'
    BY <2>2, <2>3, CallKeepsComplete
  <2> QED
    BY <2>1, <2>4 DEF ClientInv
<1>10. ASSUME NEW t \in TaskSet, CommitAnswered(t)
       PROVE  ClientInv'
  <2>1. TruthInv'
    BY <1>0, <1>10, CommitAnsweredKeepsTruth
  <2>2. /\ client = "mining" /\ work[t] # None /\ work[t].pc = "commit"
        /\ UNCHANGED <<log, mined, pool, client, todo, faults>>
    BY <1>10 DEF CommitAnswered, At, config, history
  <2>3. work[t] \in Calls
    BY <1>0, <2>2
  <2>4. \E c : (c # None => c.pc # "write") /\ work' = [work EXCEPT ![t] = c]
    <3>1. CASE answer[work[t].n] \in {"200", "409"}
      <4> DEFINE c == [work[t] EXCEPT !.pc = "reveal"]
      <4>1. work' = [work EXCEPT ![t] = c]
        BY <1>10, <3>1 DEF CommitAnswered
      <4>2. c.pc = "reveal"
        BY <2>3 DEF Calls
      <4> QED
        BY <4>1, <4>2
    <3>2. CASE answer[work[t].n] \notin {"200", "409"}
      BY <1>10, <3>2 DEF CommitAnswered, Stop
    <3> QED
      BY <3>1, <3>2
  <2>5. PoolInv' /\ NothingLost'
    BY <2>2, <2>4, CallKeepsComplete
  <2> QED
    BY <2>1, <2>5 DEF ClientInv
<1>11. ASSUME NEW t \in TaskSet, RevealAnswered(t)
       PROVE  ClientInv'
  <2>1. TruthInv'
    BY <1>0, <1>11, RevealAnsweredKeepsTruth
  <2>2. /\ client = "mining" /\ work[t] # None /\ work[t].pc = "reveal"
        /\ UNCHANGED <<log, mined, pool, faults>>
    BY <1>11 DEF RevealAnswered, At, config, history
  <2>3. work[t] \in Calls
    BY <1>0, <2>2
  <2>4. \E c : /\ c # None => c.pc # "write"
               /\ work' = [work EXCEPT ![t] = c]
               /\ \/ client' = client /\ todo' = todo
                  \/ pool = 1 /\ c = None /\ todo' = {}
    <3>1. CASE answer[work[t].n] = "200"
      <4> DEFINE c == [work[t] EXCEPT !.pc = "log"]
      <4>1. work' = [work EXCEPT ![t] = c] /\ client' = client /\ todo' = todo
        BY <1>11, <3>1 DEF RevealAnswered
      <4>2. c.pc = "log"
        BY <2>3 DEF Calls
      <4> QED
        BY <4>1, <4>2
    <3>2. CASE answer[work[t].n] = "409" /\ pool = 1
      BY <1>11, <3>2 DEF RevealAnswered, Stop
    <3>3. CASE answer[work[t].n] # "200" /\ ~(answer[work[t].n] = "409" /\ pool = 1)
      BY <1>11, <3>3 DEF RevealAnswered, Stop
    <3> QED
      BY <3>1, <3>2, <3>3
  <2>5. PoolInv' /\ NothingLost'
    BY <2>2, <2>4, CallKeepsComplete
  <2> QED
    BY <2>1, <2>5 DEF ClientInv
<1>12. ASSUME NEW t \in TaskSet, AppendLog(t)
       PROVE  ClientInv'
  <2>1. Len(log) <= LogSize
    BY <1>0 DEF NothingLost
  <2>2. TruthInv'
    BY <1>0, <1>12, <2>1, AppendLogKeepsTruth
  <2> QED
    BY <1>12, <2>2, AppendLogKeepsComplete DEF ClientInv
<1>13. ASSUME NEW t \in TaskSet, WriteLog(t)
       PROVE  ClientInv'
  BY <1>0, <1>13, WriteLogKeepsTruth, WriteLogKeepsComplete DEF ClientInv
<1>14. ASSUME UNCHANGED vars
       PROVE  ClientInv'
  <2>1. UNCHANGED <<sub, net, answer, work, log, attempts, overlapped, mined, faults, pool, client, todo>>
    BY <1>14 DEF vars, service, process, config, history
  <2>2. TruthInv'
    BY <1>0, <2>1, QuietKeepsTruth
  <2>3. PoolInv' /\ NothingLost'
    BY <1>0, <2>1, IdleKeepsComplete DEF PoolInv
  <2> QED
    BY <2>2, <2>3 DEF ClientInv
<1>15. CASE Next
  BY <1>15, <1>1, <1>2, <1>3, <1>4, <1>5, <1>6, <1>7, <1>8, <1>9, <1>10, <1>11, <1>12, <1>13
     DEF Next, Serve, MineTask
<1> QED
  BY <1>14, <1>15

\* The invariant holds in every state of the client and the service.
LEMMA ClientInvHolds == Spec => []ClientInv
<1>1. Init => ClientInv
  BY InitTruth, InitComplete DEF ClientInv
<1>2. ClientInv /\ [Next]_vars => ClientInv'
  BY StepKeepsClientInv
<1> QED
  BY <1>1, <1>2, PTL DEF Spec

\* For any tasks, number of threads, attempts and faults, the log says of a task
\* only what the service holds: lost answers, requests served late, retries and
\* kills at any moment included.
THEOREM LogTellsTheTruth == Spec => []LogIsTrue
<1>1. ClientInv => LogIsTrue
  BY DEF ClientInv, TruthInv, LoggedIsHeld, Holds, LogIsTrue
<1> QED
  BY <1>1, ClientInvHolds, PTL

\* For any number of threads that log at the same time, no record is lost: LOG_LOCK
\* covers the read, the truncation and the write.
THEOREM LogMissesNothing == Spec => []LogIsComplete
<1>1. ClientInv => LogIsComplete
  <2> SUFFICES ASSUME ClientInv, faults = 0, ~(\E t \in TaskSet : At(t, "write"))
               PROVE  Len(log) = LogSize \/ \A t \in mined : \E i \in DOMAIN log : log[i].t = t
    BY DEF LogIsComplete
  <2>1. \A t \in TaskSet : ~Writing(t)
    BY DEF ClientInv, PoolInv, Writing, At
  <2> QED
    BY <2>1 DEF ClientInv, NothingLost, Covers
<1> QED
  BY <1>1, ClientInvHolds, PTL
==============================================================================
