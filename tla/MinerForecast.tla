----------------------------- MODULE MinerForecast -----------------------------
(***************************************************************************)
(* How the miner script (skill/scripts/mine.py) makes a forecast from the    *)
(* frozen market snapshots of a task: the heuristic, and the profile that    *)
(* limits how far a language model's answer may move from 5000.              *)
(*                                                                          *)
(* A pack is the record of the snapshot fields read; micro_move_bps is in    *)
(* tenths, confidences are in hundredths.  The products with 0.10, 0.08 and  *)
(* 0.20 are exact here and rounded floats in the code.                       *)
(***************************************************************************)
EXTENDS Integers, FiniteSets

CONSTANT None       \* the answer has no confidence

MinPYes == 1500
MaxPYes == 8500

\* clamp_bps
Clamp(p) == IF p < MinPYes THEN MinPYes ELSE IF p > MaxPYes THEN MaxPYes ELSE p

Abs(x) == IF x < 0 THEN -x ELSE x

\* Division that rounds down.
TruncFloor(a, b) == a \div b

\* int(a / b) rounds toward zero.
Trunc(a, b) == IF a < 0 THEN -((-a) \div b) ELSE a \div b

\* compute_heuristic_prediction
Heuristic(pack) ==
    LET volume == pack.yes + pack.no
        skew == IF volume > 0 THEN Trunc(500 * (pack.yes - pack.no), volume) ELSE 0
    IN Clamp(pack.baseline + Trunc(pack.depth, 10) + Trunc(8 * pack.trade, 100)
               + 2 * pack.micro + skew + Trunc(pack.q - pack.baseline, 5))

\* directional_vote
Vote(value, threshold) ==
    IF value >= threshold THEN 1 ELSE IF value <= -threshold THEN -1 ELSE 0

\* build_signal_calibration
Thin(pack) == pack.spread >= 5000 \/ pack.volume24 < 100 \/ pack.liquidity < 25000
Flat(pack) == Abs(pack.micro) <= 10

\* pm_q_yes_bps: a price of 0 counts as none, and the baseline or 5000 is taken.
MarketPrice(pack) == CASE pack.q # 0 -> pack.q
                       [] pack.q = 0 /\ pack.baseline # 0 -> pack.baseline
                       [] OTHER -> 5000

Votes(pack) == [pm    |-> IF Thin(pack) THEN 0 ELSE Vote(MarketPrice(pack) - 5000, 150),
                price |-> Vote(pack.micro, 15),
                depth |-> Vote(pack.depth, 2500),
                trade |-> Vote(pack.trade, 2500)]
Count(pack, direction) == Cardinality({s \in DOMAIN Votes(pack) : Votes(pack)[s] = direction})

Least(S) == CHOOSE x \in S : \A y \in S : x <= y

\* The cap of apply_codex_aggression_profile on the distance from 5000.
AggressionCap(pack, direction, confidence) ==
    LET aligned == Count(pack, direction)
        conflicting == Count(pack, -direction)
        tier == IF confidence >= 80 /\ aligned >= 3 /\ conflicting = 0 /\ ~Thin(pack) THEN 1400
                ELSE IF confidence >= 65 /\ aligned >= 2 /\ conflicting <= 1
                          /\ ~(Thin(pack) /\ Flat(pack)) THEN 800
                ELSE 300
    IN Least({tier}
         \cup (IF Flat(pack) /\ aligned < 2 THEN {300} ELSE {})
         \cup (IF Thin(pack) /\ aligned < 3 THEN {300} ELSE {})
         \cup (IF conflicting >= 2 THEN {250} ELSE {}))

\* The forecast is moved to the cap.
CodexToCap(pack, raw, confidence) ==
    LET direction == Vote(raw - 5000, 1) IN
    IF confidence = None \/ direction = 0 THEN Clamp(raw)
    ELSE Clamp(5000 + direction * AggressionCap(pack, direction, confidence))

\* What compute_prediction makes of the model's answer.
Codex(pack, raw, confidence) ==
    LET direction == Vote(raw - 5000, 1) IN
    IF confidence = None \/ direction = 0 THEN Clamp(raw)
    ELSE Clamp(5000 + direction * Least({Abs(raw - 5000),
                                         AggressionCap(pack, direction, confidence)}))

------------------------------------------------------------------------------
(* What is expected of them, over sets of inputs (properties of MinerClient). *)

CONSTANTS Packs, Answers,    \* the snapshots and the model's answers
          Strong             \* a market feature -> a value that votes yes

\* Snapshot fields are whole numbers in the units above, volumes are not negative,
\* and the features that vote are the four of build_signal_calibration.
ASSUME ForecastAssumption ==
    /\ Packs \subseteq [baseline : Int, depth : Int, trade : Int, micro : Int,
                        yes : Nat, no : Nat, q : Int,
                        spread : Int, volume24 : Int, liquidity : Int]
    /\ Answers \subseteq [raw : Int, confidence : Int \cup {None}]
    /\ DOMAIN Strong \subseteq {"depth", "trade", "micro", "q"}
    /\ \A f \in DOMAIN Strong :
         /\ Strong[f] \in Int
         /\ Strong[f] >= [depth |-> 2500, trade |-> 2500, micro |-> 15, q |-> 5150][f]

\* The same market with yes and no exchanged.
Mirror(pack) ==
    [f \in DOMAIN pack |-> CASE f \in {"baseline", "q"} -> 10000 - pack[f]
                              [] f \in {"depth", "trade", "micro"} -> -pack[f]
                              [] f = "yes" -> pack["no"]
                              [] f = "no" -> pack["yes"]
                              [] OTHER -> pack[f]]

\* A price of 0 that would have a vote, or its mirror.
Unpriced(pack) == pack.q \in {0, 10000} /\ ~Thin(pack)

\* The mirrored market has the mirrored forecast, in both modes; but a model's answer
\* is not tempered alike where a price of 0 is taken for none.
Neutral ==
    \A pack \in Packs :
      /\ Heuristic(Mirror(pack)) = 10000 - Heuristic(pack)
      /\ \A a \in Answers : ~Unpriced(pack) =>
           Codex(Mirror(pack), 10000 - a.raw, a.confidence)
             = 10000 - Codex(pack, a.raw, a.confidence)

\* A forecast of the model is moved toward 5000 only, never across, and one more
\* signal that agrees with it, or a higher confidence, never costs distance.
FollowsEvidence ==
    \A pack \in Packs, a \in Answers :
      LET p == Codex(pack, a.raw, a.confidence)
          Distance(pk, conf) == Abs(Codex(pk, a.raw, conf) - 5000)
          direction == Vote(a.raw - 5000, 1)
      IN /\ p \in MinPYes..MaxPYes
         /\ Abs(p - 5000) <= Abs(a.raw - 5000)
         /\ Vote(p - 5000, 1) = direction
         /\ a.confidence # None /\ direction = 1 =>
              /\ \A f \in DOMAIN Strong :
                   Distance([pack EXCEPT ![f] = Strong[f]], a.confidence)
                     >= Distance(pack, a.confidence)
              /\ \A b \in Answers : b.confidence # None /\ b.confidence >= a.confidence =>
                   Distance(pack, b.confidence) >= Distance(pack, a.confidence)
=============================================================================
