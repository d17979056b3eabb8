----------------------------- MODULE SignalRules -----------------------------
(***************************************************************************)
(* One pass over one chart: the engines look (View), RuleEngine.evaluate   *)
(* takes one decision from what they saw, _scan_symbol decides whether the *)
(* signal is published, and the next outcome check runs _early_exit's      *)
(* structure rule on the same candles.                                     *)
(*                                                                         *)
(* What the engines saw is a record; prices are left to SignalLevels, and  *)
(* the strategy detectors to the points of their best match.  Scores are   *)
(* the program's own integers, rounded where it rounds them.               *)
(***************************************************************************)
EXTENDS ScoreMath, SequencesExt

CONSTANTS Views,          \* what the engines may see
          MinConfluence,  \* minimum_confluence_score
          MinPublish,     \* minimum_publish_confidence
          MinOpposing     \* mtf_min_opposing

Sides == {"BUY", "SELL"}
Labels == Sides \cup {"NO TRADE"}
Trends == {"strong bull", "bull", "sideways", "bear", "strong bear"}
Regimes == {"strong_bull", "bull_pullback", "range", "bear_rally", "strong_bear", "chop"}
Zones == Sides \cup {"none"}          \* the side a block or gap is aligned with
Higher == {"D1", "H4", "H1"}          \* timeframes that define a trend
Percent == 0 .. 100
TfOrder == <<"MN", "W1", "D1", "H4", "H1", "M30", "M15", "M5", "M1">>   \* _CASCADE
Timeframes == ToSet(TfOrder)

AllViews ==
    [trend : Trends, bos : BOOLEAN, choch : Labels, regime : Regimes,
     bullTrap : BOOLEAN, bearTrap : BOOLEAN,
     entry : Timeframes,              \* the chart's own timeframe
     above : [Higher -> Labels \cup {"unreadable"}],
     htf : Labels,                    \* the context timeframe's trend
     ob : Zones, obScore : Percent, fvg : Zones, fvgScore : Percent,
     location : {"Premium", "Discount", "Equilibrium"},
     sweep : {"none", "swept", "stop hunt"}, killZone : BOOLEAN, ote : BOOLEAN,
     bias : Zones, spike : BOOLEAN, exhausted : BOOLEAN,
     strength : Percent, others : Percent, atrRatio : 0 .. 500, match : 0 .. 10]

ViewsAssumption == Views \subseteq AllViews
LimitsAssumption == /\ MinConfluence \in Percent /\ MinPublish \in Percent
                    /\ MinOpposing \in Nat \ {0}

VARIABLES
  view,      \* what the engines saw on these candles
  decision,  \* RuleDecision: direction and confidence
  tier       \* what became of the signal

vars == <<view, decision, tier>>

NoView == [trend |-> "nothing seen"]
Undecided == [direction |-> "undecided", confidence |-> 0]
NoTrade == [direction |-> "NO TRADE", confidence |-> 0]
Tiers == {"none", "rejected", "shadowed", "published", "held", "invalidated"}

-----------------------------------------------------------------------------
(* The gates *)

Direction(v) == IF v.trend \in {"strong bull", "bull"} THEN "BUY"
                ELSE IF v.trend \in {"strong bear", "bear"} THEN "SELL"
                ELSE "NO TRADE"

\* ManipulationEngine: one side is reported, the bull trap first.
TrappedDirection(v) == IF v.bullTrap THEN "BUY" ELSE IF v.bearTrap THEN "SELL" ELSE "none"

\* MultiTimeframe.analyze: the trends of the timeframes above the chart's own
\* that could be fetched.
HigherTfs(tf) == {TfOrder[i] : i \in 1 .. (CHOOSE k \in DOMAIN TfOrder : TfOrder[k] = tf) - 1} \cap Higher
Cascade(v) == {tf \in HigherTfs(v.entry) : v.above[tf] # "unreadable"}

Pointing(v, label) == {tf \in Cascade(v) : v.above[tf] = label}

Against(d) == IF d = "BUY" THEN "SELL" ELSE "BUY"

\* MTFResult.conflicts
Conflicts(v, d) == Cardinality(Pointing(v, Against(d))) >= MinOpposing

\* Wrong on purpose: shorts are looked for in the discount half as well.
WrongHalf_SameForBoth(v, d) == d \in Sides /\ v.location = "Premium"

WrongHalf(v, d) == \/ d = "BUY" /\ v.location = "Premium"
                   \/ d = "SELL" /\ v.location = "Discount"

\* evaluate's list of reasons against; the runtime always passes a cascade, so
\* the single-context gate is never in force, and no trend is bullish and
\* bearish at once, so the counter-trend gate never is.
Rejected(v) == LET d == Direction(v) IN
    \/ v.regime = "chop"
    \/ TrappedDirection(v) = d
    \/ d = "NO TRADE"
    \/ Conflicts(v, d)
    \/ ~v.bos /\ v.choch = "NO TRADE"
    \/ v.ob # d /\ v.fvg # d
    \/ WrongHalf(v, d)

-----------------------------------------------------------------------------
(* The scores *)

ObAligned(v) == v.ob = Direction(v)
FvgAligned(v) == v.fvg = Direction(v)

\* Wrong on purpose: two zones count for the weaker one.
Zone_Weakest(v) == IF ObAligned(v) /\ FvgAligned(v) THEN Smaller(v.obScore, v.fvgScore)
                   ELSE Award(ObAligned(v), v.obScore) + Award(FvgAligned(v), v.fvgScore)

\* The better aligned zone, with a bonus for two.
Zone(v) == LET best == Larger(Award(ObAligned(v), v.obScore),
                              Award(FvgAligned(v), v.fvgScore))
           IN  IF ObAligned(v) /\ FvgAligned(v) THEN Clamp(best + 10) ELSE best

Strong(v) == v.trend \in {"strong bull", "strong bear"}

\* _vol_factor as a fraction in percent, from the ATR in percent of its recent
\* average (0: there is no average); best between 0.8 and 1.5.
VolFactor(ratio) ==
    CASE ratio = 0 -> [n |-> 70, d |-> 1]
      [] ratio \in 1 .. 79 -> [n |-> Larger(160, 5 * ratio), d |-> 4]
      [] ratio \in 80 .. 150 -> [n |-> 100, d |-> 1]
      [] ratio > 150 -> [n |-> Larger(40 * ratio, 15000), d |-> ratio]

\* _confluence, with the weights of engines.yaml, in hundredths until rounded
Confluence(v) ==
    LET trend == IF Strong(v) THEN 100 ELSE IF Direction(v) \in Sides THEN 70 ELSE 30
        session == IF v.killZone THEN 100 ELSE 40
        vol == VolFactor(v.atrRatio)
    IN  Clamp(Rounded(vol.d * (25 * v.strength + 15 * v.others + 25 * Zone(v) + 15 * v.others
                               + 10 * trend + 5 * session) + 5 * vol.n, 100 * vol.d))

\* A match of a strategy detector adds its points.
Matched(v) == Clamp(Confluence(v) + v.match)

\* volume.bias agrees with the direction
VolumeAgrees(v) == (v.bias = "BUY") = (Direction(v) = "BUY")

\* htf_bullish is one boolean: a sideways context reads as not bullish.
HtfAgrees(v) == (Direction(v) = "BUY") = (v.htf = "BUY")

CascadePoints(v) ==
    IF Cascade(v) = {} THEN 0
    ELSE Rounded(8 * Cardinality(Pointing(v, Direction(v))), Cardinality(Cascade(v)))

VolumePoints(v) == Award(v.bias # "none" /\ VolumeAgrees(v), 6)
                   + Award(v.spike /\ VolumeAgrees(v), 4)
                   - Award(v.exhausted /\ ~VolumeAgrees(v), 4)

\* _confidence, in tenths until rounded
Confidence(v) ==
    LET extras == Award(v.sweep # "none", 8)
                  + Award(ObAligned(v) /\ FvgAligned(v), 6)
                  + Award(Strong(v), 6) + Award(v.killZone, 4) + Award(v.ote, 4)
                  + Award(HtfAgrees(v), 5) + CascadePoints(v) + VolumePoints(v)
                  + Award(v.sweep = "stop hunt", 5)
                  + Award(TrappedDirection(v) \notin {"none", Direction(v)}, 4)
    IN  Clamp(Rounded(8 * Matched(v) + 2 * v.strength + 10 * extras, 10))

Decide(v) == IF Rejected(v) \/ Matched(v) < MinConfluence THEN NoTrade
             ELSE [direction |-> Direction(v), confidence |-> Confidence(v)]

-----------------------------------------------------------------------------
Look == /\ view = NoView
        /\ view' \in Views
        /\ UNCHANGED <<decision, tier>>

\* evaluate; _build_signal may still find the reward below its minimum.
Evaluate == /\ view # NoView /\ decision = Undecided
            /\ decision' \in {Decide(view), NoTrade}
            /\ tier' = IF decision' = NoTrade THEN "rejected" ELSE "none"
            /\ UNCHANGED view

\* _scan_symbol: below the publish tier, throttled or gated by the model, the
\* signal is journalled silently; otherwise it goes out and may be traded.
Publish == /\ decision \notin {Undecided, NoTrade} /\ tier = "none"
           /\ tier' \in IF decision.confidence < MinPublish THEN {"shadowed"}
                        ELSE {"shadowed", "published"}
           /\ UNCHANGED <<view, decision>>

\* _early_exit on the candles of the signal: an opposite CHOCH closes it.
Manage == /\ tier = "published"
          /\ tier' = IF view.choch = Against(decision.direction) THEN "invalidated" ELSE "held"
          /\ UNCHANGED <<view, decision>>

\* The next chart's turn.
PassEnds == /\ tier \in {"rejected", "shadowed", "held", "invalidated"}
            /\ view' = NoView /\ decision' = Undecided /\ tier' = "none"

Init == view = NoView /\ decision = Undecided /\ tier = "none"

Next == Look \/ Evaluate \/ Publish \/ Manage \/ PassEnds

Spec == Init /\ [][Next]_vars

-----------------------------------------------------------------------------
TypeOK == /\ view = NoView \/ view \in AllViews
          /\ decision \in [direction : Labels \cup {"undecided"}, confidence : Percent]
          /\ tier \in Tiers

MirrorSide(s) == IF s = "BUY" THEN "SELL" ELSE IF s = "SELL" THEN "BUY" ELSE s
MirrorTrend == [t \in Trends |->
    CASE t = "strong bull" -> "strong bear" [] t = "bull" -> "bear"
      [] t = "bear" -> "bull" [] t = "strong bear" -> "strong bull" [] OTHER -> t]
MirrorLocation(l) ==
    IF l = "Premium" THEN "Discount" ELSE IF l = "Discount" THEN "Premium" ELSE l
Mirror(v) ==
    [v EXCEPT !.trend = MirrorTrend[@], !.choch = MirrorSide(@),
              !.bullTrap = v.bearTrap, !.bearTrap = v.bullTrap,
              !.above = [tf \in DOMAIN @ |-> MirrorSide(@[tf])],
              !.htf = MirrorSide(@), !.ob = MirrorSide(@), !.fvg = MirrorSide(@),
              !.location = MirrorLocation(@), !.bias = MirrorSide(@)]

Decided == decision # Undecided

(* Shorts are the mirror image of longs: the chart upside down gives the   *)
(* opposite decision with the same confidence, wherever the evidence takes *)
(* a side (the volume's bias and the context's trend are not neutral, and  *)
(* one side at most is trapped).                                           *)
ShortsMirrorLongs ==
    Decided /\ view.bias # "none" /\ view.htf # "NO TRADE" /\ ~(view.bullTrap /\ view.bearTrap) =>
        LET long == Decide(view)
            short == Decide(Mirror(view))
        IN  short.direction = MirrorSide(long.direction) /\ short.confidence = long.confidence

\* The same chart with one more confirmation.
Stronger(v) ==
    {[v EXCEPT !.killZone = TRUE], [v EXCEPT !.ote = TRUE],
     [v EXCEPT !.sweep = IF @ = "none" THEN "swept" ELSE "stop hunt"]}
    \cup (IF v.ob = "none" THEN {[v EXCEPT !.ob = Direction(v)]} ELSE {})
    \cup (IF v.fvg = "none" THEN {[v EXCEPT !.fvg = Direction(v)]} ELSE {})

(* A further confirmation never costs a signal: with a kill zone, an OTE,  *)
(* a sweep or a second aligned zone, the same chart is still taken and     *)
(* with no less confidence.                                                *)
ConfirmationNeverHurts ==
    Decided /\ decision # NoTrade =>
        \A w \in Stronger(view) :
            /\ Decide(w).direction = decision.direction
            /\ Decide(w).confidence >= decision.confidence

(* A published signal is not one whose premise the management rule says is *)
(* gone on the same candles.                                               *)
NotInvalidatedAtOnce == tier # "invalidated"

(* In a bear regime longs are rejected, in a bull regime shorts.           *)
RegimeIsDirectional ==
    /\ decision.direction = "BUY" => view.regime \notin {"strong_bear", "bear_rally"}
    /\ decision.direction = "SELL" => view.regime \notin {"strong_bull", "bull_pullback"}

(* A bullish setup against a bearish higher timeframe never trades: here   *)
(* the context is bearish and no timeframe of the cascade is bullish.      *)
HtfConflictNeverTrades ==
    decision.direction = "BUY" => view.htf # "SELL" \/ Pointing(view, "BUY") # {}

(* A trade never joins the side that a fresh failed breakout has trapped.  *)
NeverJoinsTrapped == /\ decision.direction = "BUY" => ~view.bullTrap
                     /\ decision.direction = "SELL" => ~view.bearTrap

(* Agreement counts only when there is something to agree with: with a     *)
(* sideways context and a neutral volume bias both sides score the same.   *)
NeutralTakesNoSide ==
    Decided /\ view.bias = "none" /\ view.htf = "NO TRADE" /\ ~view.bullTrap /\ ~view.bearTrap =>
        Decide(Mirror(view)).confidence = Decide(view).confidence
=============================================================================
