------------------------------ MODULE Detectors ------------------------------
(***************************************************************************)
(* The named setups: RuleEngine.evaluate hands what the engines saw to     *)
(* every detector (registry.detect_all), each of which looks for its setup *)
(* on the last candles and scores it with the seven-factor scorecard; the  *)
(* best match in the trend's direction tags the signal and adds its score. *)
(*                                                                         *)
(* Prices are ticks, volumes and RSI are integers.  Long and short rules   *)
(* are written twice in the program, and so they are here.                 *)
(***************************************************************************)
EXTENDS Integers, Sequences, FiniteSets, FiniteSetsExt

CONSTANTS Contexts,                         \* what a detector may be handed
          EmaZone, RetraceMin, RetraceMax,  \* trend_pullback: ATRs, percent,
          RsiReset, RsiLookback,            \*   RSI points, bars
          BandAtr, VolMult, RetestAtr,      \* range_breakout: ATRs, tenths, tenths
          MinScore                          \* min_score of every detector

Sides == {"BUY", "SELL"}
Zones == Sides \cup {"none"}
Code == <<"A", "B", "TSOUP", "UNICORN", "AMD">>

\* A context holds the bars of the breakout window, the range before them, the
\* last seven RSI values and the mean of the 20 volumes before the last bar.  The
\* structure knows at most one last swing high and one low: a set of prices is
\* {} without it.  htf is the trend of the higher timeframe, "none" sideways.
Bar == [o : Int, h : Int, l : Int, c : Int, v : Nat]
Span == [high : Int, low : Int]
AllContexts ==
    [bars : Seq(Bar), range : Span, swingHigh : SUBSET Int, swingLow : SUBSET Int,
     rsi : [1 .. 7 -> 0 .. 100],
     ema50 : Int, ema200 : Int, atr : Nat, avgAtr : Nat, avgVolume : Nat,
     htf : Zones, trend : Sides, bos : Zones, choch : Zones,
     sweep : Zones, hunt : BOOLEAN, distribution : BOOLEAN,
     ob : Zones, fvg : Zones, ote : BOOLEAN]

ContextsAssumption ==
    /\ Contexts \subseteq AllContexts /\ RsiLookback \in 1 .. 6 /\ RsiReset \in Int
    /\ \A c \in Contexts :
         /\ Len(c.bars) >= 4 /\ c.range.low <= c.range.high /\ (c.avgAtr = 0 => c.atr = 0)
         /\ Cardinality(c.swingHigh) <= 1 /\ Cardinality(c.swingLow) <= 1
         /\ \A i \in DOMAIN c.bars :
              LET b == c.bars[i] IN b.l <= b.h /\ {b.o, b.c} \subseteq b.l .. b.h

VARIABLES context,  \* what the engines saw on this chart
          best      \* the match that tags the signal

vars == <<context, best>>

NoContext == [trend |-> "nothing seen"]
Undecided == [code |-> "undecided", direction |-> "none", score |-> 0]
NoMatch == [code |-> "none", direction |-> "none", score |-> 0]

Last(c) == c.bars[Len(c.bars)]
Ago(c, n) == c.bars[Len(c.bars) - n]
Distance(a, b) == IF a > b THEN a - b ELSE b - a
Points(condition, n) == IF condition THEN n ELSE 0

-----------------------------------------------------------------------------
(* candles.py: p and q are the bars one and two before b *)

Body(b) == Distance(b.o, b.c)
Upper(b) == b.h - Max({b.o, b.c})
Lower(b) == Min({b.o, b.c}) - b.l
Bull(b) == b.c > b.o
Bear(b) == b.c < b.o
Height(b) == b.h - b.l

Hammer(b) == Body(b) > 0 /\ Lower(b) >= 2 * Body(b) /\ Upper(b) <= Body(b)
ShootingStar(b) == Body(b) > 0 /\ Upper(b) >= 2 * Body(b) /\ Lower(b) <= Body(b)
BullishEngulfing(p, b) == Bear(p) /\ Bull(b) /\ b.o <= p.c /\ b.c >= p.o
BearishEngulfing(p, b) == Bull(p) /\ Bear(b) /\ b.o >= p.c /\ b.c <= p.o
Piercing(p, b) == Bear(p) /\ Bull(b) /\ 2 * b.c > p.o + p.c
DarkCloud(p, b) == Bull(p) /\ Bear(b) /\ 2 * b.c < p.o + p.c
MorningStar(q, p, b) == Bear(q) /\ 2 * Body(p) < Body(q) /\ Bull(b) /\ 2 * b.c > q.o + q.c
EveningStar(q, p, b) == Bull(q) /\ 2 * Body(p) < Body(q) /\ Bear(b) /\ 2 * b.c < q.o + q.c

\* Body at least 60% of the bar, close in its outer quarter.
StrongBar(b, d) == /\ 10 * Body(b) >= 6 * Height(b)
                   /\ \/ d = "BUY" /\ Bull(b) /\ 4 * (b.h - b.c) <= Height(b)
                      \/ d = "SELL" /\ Bear(b) /\ 4 * (b.c - b.l) <= Height(b)

\* wick_against: more than 60% of the bar is shadow on the far side.
WickAgainst(b, d) == 10 * (IF d = "BUY" THEN Upper(b) ELSE Lower(b)) > 6 * Height(b)

\* bullish_confirmation and bearish_confirmation: some pattern on the last bar.
Confirmed(c, d) ==
    LET b == Last(c)
        p == Ago(c, 1)
        q == Ago(c, 2)
    IN  \/ StrongBar(b, d)
        \/ /\ d = "BUY"
           /\ \/ MorningStar(q, p, b) \/ BullishEngulfing(p, b)
              \/ Piercing(p, b) \/ Hammer(b)
        \/ /\ d = "SELL"
           /\ \/ EveningStar(q, p, b) \/ BearishEngulfing(p, b)
              \/ DarkCloud(p, b) \/ ShootingStar(b)

-----------------------------------------------------------------------------
(* regime.py *)

Close(c) == Last(c).c

Regime(c) ==
    CASE c.atr > 2 * c.avgAtr -> "chop"
      [] c.atr <= 2 * c.avgAtr /\ Close(c) > c.ema200 /\ c.ema50 > c.ema200 ->
           IF Close(c) > c.ema50 THEN "strong_bull" ELSE "bull_pullback"
      [] c.atr <= 2 * c.avgAtr /\ Close(c) < c.ema200 /\ c.ema50 < c.ema200 ->
           IF Close(c) < c.ema50 THEN "strong_bear" ELSE "bear_rally"
      [] OTHER -> "range"

-----------------------------------------------------------------------------
(* scorecard.py *)

TrendPoints(c, d) ==
    LET stacked == IF d = "BUY" THEN c.ema50 > c.ema200 ELSE c.ema50 < c.ema200
        beyond == IF d = "BUY" THEN Close(c) > c.ema200 ELSE Close(c) < c.ema200
    IN  Points(beyond, IF stacked THEN 2 ELSE 1)

LevelPoints(c, d) ==
    Min({2, Points(c.ob = d, 1) + Points(c.fvg = d, 1) + Points(c.ote, 1)})

\* Without any volume the factor is neutral.  Volume that sets in after 20 bars
\* without divides by zero; detect_all swallows that, and with it the match.
HasVolume(c) == 20 * c.avgVolume + Last(c).v > 0
Raises(c) == HasVolume(c) /\ c.avgVolume = 0
VolumePoints(c) ==
    IF ~HasVolume(c) THEN 1
    ELSE Points(10 * Last(c).v >= 12 * c.avgVolume, 1)
         + Points(Ago(c, 1).v + Ago(c, 2).v + Ago(c, 3).v < 3 * c.avgVolume, 1)

\* The last n values, and whether the last of all turned with the trade.
RsiOf(c, n) == {c.rsi[i] : i \in 8 - n .. 7}
Turning(c, d) == IF d = "BUY" THEN c.rsi[7] > c.rsi[6] ELSE c.rsi[7] < c.rsi[6]

RsiPoints(c, d) ==
    Points(/\ Turning(c, d)
           /\ IF d = "BUY" THEN Min(RsiOf(c, 7)) < 45 ELSE Max(RsiOf(c, 7)) > 55, 1)

\* The swing in the way is far enough, if it is known.
Opposing(c, d) == IF d = "BUY" THEN c.swingHigh ELSE c.swingLow
RoomPoints(c, d) ==
    Points(/\ c.atr > 0
           /\ \E s \in Opposing(c, d) :
                10 * (IF d = "BUY" THEN s - Close(c) ELSE Close(c) - s) >= 24 * c.atr, 1)

\* A sideways higher timeframe counts as one that is not bullish.
HtfBullish(c) == c.htf = "BUY"
MacroPoints(c, d) == Points(HtfBullish(c) = (d = "BUY"), 1)

Scorecard(c, d) ==
    [trend |-> TrendPoints(c, d), level |-> LevelPoints(c, d), volume |-> VolumePoints(c),
     rsi |-> RsiPoints(c, d), macro |-> MacroPoints(c, d),
     room |-> RoomPoints(c, d), candle |-> Points(Confirmed(c, d), 1)]

Total(c, d) == LET s == Scorecard(c, d)
               IN  s.trend + s.level + s.volume + s.rsi + s.macro + s.room + s.candle

-----------------------------------------------------------------------------
(* The detectors, each asked for one direction *)

\* Setup A: a pullback to the EMA50 within the trend of the regime.
RegimeSide(c) ==
    IF Regime(c) \in {"strong_bull", "bull_pullback"} THEN "BUY"
    ELSE IF Regime(c) \in {"strong_bear", "bear_rally"} THEN "SELL" ELSE "none"

\* Percent of the swing from l to h given back, times the swing.
Retraced(c, h, l, d) == 100 * (IF d = "BUY" THEN h - Close(c) ELSE Close(c) - l)

RsiWasReset(c, d) ==
    /\ Turning(c, d)
    /\ IF d = "BUY" THEN Min(RsiOf(c, RsiLookback + 1)) < RsiReset
                    ELSE Max(RsiOf(c, RsiLookback + 1)) > 100 - RsiReset

TrendPullback(c, d) ==
    /\ RegimeSide(c) = d
    /\ c.atr > 0
    /\ Distance(Close(c), c.ema50) <= EmaZone * c.atr
    /\ \E h \in c.swingHigh, l \in c.swingLow :
         /\ h > l
         /\ Retraced(c, h, l, d) >= RetraceMin * (h - l)
         /\ Retraced(c, h, l, d) <= RetraceMax * (h - l)
    /\ RsiWasReset(c, d)
    /\ Confirmed(c, d)

\* Setup B: a close out of a narrow range, and its retest or a strong bar.
Level(c, d) == IF d = "BUY" THEN c.range.high ELSE c.range.low
Beyond(c, d, i) == IF d = "BUY" THEN c.bars[i].c > c.range.high ELSE c.bars[i].c < c.range.low
Broke(c, d) == {i \in DOMAIN c.bars : Beyond(c, d, i)}
Holding(c, d, i) == IF d = "BUY" THEN c.bars[i].c >= Level(c, d) ELSE c.bars[i].c <= Level(c, d)

\* Wrong on purpose: a failed breakdown is not a trap.
NotTrapped_BuyOnly(c, d, first) ==
    d = "BUY" => \A i \in first + 1 .. Len(c.bars) : Holding(c, d, i)

NotTrapped(c, d, first) == \A i \in first + 1 .. Len(c.bars) : Holding(c, d, i)

RangeBreakout(c, d) ==
    /\ c.atr > 0
    /\ c.range.high - c.range.low <= BandAtr * c.atr
    /\ Broke(c, d) # {}
    /\ LET first == Min(Broke(c, d)) IN
         /\ HasVolume(c) => 10 * c.bars[first].v >= VolMult * c.avgVolume
         /\ NotTrapped(c, d, first)
         /\ \/ 10 * Distance(Close(c), Level(c, d)) <= RetestAtr * c.atr
               /\ Holding(c, d, Len(c.bars))
            \/ first = Len(c.bars) /\ StrongBar(Last(c), d)

\* Turtle Soup: swept, structure shifted the same way, an aligned gap.
TurtleSoup(c, d) == c.sweep = d /\ d \in {c.choch, c.bos} /\ c.fvg = d

\* AMD: a stop hunt resolved into distribution, with the structure.
AMDPowerOfThree(c, d) ==
    c.distribution /\ c.hunt /\ c.sweep = d /\ d \in {c.trend, c.bos}

\* Unicorn asks for a breaker block, which ICTEngine never reports.
Detects(c, code, d) ==
    CASE code = "A" -> TrendPullback(c, d)
      [] code = "B" -> RangeBreakout(c, d)
      [] code = "TSOUP" -> TurtleSoup(c, d)
      [] code = "AMD" -> AMDPowerOfThree(c, d)
      [] OTHER -> FALSE

\* Every detector ends with the absorption wick and the scorecard's minimum.
Accepts(c, code, d) == /\ Detects(c, code, d)
                       /\ ~WickAgainst(Last(c), d)
                       /\ ~Raises(c) /\ Total(c, d) >= MinScore

\* Setup B looks up first and returns at the first side that it accepts.
Matches(c) ==
    {[code |-> m[1], direction |-> m[2], score |-> Total(c, m[2])] :
        m \in {x \in {Code[i] : i \in DOMAIN Code} \X Sides :
            /\ Accepts(c, x[1], x[2])
            /\ x = <<"B", "SELL">> => ~Accepts(c, "B", "BUY")}}

\* Sorted by score, detectors in their order; the first with the trend's side.
Rank(m) == 100 * m.score - CHOOSE i \in DOMAIN Code : Code[i] = m.code
Best(c) == LET withTrend == {m \in Matches(c) : m.direction = c.trend}
           IN  IF withTrend = {} THEN NoMatch
               ELSE CHOOSE m \in withTrend : \A n \in withTrend : Rank(m) >= Rank(n)

-----------------------------------------------------------------------------
Look == /\ context = NoContext
        /\ context' \in Contexts
        /\ UNCHANGED best

\* evaluate asks only when no gate has rejected, chop among them.
Detect == /\ context # NoContext /\ best = Undecided
          /\ best' = IF Regime(context) = "chop" THEN NoMatch ELSE Best(context)
          /\ UNCHANGED context

\* The next chart's turn.
PassEnds == /\ best # Undecided
            /\ context' = NoContext /\ best' = Undecided

Init == context = NoContext /\ best = Undecided
Next == Look \/ Detect \/ PassEnds
Spec == Init /\ [][Next]_vars

-----------------------------------------------------------------------------
MirrorSide(s) == IF s = "BUY" THEN "SELL" ELSE IF s = "SELL" THEN "BUY" ELSE s
Mirror(c) ==
    [c EXCEPT !.bars = [i \in DOMAIN @ |-> [o |-> -@[i].o, h |-> -@[i].l, l |-> -@[i].h,
                                            c |-> -@[i].c, v |-> @[i].v]],
              !.range = [high |-> -@.low, low |-> -@.high],
              !.swingHigh = {-x : x \in c.swingLow}, !.swingLow = {-x : x \in c.swingHigh},
              !.rsi = [i \in DOMAIN @ |-> 100 - @[i]],
              !.ema50 = -@, !.ema200 = -@, !.htf = MirrorSide(@),
              !.trend = MirrorSide(@), !.bos = MirrorSide(@), !.choch = MirrorSide(@),
              !.sweep = MirrorSide(@), !.ob = MirrorSide(@), !.fvg = MirrorSide(@)]

(* The chart upside down has the same setups on the other side with the    *)
(* same scores: every long rule of the detectors, candles and scorecard is *)
(* mirrored by its short one, and looking for breakouts upwards first      *)
(* never matters, since of two breaks the earlier is a trap.  Only where   *)
(* the higher timeframe is sideways the two charts differ: the scorecard   *)
(* then gives the macro point to SELL on both (SidewaysHtfIsNeutral).      *)
StrategiesMirror == context # NoContext /\ context.htf # "none" =>
    Matches(Mirror(context)) = {[m EXCEPT !.direction = MirrorSide(@)] : m \in Matches(context)}

(* A higher timeframe without a trend agrees with neither side.            *)
SidewaysHtfIsNeutral == context # NoContext /\ context.htf = "none" =>
    MacroPoints(context, "BUY") = MacroPoints(context, "SELL")

(* The scorecard shares the view of the setup it scores: a trend pullback  *)
(* (thresholds of strategies.yaml) always gets the full points for trend,  *)
(* RSI and candle from the scorecard, which has thresholds of its own.     *)
ScorecardAgrees == context # NoContext =>
    \A d \in Sides : TrendPullback(context, d) =>
        LET s == Scorecard(context, d) IN s.trend = 2 /\ s.rsi = 1 /\ s.candle = 1

(* Turtle Soup enters "the reversal" once the structure has shifted back:  *)
(* found on a CHOCH, it is the side that is traded.                        *)
ReversalIsTraded == best # Undecided /\ Regime(context) # "chop" =>
    \A m \in Matches(context) :
        m.code = "TSOUP" /\ context.choch = m.direction => best.direction = m.direction

(* A setup that has the points is found, whatever volume the feed has had. *)
VolumeSilencesNoSetup == context # NoContext =>
    \A d \in Sides :
        Detects(context, "A", d) /\ ~WickAgainst(Last(context), d) /\ Total(context, d) >= MinScore
            => \E m \in Matches(context) : m.code = "A"
=============================================================================
