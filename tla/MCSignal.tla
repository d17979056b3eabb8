------------------------------ MODULE MCSignal ------------------------------
(***************************************************************************)
(* From what the engines saw to a published signal, for TLC: the levels of *)
(* a signal (extended), the gates and scores of the rule engine, the named *)
(* setups it asks for, and the evidence throttle in front of the group.    *)
(* They share no variable; the instance runs one of them at a time (part), *)
(* the others rest in their initial states.                                *)
(***************************************************************************)
EXTENDS SignalLevels, Sequences

CONSTANTS Views, MinConfluence, MinPublish, MinOpposing,   \* SignalRules
          Strategies, MinN, Cap,                           \* Publication
          Contexts, EmaZone, RetraceMin, RetraceMax, RsiReset, RsiLookback,
          BandAtr, VolMult, RetestAtr, MinScore            \* Detectors

VARIABLES view, decision, tier,
          trades, sumR, open, throttle, scanning, blind, published,
          context, best,
          part

ruleVars == <<view, decision, tier>>
groupVars == <<trades, sumR, open, throttle, scanning, blind, published>>

Rule == INSTANCE SignalRules
Group == INSTANCE Publication
Setup == INSTANCE Detectors

setupVars == <<context, best>>

ASSUME SignalAssumption ==
    Rule!ViewsAssumption /\ Rule!LimitsAssumption /\ Group!MinNAssumption
    /\ Setup!ContextsAssumption

-----------------------------------------------------------------------------
SignalInit == /\ Init /\ Rule!Init /\ Group!Init /\ Setup!Init
              /\ part \in {"levels", "rules", "setups", "group"}

LevelsStep == part = "levels" /\ Next /\ UNCHANGED <<part, ruleVars, setupVars, groupVars>>
RulesStep == part = "rules" /\ Rule!Next /\ UNCHANGED <<part, vars, setupVars, groupVars>>
GroupStep == part = "group" /\ Group!Next /\ UNCHANGED <<part, vars, ruleVars, setupVars>>
SetupsStep == part = "setups" /\ Setup!Next /\ UNCHANGED <<part, vars, ruleVars, groupVars>>

SignalNext == LevelsStep \/ RulesStep \/ SetupsStep \/ GroupStep
signalVars == <<part, vars, ruleVars, setupVars, groupVars>>
SignalSpec == /\ SignalInit /\ [][SignalNext]_signalVars
              /\ part = "group" => Group!Fairness

-----------------------------------------------------------------------------
(* The states of levels and rules have their types.                        *)
SignalTypeOK == TypeOK /\ Rule!TypeOK

(* The properties of the instances, stated in their modules.               *)
ShortsMirrorLongs == Rule!ShortsMirrorLongs
ConfirmationNeverHurts == Rule!ConfirmationNeverHurts
StrategiesMirror == Setup!StrategiesMirror
ScorecardAgrees == Setup!ScorecardAgrees
NoProvenLoserPublished == Group!NoProvenLoserPublished
EarnsItsWayBack == Group!EarnsItsWayBack

-----------------------------------------------------------------------------
(* Levels: ticks of four units, closes on and between ticks, blocks and    *)
(* swings on both sides of them.                                           *)
SomeCloses == 400 .. 403
SomeAtrs == {0, 10, 30}
SomeLevels == {362, 397, 402, 441}

(* Views: GateViews varies what the gates look at, ScoreViews what the     *)
(* scores add up, NeutralViews what takes no side.  An M15 chart has three *)
(* timeframes above it, an H1 chart two; what cannot be fetched is left    *)
(* out of the cascade.                                                     *)
Read(d1, h4, h1) == [tf \in {"D1", "H4", "H1"} |->
                        IF tf = "D1" THEN d1 ELSE IF tf = "H4" THEN h4 ELSE h1]
Plain == [trend |-> "bull", bos |-> TRUE, choch |-> "NO TRADE", regime |-> "range",
          bullTrap |-> FALSE, bearTrap |-> FALSE,
          entry |-> "H1", above |-> Read("BUY", "BUY", "NO TRADE"), htf |-> "BUY",
          ob |-> "BUY", obScore |-> 80, fvg |-> "none", fvgScore |-> 75,
          location |-> "Discount", sweep |-> "swept", killZone |-> TRUE, ote |-> FALSE,
          bias |-> "BUY", spike |-> FALSE, exhausted |-> FALSE,
          strength |-> 75, others |-> 70, atrRatio |-> 100, match |-> 0]

\* A sideways structure has no BOS; a trend has a BOS, a CHOCH or neither.
Breaks(t) == {<<FALSE, c>> : c \in IF t = "sideways" THEN {"BUY", "SELL", "NO TRADE"}
                                   ELSE {"NO TRADE", IF t = "bull" THEN "SELL" ELSE "BUY"}}
             \cup (IF t = "sideways" THEN {} ELSE {<<TRUE, "NO TRADE">>})

Structures == UNION {{[trend |-> t, bos |-> b[1], choch |-> b[2]] : b \in Breaks(t)} :
                     t \in {"bull", "sideways", "bear"}}

GateViews ==
    {[Plain EXCEPT !.trend = s.trend, !.bos = s.bos, !.choch = s.choch, !.regime = r,
                   !.bullTrap = t[1], !.bearTrap = t[2],
                   !.above = c, !.htf = h, !.ob = z[1], !.fvg = z[2], !.location = l,
                   !.bias = h] :
        s \in Structures, r \in {"range", "chop", "strong_bear"},
        t \in {<<FALSE, FALSE>>, <<TRUE, FALSE>>, <<FALSE, TRUE>>, <<TRUE, TRUE>>},
        c \in {Read(d, h4, "SELL") : d \in {"BUY", "SELL"}, h4 \in {"BUY", "SELL"}}
             \cup {Read("unreadable", "unreadable", "BUY"), Read("SELL", "unreadable", "BUY")},
        h \in {"BUY", "SELL"},
        z \in {<<"BUY", "none">>, <<"SELL", "BUY">>, <<"none", "SELL">>, <<"none", "none">>},
        l \in {"Premium", "Discount"}}

ScoreViews ==
    {[Plain EXCEPT !.trend = t, !.sweep = s, !.killZone = k, !.ote = o,
                   !.ob = z[1], !.fvg = z[2], !.obScore = b, !.bias = v[1],
                   !.spike = v[2], !.exhausted = v[3], !.strength = n, !.others = q,
                   !.atrRatio = f, !.match = m, !.htf = h,
                   !.entry = "M15", !.above = Read("SELL", "BUY", "BUY")] :
        t \in {"bull", "strong bull"}, s \in {"none", "swept", "stop hunt"},
        k \in BOOLEAN, o \in BOOLEAN,
        z \in {<<"BUY", "none">>, <<"none", "BUY">>, <<"BUY", "BUY">>},
        b \in {50, 100},
        v \in {<<"BUY", TRUE, FALSE>>, <<"SELL", TRUE, TRUE>>},
        n \in {55, 100}, q \in {50, 95}, f \in {0, 70, 170}, m \in {0, 8}, h \in {"BUY", "SELL"}}

\* Views that take no side: a neutral volume bias and a sideways context.
NeutralViews ==
    {[Plain EXCEPT !.bias = "none", !.htf = "NO TRADE", !.spike = s, !.exhausted = e,
                   !.trend = t, !.ob = IF t = "bull" THEN "BUY" ELSE "SELL",
                   !.location = "Equilibrium", !.killZone = k, !.strength = n,
                   !.above = Read("unreadable", "unreadable", "BUY")] :
        s \in BOOLEAN, e \in BOOLEAN, t \in {"bull", "bear"}, k \in BOOLEAN, n \in {60, 80}}

ManyViews == GateViews \cup ScoreViews \cup NeutralViews

(* Contexts: Pullbacks varies what a trend pullback looks at, Breakouts    *)
(* the closes around a range, Sweeps the liquidity setups and their scores.*)
Candle(o, h, l, k, n) == [o |-> o, h |-> h, l |-> l, c |-> k, v |-> n]
Flat == Candle(99, 100, 98, 99, 2)
Usual == [bars |-> <<Flat, Flat, Flat, Flat, Flat>>,
          range |-> [high |-> 120, low |-> 80], swingHigh |-> {110}, swingLow |-> {90},
          rsi |-> <<50, 48, 44, 42, 43, 44, 46>>, ema50 |-> 98, ema200 |-> 90,
          atr |-> 4, avgAtr |-> 4, avgVolume |-> 2, htf |-> "BUY",
          trend |-> "BUY", bos |-> "BUY", choch |-> "none",
          sweep |-> "none", hunt |-> FALSE, distribution |-> FALSE,
          ob |-> "BUY", fvg |-> "none", ote |-> TRUE]

\* The last three bars: star, engulfing, piercing, hammer, strong bar, a bar
\* with a long shadow against, two mirror images, and no pattern at all.
Tails == {<<Candle(104, 105, 97, 98, 2), Candle(98, 99, 97, 98, 1), Candle(98, 104, 97, 102, 3)>>,
          <<Flat, Candle(100, 101, 97, 98, 1), Candle(98, 101, 97, 100, 3)>>,
          <<Flat, Candle(102, 103, 96, 97, 1), Candle(97, 106, 96, 100, 3)>>,
          <<Flat, Flat, Candle(99, 100, 95, 100, 3)>>,
          <<Flat, Flat, Candle(98, 101, 98, 101, 2)>>,
          <<Flat, Candle(100, 101, 98, 99, 1), Candle(99, 107, 98, 100, 3)>>,
          <<Flat, Candle(97, 101, 96, 100, 1), Candle(100, 101, 96, 97, 3)>>,
          <<Flat, Flat, Candle(99, 103, 98, 98, 3)>>,
          <<Flat, Flat, Flat>>}

Pullbacks ==
    {[Usual EXCEPT !.bars = <<Flat, Flat>> \o t, !.ema50 = e[1], !.ema200 = e[2],
                   !.swingHigh = s[1], !.swingLow = s[2], !.rsi = r, !.fvg = f,
                   !.ote = h = "BUY", !.htf = h,
                   !.avgVolume = n, !.trend = IF e[1] > e[2] THEN "BUY" ELSE "SELL",
                   !.bos = IF e[1] > e[2] THEN "BUY" ELSE "SELL"] :
        t \in Tails, e \in {<<98, 90>>, <<101, 97>>, <<93, 90>>, <<100, 108>>, <<97, 102>>},
        s \in {<<{}, {90}>>, <<{110}, {}>>, <<{110}, {90}>>, <<{102}, {92}>>},
        r \in {<<50, 48, 44, 42, 43, 44, 46>>, <<44, 50, 52, 50, 49, 48, 49>>,
               <<50, 52, 56, 58, 57, 56, 54>>, <<46, 50, 52, 50, 49, 50, 49>>},
        f \in {"BUY", "SELL"}, h \in {"BUY", "SELL", "none"}, n \in {0, 2}}

\* Bars that are all body, from one close to the next.
Step(o, k, n) == Candle(o, IF o > k THEN o ELSE k, IF o > k THEN k ELSE o, k, n)
Breakouts ==
    {[Usual EXCEPT !.bars = <<Step(95, k[1], n), Step(k[1], k[2], n), Step(k[2], k[3], n),
                              Step(k[3], k[4], n), Step(k[4], k[5], n)>>,
                   !.range = [high |-> 100, low |-> a[1]], !.avgVolume = a[2],
                   !.ema200 = IF d = "BUY" THEN 80 ELSE 120, !.ema50 = 100,
                   !.trend = d, !.bos = d, !.ob = d, !.fvg = d, !.htf = d] :
        k \in [1 .. 5 -> {88, 95, 102}], n \in {1, 3},
        a \in {<<90, 2>>, <<90, 0>>, <<70, 2>>}, d \in {"BUY", "SELL"}}

Sweeps ==
    {[Usual EXCEPT !.bars = <<Flat, Flat, Flat, Flat, t>>, !.trend = d,
                   !.bos = IF x THEN d ELSE "none",
                   !.choch = IF x THEN "none" ELSE IF d = "BUY" THEN "SELL" ELSE "BUY",
                   !.sweep = w, !.hunt = u, !.distribution = n, !.fvg = f, !.ob = b,
                   !.ema200 = e] :
        t \in {Candle(98, 101, 98, 101, 3), Candle(101, 101, 98, 98, 3)},
        d \in {"BUY", "SELL"}, x \in BOOLEAN,
        w \in {"none", "BUY", "SELL"}, u \in BOOLEAN, n \in BOOLEAN,
        f \in {"none", "BUY", "SELL"}, b \in {"BUY", "SELL"}, e \in {90, 110}}

\* Wild bars: chop.
Chop == {[Usual EXCEPT !.avgAtr = 1]}

ManyContexts == Pullbacks \cup Breakouts \cup Sweeps \cup Chop
=============================================================================
