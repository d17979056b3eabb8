----------------------------- MODULE SignalProofs -----------------------------
(***************************************************************************)
(* Proofs about the signals, for every tick size, price, volatility and    *)
(* minimum reward: the levels of a signal keep their order and its reward  *)
(* survives the rounding of all of them.  And for every set of strategies: *)
(* what a scan publishes comes from none that the journal has proven a     *)
(* loser.  The decision of a short is the decision of the long it mirrors, *)
(* whatever the engines report; a confirmation more never costs a signal   *)
(* or a point of confidence; and the detectors read a reflected market as  *)
(* they read the market, so that no strategy favours a direction.          *)
(***************************************************************************)
EXTENDS MCSignal, FiniteSetTheorems, TLAPS

(* A target's distance is at least the multiple it stands for and at most  *)
(* one tick more: math.ceil of a quotient that floating point may have     *)
(* pushed up.                                                              *)
LEMMA DistanceBounds ==
    ASSUME NEW num \in Nat, NEW den \in Nat \ {0}, NEW r \in Int,
           NEW d \in Distances(num, den, r)
    PROVE  d \in Int /\ d * den >= num * r /\ d * den <= num * r + den
  <1>1. num * r \in Int
    OBVIOUS
  <1>2. (num * r) \div den \in Int
    BY <1>1
  <1>3. d \in Int /\ Distance(d, num, den, r)
    BY <1>2 DEF Distances
  <1>4. (d - 1) * den = d * den - den
    BY <1>3
  <1>5. d * den \in Int
    BY <1>3
  <1> QED
    BY <1>1, <1>3, <1>4, <1>5 DEF Distance

(* A price rounds to a tick, whichever of two equally near ones it is.     *)
LEMMA NearestIsTick ==
    ASSUME NEW p \in Int, NEW t \in Nearest(p)
    PROVE  t \in Int /\ 2 * (t * Sub - p) <= Sub /\ 2 * (p - t * Sub) <= Sub
  <1>1. p \div Sub \in Int
    BY SubAssumption
  <1> QED
    BY <1>1 DEF Nearest, IsNearest

(* Close, block and swing are integers seen from either side.              *)
LEMMA PricesAreInt ==
    ASSUME NEW c \in Charts
    PROVE  /\ Seen(c, c.close) \in Int /\ RawStop(c) \in Int
           /\ c.atr \in Int /\ c.atr \div 10 \in Int
           /\ RawStop(c) <= Seen(c, c.close) - c.atr - c.atr \div 10
  <1>0. /\ c.side \in {1, -1} /\ c.close \in Closes /\ c.atr \in Atrs
        /\ c.block \in Blocks /\ c.swing \in Swings
    BY DEF Charts
  <1>1. c.side \in Int /\ c.close \in Int /\ c.atr \in Nat
    <2>1. c.side = 1 \/ c.side = -1
      BY <1>0
    <2>2. c.side \in Int
      BY <2>1
    <2>3. c.close \in Int
      BY <1>0, PricesAssumption, Zenon
    <2>4. c.atr \in Nat
      BY <1>0, PricesAssumption, Zenon
    <2> QED
      BY <2>2, <2>3, <2>4
  <1>2. Seen(c, c.close) \in Int
    BY <1>1 DEF Seen
  <1>3. c.block.known => c.block.price \in Int
    <2>1. c.block = None \/ c.block.price \in Levels
      BY <1>0 DEF Blocks
    <2>2. c.block = None => ~c.block.known
      BY DEF None
    <2> QED
      BY <2>1, <2>2, PricesAssumption, Zenon
  <1>4. c.swing.known => c.swing.price \in Int
    <2>1. c.swing = None \/ c.swing.price \in Levels
      BY <1>0 DEF Swings
    <2>2. c.swing = None => ~c.swing.known
      BY DEF None
    <2> QED
      BY <2>1, <2>2, PricesAssumption, Zenon
  <1>5. Protective(c) \in Int
    BY <1>1, <1>2, <1>3, <1>4 DEF Protective, Seen
  <1>6. c.atr \div 10 \in Int
    BY <1>1
  <1> QED
    BY <1>1, <1>2, <1>5, <1>6 DEF RawStop, Lower

(* Rounding close and stop to ticks brings them at most a tick closer.     *)
LEMMA StopIsAway ==
    ASSUME NEW c \in Charts,
           NEW e \in Nearest(Seen(c, c.close)), NEW stop \in Nearest(RawStop(c))
    PROVE  (e - stop + 1) * Sub >= c.atr + c.atr \div 10
  <1>1. /\ Seen(c, c.close) \in Int /\ RawStop(c) \in Int
        /\ c.atr \in Int /\ c.atr \div 10 \in Int
        /\ RawStop(c) <= Seen(c, c.close) - c.atr - c.atr \div 10
    BY PricesAreInt
  <1>2. e \in Int /\ 2 * (Seen(c, c.close) - e * Sub) <= Sub
    BY <1>1, NearestIsTick
  <1>3. stop \in Int /\ 2 * (stop * Sub - RawStop(c)) <= Sub
    BY <1>1, NearestIsTick
  <1>4. Sub \in Int /\ e * Sub \in Int /\ stop * Sub \in Int
    BY <1>2, <1>3, SubAssumption
  <1>5. (e - stop + 1) * Sub = e * Sub - stop * Sub + Sub
    BY <1>2, <1>3, SubAssumption
  <1>6. e * Sub - stop * Sub + Sub >= c.atr + c.atr \div 10
    BY <1>1, <1>2, <1>3, <1>4
  <1> QED
    BY <1>5, <1>6

\* The inductive invariant: the levels as distances from the entry.
LevelsInv == chart \in Charts \cup {NoChart} /\ (signal \in {NoSignal, Declined} \/
    /\ chart \in Charts /\ signal \in Signals
    /\ LET r == signal.entry - signal.stop IN
         /\ r > 0
         /\ (r + 1) * Sub >= chart.atr + chart.atr \div 10
         /\ 2 * (signal.tp1 - signal.entry) >= 3 * r
         /\ 2 * (signal.tp1 - signal.entry) <= 3 * r + 2
         /\ signal.tp2 - signal.entry >= MinRR * r
         /\ signal.tp3 - signal.entry >= 4 * r
         /\ signal.tp2 - signal.entry <= MinRR * r + 1)

LEMMA InitLevels == Init => LevelsInv
  BY DEF Init, LevelsInv

(* Build puts every level where the invariant wants it.                    *)
LEMMA BuildLevels == LevelsInv /\ Build => LevelsInv'
  <1> SUFFICES ASSUME LevelsInv, Build PROVE LevelsInv'
    OBVIOUS
  <1>1. chart \in Charts /\ chart' = chart
    BY DEF LevelsInv, Build, Unpriced
  <1>2. PICK e \in Nearest(Seen(chart, chart.close)), stop \in Nearest(RawStop(chart)) :
          \/ e - stop <= 0 /\ signal' = Declined
          \/ /\ e - stop > 0
             /\ \E d1 \in Distances(3, 2, e - stop), d2 \in Distances(MinRR, 1, e - stop),
                   d3 \in Distances(4, 1, e - stop) :
                  \/ signal' = Priced(e, stop, d1, d2, d3)
                  \/ d2 = MinRR * (e - stop) /\ signal' = Declined
    BY DEF Build
  <1>3. e \in Int /\ stop \in Int
    BY <1>1, PricesAreInt, NearestIsTick
  <1>4. CASE signal' = Declined
    BY <1>1, <1>4 DEF LevelsInv
  <1>5. CASE signal' # Declined
    <2>1. PICK d1 \in Distances(3, 2, e - stop), d2 \in Distances(MinRR, 1, e - stop),
               d3 \in Distances(4, 1, e - stop) : signal' = Priced(e, stop, d1, d2, d3)
      BY <1>2, <1>5
    <2>2. e - stop > 0 /\ e - stop \in Int
      BY <1>2, <1>3, <1>5
    <2>3. d1 \in Int /\ d1 * 2 >= 3 * (e - stop) /\ d1 * 2 <= 3 * (e - stop) + 2
      BY <2>2, DistanceBounds
    <2>4. d2 \in Int /\ d2 * 1 >= MinRR * (e - stop) /\ d2 * 1 <= MinRR * (e - stop) + 1
      BY <2>2, DistanceBounds, MinRRAssumption
    <2>5. d3 \in Int /\ d3 * 1 >= 4 * (e - stop)
      BY <2>2, DistanceBounds
    <2>6. /\ signal' \in Signals
          /\ signal'.entry = e /\ signal'.stop = stop
          /\ signal'.tp1 = e + d1 /\ signal'.tp2 = e + d2 /\ signal'.tp3 = e + d3
      BY <1>3, <2>1, <2>3, <2>4, <2>5 DEF Priced, Signals
    <2>8. (e - stop + 1) * Sub >= chart.atr + chart.atr \div 10
      BY <1>1, StopIsAway
    <2>7. /\ signal'.tp1 - signal'.entry = d1
          /\ signal'.tp2 - signal'.entry = d2
          /\ signal'.tp3 - signal'.entry = d3
      BY <1>3, <2>3, <2>4, <2>5, <2>6
    <2> QED
      BY <1>1, <1>3, <2>2, <2>3, <2>4, <2>5, <2>6, <2>7, <2>8, MinRRAssumption DEF LevelsInv
  <1> QED
    BY <1>4, <1>5

LEMMA StepLevels == LevelsInv /\ [Next]_vars => LevelsInv'
  <1> SUFFICES ASSUME LevelsInv, [Next]_vars PROVE LevelsInv'
    OBVIOUS
  <1>1. CASE Build
    BY <1>1, BuildLevels
  <1>2. CASE Look
    <2>1. NoChart \notin Charts
      <3>1. NoChart.side = 0
        BY DEF NoChart
      <3>2. \A c \in Charts : c.side \in {1, -1}
        BY DEF Charts
      <3> QED
        BY <3>1, <3>2
    <2>2. signal' \in {NoSignal, Declined}
      BY <1>2, <2>1 DEF LevelsInv, Look
    <2> QED
      BY <1>2, <2>2 DEF LevelsInv, Look
  <1>4. CASE PassEnds
    BY <1>4 DEF LevelsInv, PassEnds
  <1>3. CASE UNCHANGED vars
    BY <1>3 DEF LevelsInv, vars
  <1> QED
    BY <1>1, <1>2, <1>3, <1>4 DEF Next

(* The levels invariant holds in every reachable state.                    *)
THEOREM LevelsInvHolds == Spec => []LevelsInv
  BY InitLevels, StepLevels, PTL DEF Spec

(* What the invariant says of a built signal.                              *)
LEMMA BuiltLevels ==
    ASSUME LevelsInv, Built
    PROVE  LET r == signal.entry - signal.stop IN
           /\ signal \in Signals /\ chart \in Charts
           /\ r > 0
           /\ (r + 1) * Sub >= chart.atr + chart.atr \div 10
           /\ 2 * (signal.tp1 - signal.entry) >= 3 * r
           /\ 2 * (signal.tp1 - signal.entry) <= 3 * r + 2
           /\ signal.tp2 - signal.entry >= MinRR * r
           /\ signal.tp3 - signal.entry >= 4 * r
           /\ signal.tp2 - signal.entry <= MinRR * r + 1
  <1>1. NoSignal.built = "not yet" /\ Declined.built = "declined"
    BY DEF NoSignal, Declined
  <1>2. signal \notin {NoSignal, Declined}
    BY <1>1 DEF Built
  <1> QED
    BY <1>2 DEF LevelsInv

(* Every signal's stored levels clear the minimum reward the risk engine   *)
(* recomputes from them: rounding never makes the gate veto the program's  *)
(* own signal.                                                             *)
THEOREM RewardAlwaysHolds == Spec => []RewardHolds
  <1>1. ASSUME LevelsInv PROVE RewardHolds
    <2> SUFFICES ASSUME Built
                 PROVE  /\ signal.stop < signal.entry
                        /\ signal.tp2 - signal.entry >= MinRR * (signal.entry - signal.stop)
      BY DEF RewardHolds
    <2>1. signal.entry \in Int /\ signal.stop \in Int
      BY <1>1, BuiltLevels DEF Signals
    <2>2. signal.entry - signal.stop > 0
      BY <1>1, BuiltLevels
    <2> QED
      BY <1>1, <2>1, <2>2, BuiltLevels
  <1> QED
    BY <1>1, LevelsInvHolds, PTL

(* The stop never comes nearer than an ATR and a tenth, less one tick, for *)
(* every tick size.                                                        *)
THEOREM StopAlwaysOutsideNoise == Spec => []StopOutsideNoise
  <1>1. ASSUME LevelsInv PROVE StopOutsideNoise
    BY <1>1, BuiltLevels DEF StopOutsideNoise
  <1> QED
    BY <1>1, LevelsInvHolds, PTL

(* With the configured minimum reward of 2 the levels of every signal are  *)
(* in order, for every chart whose stop is three ticks away or more.       *)
THEOREM LevelsAlwaysOrdered == MinRR = 2 => (Spec => []LevelsOrdered)
  <1> SUFFICES ASSUME MinRR = 2 PROVE Spec => []LevelsOrdered
    OBVIOUS
  <1>1. ASSUME LevelsInv PROVE LevelsOrdered
    <2> SUFFICES ASSUME Built, signal.entry - signal.stop >= 3
                 PROVE  /\ signal.stop < signal.entry /\ signal.entry < signal.tp1
                        /\ signal.tp1 < signal.tp2 /\ signal.tp2 < signal.tp3
      BY DEF LevelsOrdered
    <2>1. /\ signal.entry \in Int /\ signal.stop \in Int
          /\ signal.tp1 \in Int /\ signal.tp2 \in Int /\ signal.tp3 \in Int
      BY <1>1, BuiltLevels DEF Signals
    <2>2. LET r == signal.entry - signal.stop IN
          /\ 2 * (signal.tp1 - signal.entry) >= 3 * r
          /\ 2 * (signal.tp1 - signal.entry) <= 3 * r + 2
          /\ signal.tp2 - signal.entry >= 2 * r
          /\ signal.tp3 - signal.entry >= 4 * r
          /\ signal.tp2 - signal.entry <= 2 * r + 1
      BY <1>1, BuiltLevels
    <2> QED
      BY <2>1, <2>2
  <1> QED
    BY <1>1, LevelsInvHolds, PTL

-----------------------------------------------------------------------------
(* The evidence throttle *)

(* While a scan runs no trade is closed, so the evidence is still what the *)
(* throttle was computed from when the scan began.                         *)
ThrottleInv == scanning /\ ~blind => throttle = Group!Losers
                                       /\ published \cap Group!Losers = {}

LEMMA InitThrottle == Group!Init => ThrottleInv
  BY DEF Group!Init, ThrottleInv

LEMMA NextThrottle == ThrottleInv /\ [Group!Next]_(Group!vars) => ThrottleInv'
<1> SUFFICES ASSUME ThrottleInv, [Group!Next]_(Group!vars) PROVE ThrottleInv'
  OBVIOUS
<1> USE DEF ThrottleInv
<1>1. trades' = trades /\ sumR' = sumR => Group!Losers' = Group!Losers
  BY DEF Group!Losers
<1>2. CASE Group!StartScan
  <2>1. /\ Group!Losers' = Group!Losers /\ published' = {}
        /\ throttle' = IF blind' THEN {} ELSE Group!Losers
    BY <1>1, <1>2 DEF Group!StartScan
  <2> QED
    BY <2>1
<1>3. ASSUME NEW s \in Strategies, Group!Signal(s) PROVE ThrottleInv'
  <2>1. /\ Group!Losers' = Group!Losers /\ throttle' = throttle
        /\ scanning' = scanning /\ blind' = blind
    BY <1>1, <1>3 DEF Group!Signal
  <2>2. \/ published' = published
        \/ s \notin throttle /\ published' = published \cup {s}
    BY <1>3 DEF Group!Signal
  <2> QED
    BY <2>1, <2>2
<1>4. CASE Group!EndScan
  BY <1>4 DEF Group!EndScan
<1>5. ASSUME NEW s \in Strategies, Group!Win(s) \/ Group!Lose(s) PROVE ThrottleInv'
  BY <1>5 DEF Group!Win, Group!Lose, Group!CloseTrade
<1>6. CASE UNCHANGED Group!vars
  BY <1>1, <1>6 DEF Group!vars
<1> QED BY <1>2, <1>3, <1>4, <1>5, <1>6 DEF Group!Next

(* No scan publishes a strategy that the closed trades, as they are at     *)
(* that moment, have proven a loser, for every set of strategies and every *)
(* amount of evidence asked for.                                           *)
THEOREM NoProvenLoserPublishedHolds == Group!Spec => []NoProvenLoserPublished
<1>1. ThrottleInv => NoProvenLoserPublished
  BY DEF ThrottleInv, NoProvenLoserPublished, Group!NoProvenLoserPublished
<1>2. Group!Spec => []ThrottleInv
  BY InitThrottle, NextThrottle, PTL DEF Group!Spec
<1> QED BY <1>1, <1>2, PTL

-----------------------------------------------------------------------------
(* The rule engine's decision *)

\* A decision is taken on what the engines saw, and is Decide's or none.
RuleInv == \/ view = Rule!NoView /\ decision = Rule!Undecided
           \/ \E v \in Views : /\ view = v
                               /\ decision \in {Rule!Undecided, Rule!NoTrade, Rule!Decide(v)}

\* Every decision was taken on the view at hand.
LEMMA RuleInvHolds == Rule!Spec => []RuleInv
<1>1. Rule!Init => RuleInv
  BY DEF Rule!Init, RuleInv
<1>2. ASSUME RuleInv, [Rule!Next]_(Rule!vars) PROVE RuleInv'
  <2>0. Rule!NoView \notin Views
    <3>1. Rule!NoView.trend \notin Rule!Trends
      BY DEF Rule!NoView, Rule!Trends
    <3>2. \A v \in Views : v.trend \in Rule!Trends
      BY SignalAssumption DEF Rule!ViewsAssumption, Rule!AllViews
    <3> QED BY <3>1, <3>2
  <2> USE DEF RuleInv
  <2>1. CASE Rule!Look
    BY <1>2, <2>0, <2>1 DEF Rule!Look
  <2>2. CASE Rule!Evaluate
    <3>1. PICK v \in Views : view = v
      BY <1>2, <2>2 DEF Rule!Evaluate
    <3> QED BY <2>2, <3>1 DEF Rule!Evaluate
  <2>3. CASE Rule!Publish
    BY <1>2, <2>3 DEF Rule!Publish
  <2>4. CASE Rule!Manage
    BY <1>2, <2>4 DEF Rule!Manage
  <2>5. CASE Rule!PassEnds
    BY <1>2, <2>5 DEF Rule!PassEnds
  <2>6. CASE UNCHANGED Rule!vars
    BY <1>2, <2>6 DEF Rule!vars
  <2> QED BY <1>2, <2>1, <2>2, <2>3, <2>4, <2>5, <2>6 DEF Rule!Next
<1> QED BY <1>1, <1>2, PTL DEF Rule!Spec

\* The fields of a mirrored view.
LEMMA MirrorFields ==
    ASSUME NEW v \in Rule!AllViews
    PROVE  LET m == Rule!Mirror(v) IN
           /\ m.trend = Rule!MirrorTrend[v.trend] /\ m.choch = Rule!MirrorSide(v.choch)
           /\ m.bullTrap = v.bearTrap /\ m.bearTrap = v.bullTrap
           /\ m.above = [tf \in DOMAIN v.above |-> Rule!MirrorSide(v.above[tf])]
           /\ m.htf = Rule!MirrorSide(v.htf) /\ m.ob = Rule!MirrorSide(v.ob)
           /\ m.fvg = Rule!MirrorSide(v.fvg) /\ m.location = Rule!MirrorLocation(v.location)
           /\ m.bias = Rule!MirrorSide(v.bias)
           /\ m.bos = v.bos /\ m.regime = v.regime /\ m.entry = v.entry
           /\ m.obScore = v.obScore /\ m.fvgScore = v.fvgScore /\ m.sweep = v.sweep
           /\ m.killZone = v.killZone /\ m.ote = v.ote /\ m.spike = v.spike
           /\ m.exhausted = v.exhausted /\ m.strength = v.strength /\ m.others = v.others
           /\ m.atrRatio = v.atrRatio /\ m.match = v.match
  BY DEF Rule!AllViews, Rule!Mirror

\* The fields of a view, one by one.
LEMMA ViewFields ==
    ASSUME NEW v \in Rule!AllViews
    PROVE  /\ v.trend \in Rule!Trends /\ v.bos \in BOOLEAN /\ v.choch \in Rule!Labels
           /\ v.bullTrap \in BOOLEAN /\ v.bearTrap \in BOOLEAN
           /\ v.above \in [Rule!Higher -> Rule!Labels \cup {"unreadable"}]
           /\ v.htf \in Rule!Labels /\ v.ob \in Rule!Zones /\ v.fvg \in Rule!Zones
           /\ v.obScore \in Rule!Percent /\ v.fvgScore \in Rule!Percent
           /\ v.location \in {"Premium", "Discount", "Equilibrium"}
           /\ v.sweep \in {"none", "swept", "stop hunt"}
           /\ v.killZone \in BOOLEAN /\ v.ote \in BOOLEAN
           /\ v.bias \in Rule!Zones /\ v.spike \in BOOLEAN /\ v.exhausted \in BOOLEAN
           /\ v.strength \in Rule!Percent /\ v.others \in Rule!Percent
           /\ v.atrRatio \in 0 .. 500 /\ v.match \in 0 .. 10
  BY DEF Rule!AllViews

\* The trend upside down points the other way, and is as strong.
LEMMA MirrorDirection ==
    ASSUME NEW v \in Rule!AllViews
    PROVE  /\ Rule!Direction(Rule!Mirror(v)) = Rule!MirrorSide(Rule!Direction(v))
           /\ Rule!Strong(Rule!Mirror(v)) <=> Rule!Strong(v)
<1>1. v.trend \in Rule!Trends /\ Rule!Mirror(v).trend = Rule!MirrorTrend[v.trend]
  BY ViewFields, MirrorFields
<1>2. \A t \in Rule!Trends : Rule!MirrorTrend[t] =
        CASE t = "strong bull" -> "strong bear" [] t = "bull" -> "bear"
          [] t = "bear" -> "bull" [] t = "strong bear" -> "strong bull" [] OTHER -> t
  BY DEF Rule!MirrorTrend
<1>3. \/ v.trend = "strong bull" /\ Rule!Mirror(v).trend = "strong bear"
      \/ v.trend = "bull" /\ Rule!Mirror(v).trend = "bear"
      \/ v.trend = "bear" /\ Rule!Mirror(v).trend = "bull"
      \/ v.trend = "strong bear" /\ Rule!Mirror(v).trend = "strong bull"
      \/ v.trend = "sideways" /\ Rule!Mirror(v).trend = "sideways"
  BY <1>1, <1>2 DEF Rule!Trends
<1>4. Rule!Direction(Rule!Mirror(v)) = Rule!MirrorSide(Rule!Direction(v))
  BY <1>3 DEF Rule!Direction, Rule!MirrorSide
<1>5. Rule!Strong(Rule!Mirror(v)) <=> Rule!Strong(v)
  BY <1>3 DEF Rule!Strong
<1> QED BY <1>4, <1>5

\* The same timeframes point the way of the mirrored side.
LEMMA MirrorPointing ==
    ASSUME NEW v \in Rule!AllViews
    PROVE  /\ Rule!Cascade(Rule!Mirror(v)) = Rule!Cascade(v)
           /\ \A d \in Rule!Sides :
                Rule!Pointing(Rule!Mirror(v), Rule!MirrorSide(d)) = Rule!Pointing(v, d)
<1> DEFINE m == Rule!Mirror(v)
<1>1. /\ m.entry = v.entry /\ m.above = [tf \in DOMAIN v.above |-> Rule!MirrorSide(v.above[tf])]
      /\ v.above \in [Rule!Higher -> Rule!Labels \cup {"unreadable"}]
  BY ViewFields, MirrorFields
<1> HIDE DEF m
<1>2. \A tf \in Rule!Higher : m.above[tf] = Rule!MirrorSide(v.above[tf])
  BY <1>1
<1>3. \A tf \in Rule!Higher : v.above[tf] \in {"BUY", "SELL", "NO TRADE", "unreadable"}
  BY <1>1 DEF Rule!Labels, Rule!Sides
<1>4. \A tf \in Rule!Higher : \A d \in Rule!Sides :
        /\ m.above[tf] = "unreadable" <=> v.above[tf] = "unreadable"
        /\ m.above[tf] = Rule!MirrorSide(d) <=> v.above[tf] = d
  BY <1>2, <1>3 DEF Rule!Sides, Rule!MirrorSide
<1>5. Rule!HigherTfs(m.entry) = Rule!HigherTfs(v.entry) /\ Rule!HigherTfs(v.entry) \subseteq Rule!Higher
  BY <1>1 DEF Rule!HigherTfs
<1>6. Rule!Cascade(m) = Rule!Cascade(v) /\ Rule!Cascade(v) \subseteq Rule!Higher
  BY <1>4, <1>5 DEF Rule!Cascade, Rule!Sides
<1>7. \A d \in Rule!Sides : Rule!Pointing(m, Rule!MirrorSide(d)) = Rule!Pointing(v, d)
  BY <1>4, <1>6 DEF Rule!Pointing
<1> QED BY <1>6, <1>7 DEF m

\* Every gate of evaluate lets the same views through on either side.
LEMMA MirrorGates ==
    ASSUME NEW v \in Rule!AllViews, ~(v.bullTrap /\ v.bearTrap)
    PROVE  LET m == Rule!Mirror(v) IN
           /\ Rule!Rejected(m) <=> Rule!Rejected(v)
           /\ Rule!TrappedDirection(m) = Rule!MirrorSide(Rule!TrappedDirection(v))
           /\ Rule!ObAligned(m) <=> Rule!ObAligned(v)
           /\ Rule!FvgAligned(m) <=> Rule!FvgAligned(v)
<1> DEFINE m == Rule!Mirror(v)
           d == Rule!Direction(v)
           e == Rule!Direction(m)
<1>1. d \in Rule!Labels /\ e = Rule!MirrorSide(d)
  BY MirrorDirection DEF Rule!Direction, Rule!Labels, Rule!Sides
<1>2. /\ v.choch \in Rule!Labels /\ v.ob \in Rule!Zones /\ v.fvg \in Rule!Zones
      /\ v.bullTrap \in BOOLEAN /\ v.bearTrap \in BOOLEAN
      /\ v.location \in {"Premium", "Discount", "Equilibrium"}
  BY ViewFields
<1>3. /\ m.choch = Rule!MirrorSide(v.choch) /\ m.bos = v.bos /\ m.regime = v.regime
      /\ m.bullTrap = v.bearTrap /\ m.bearTrap = v.bullTrap
      /\ m.ob = Rule!MirrorSide(v.ob) /\ m.fvg = Rule!MirrorSide(v.fvg)
      /\ m.location = Rule!MirrorLocation(v.location)
  BY MirrorFields
<1>4. /\ \A x \in Rule!Sides : Rule!Pointing(m, Rule!MirrorSide(x)) = Rule!Pointing(v, x)
  BY MirrorPointing
<1> HIDE DEF m
<1>5. Rule!TrappedDirection(m) = Rule!MirrorSide(Rule!TrappedDirection(v))
  BY <1>2, <1>3 DEF Rule!TrappedDirection, Rule!MirrorSide
<1>6. Rule!TrappedDirection(v) \in Rule!Zones
  BY DEF Rule!TrappedDirection, Rule!Zones, Rule!Sides
<1>7. Rule!ObAligned(m) <=> Rule!ObAligned(v)
  <2>1. m.ob = e <=> v.ob = d
    <3> HIDE DEF d, e
    <3> QED BY <1>1, <1>2, <1>3 DEF Rule!MirrorSide, Rule!Zones, Rule!Labels, Rule!Sides
  <2> QED BY <2>1 DEF Rule!ObAligned
<1>8. Rule!FvgAligned(m) <=> Rule!FvgAligned(v)
  <2>1. m.fvg = e <=> v.fvg = d
    <3> HIDE DEF d, e
    <3> QED BY <1>1, <1>2, <1>3 DEF Rule!MirrorSide, Rule!Zones, Rule!Labels, Rule!Sides
  <2> QED BY <2>1 DEF Rule!FvgAligned
<1>9. d \in Rule!Sides => (Rule!Conflicts(m, e) <=> Rule!Conflicts(v, d))
  <2> SUFFICES ASSUME d \in Rule!Sides PROVE Rule!Conflicts(m, e) <=> Rule!Conflicts(v, d)
    OBVIOUS
  <2>1. /\ Rule!Against(d) \in Rule!Sides /\ Rule!Against(e) = Rule!MirrorSide(Rule!Against(d))
    <3> HIDE DEF d, e
    <3> QED BY <1>1 DEF Rule!Against, Rule!MirrorSide, Rule!Sides
  <2>2. Rule!Pointing(m, Rule!Against(e)) = Rule!Pointing(v, Rule!Against(d))
    BY <1>4, <2>1
  <2>3. Rule!Cardinality(Rule!Pointing(m, Rule!Against(e)))
          = Rule!Cardinality(Rule!Pointing(v, Rule!Against(d)))
    BY <2>2
  <2> QED BY <2>3 DEF Rule!Conflicts
<1>10. Rule!WrongHalf(m, e) <=> Rule!WrongHalf(v, d)
  <2> HIDE DEF d, e
  <2> QED BY <1>1, <1>2, <1>3 DEF Rule!WrongHalf, Rule!MirrorSide, Rule!MirrorLocation, Rule!Labels, Rule!Sides
<1>11. /\ e = "NO TRADE" <=> d = "NO TRADE"
       /\ m.choch = "NO TRADE" <=> v.choch = "NO TRADE"
       /\ Rule!TrappedDirection(m) = e <=> Rule!TrappedDirection(v) = d
  <2> HIDE DEF d, e
  <2> QED BY <1>1, <1>2, <1>3, <1>5, <1>6 DEF Rule!MirrorSide, Rule!Labels, Rule!Zones, Rule!Sides
<1>12. d \notin Rule!Sides => d = "NO TRADE"
  BY DEF Rule!Direction, Rule!Sides
<1>13. Rule!Rejected(m) <=> Rule!Rejected(v)
  <2>1. /\ m.ob # e <=> v.ob # d
        /\ m.fvg # e <=> v.fvg # d
    BY <1>7, <1>8 DEF Rule!ObAligned, Rule!FvgAligned
  <2>2. Rule!Rejected(v) <=>
          \/ v.regime = "chop"
          \/ Rule!TrappedDirection(v) = d
          \/ d = "NO TRADE"
          \/ Rule!Conflicts(v, d)
          \/ ~v.bos /\ v.choch = "NO TRADE"
          \/ v.ob # d /\ v.fvg # d
          \/ Rule!WrongHalf(v, d)
    BY DEF Rule!Rejected
  <2>3. Rule!Rejected(m) <=>
          \/ m.regime = "chop"
          \/ Rule!TrappedDirection(m) = e
          \/ e = "NO TRADE"
          \/ Rule!Conflicts(m, e)
          \/ ~m.bos /\ m.choch = "NO TRADE"
          \/ m.ob # e /\ m.fvg # e
          \/ Rule!WrongHalf(m, e)
    BY DEF Rule!Rejected
  <2> HIDE DEF d, e
  <2> QED BY <1>3, <1>9, <1>10, <1>11, <1>12, <2>1, <2>2, <2>3
<1> QED BY <1>5, <1>7, <1>8, <1>13 DEF m

\* The scores do not know the side, where the evidence takes one.
LEMMA MirrorScores ==
    ASSUME NEW v \in Rule!AllViews, ~(v.bullTrap /\ v.bearTrap),
           v.bias # "none", v.htf # "NO TRADE", Rule!Direction(v) \in Rule!Sides
    PROVE  /\ Rule!Matched(Rule!Mirror(v)) = Rule!Matched(v)
           /\ Rule!Confidence(Rule!Mirror(v)) = Rule!Confidence(v)
<1> DEFINE m == Rule!Mirror(v)
           d == Rule!Direction(v)
           e == Rule!Direction(m)
<1>1. /\ d \in Rule!Sides /\ e \in Rule!Sides /\ e = Rule!MirrorSide(d)
      /\ Rule!Strong(m) <=> Rule!Strong(v)
  <2>1. e = Rule!MirrorSide(d) /\ (Rule!Strong(m) <=> Rule!Strong(v))
    BY MirrorDirection
  <2>2. Rule!MirrorSide(d) \in Rule!Sides
    BY DEF Rule!MirrorSide, Rule!Sides
  <2> QED BY <2>1, <2>2
<1>2. /\ v.htf \in Rule!Labels /\ v.bias \in Rule!Zones
  BY ViewFields
<1>3. /\ m.htf = Rule!MirrorSide(v.htf) /\ m.bias = Rule!MirrorSide(v.bias)
      /\ m.obScore = v.obScore /\ m.fvgScore = v.fvgScore /\ m.sweep = v.sweep
      /\ m.killZone = v.killZone /\ m.ote = v.ote /\ m.spike = v.spike
      /\ m.exhausted = v.exhausted /\ m.strength = v.strength /\ m.others = v.others
      /\ m.atrRatio = v.atrRatio /\ m.match = v.match
  BY MirrorFields
<1>4. /\ Rule!TrappedDirection(m) = Rule!MirrorSide(Rule!TrappedDirection(v))
      /\ Rule!ObAligned(m) <=> Rule!ObAligned(v)
      /\ Rule!FvgAligned(m) <=> Rule!FvgAligned(v)
  BY MirrorGates
<1>5. Rule!Cascade(m) = Rule!Cascade(v) /\ Rule!Pointing(m, e) = Rule!Pointing(v, d)
  BY <1>1, MirrorPointing
<1>6. Rule!TrappedDirection(v) \in Rule!Zones
  BY DEF Rule!TrappedDirection, Rule!Zones, Rule!Sides
<1> HIDE DEF m
<1>7. /\ Rule!VolumeAgrees(m) <=> Rule!VolumeAgrees(v)
      /\ Rule!HtfAgrees(m) <=> Rule!HtfAgrees(v)
      /\ m.bias # "none" /\ v.bias # "none"
  <2>1. /\ m.bias = "BUY" <=> v.bias # "BUY"
        /\ m.htf = "BUY" <=> v.htf # "BUY"
        /\ e = "BUY" <=> d # "BUY"
        /\ m.bias # "none"
    <3> HIDE DEF d, e
    <3> QED BY <1>1, <1>2, <1>3 DEF Rule!MirrorSide, Rule!Zones, Rule!Labels, Rule!Sides
  <2> QED BY <2>1 DEF Rule!VolumeAgrees, Rule!HtfAgrees
<1>8. (Rule!TrappedDirection(m) \notin {"none", e}) <=> (Rule!TrappedDirection(v) \notin {"none", d})
  <2> HIDE DEF d, e
  <2> QED BY <1>1, <1>4, <1>6 DEF Rule!MirrorSide, Rule!Zones, Rule!Sides
<1>9. Rule!Zone(m) = Rule!Zone(v)
  BY <1>3, <1>4 DEF Rule!Zone, Rule!Award
<1>10. Rule!Matched(m) = Rule!Matched(v)
  <2>1. Rule!Confluence(m) = Rule!Confluence(v)
    BY <1>1, <1>3, <1>9 DEF Rule!Confluence
  <2> QED BY <1>3, <2>1 DEF Rule!Matched
<1>11. Rule!VolumePoints(m) = Rule!VolumePoints(v)
  BY <1>3, <1>7 DEF Rule!VolumePoints, Rule!Award
<1>12. Rule!CascadePoints(m) = Rule!CascadePoints(v)
  <2>1. /\ Rule!Cardinality(Rule!Pointing(m, e)) = Rule!Cardinality(Rule!Pointing(v, d))
        /\ Rule!Cardinality(Rule!Cascade(m)) = Rule!Cardinality(Rule!Cascade(v))
    BY <1>5
  <2> QED BY <1>5, <2>1 DEF Rule!CascadePoints
<1>13. Rule!Confidence(m) = Rule!Confidence(v)
  <2>1. /\ Rule!Award(m.sweep # "none", 8) = Rule!Award(v.sweep # "none", 8)
        /\ Rule!Award(Rule!ObAligned(m) /\ Rule!FvgAligned(m), 6)
             = Rule!Award(Rule!ObAligned(v) /\ Rule!FvgAligned(v), 6)
        /\ Rule!Award(Rule!Strong(m), 6) = Rule!Award(Rule!Strong(v), 6)
        /\ Rule!Award(m.killZone, 4) = Rule!Award(v.killZone, 4)
        /\ Rule!Award(m.ote, 4) = Rule!Award(v.ote, 4)
        /\ Rule!Award(Rule!HtfAgrees(m), 5) = Rule!Award(Rule!HtfAgrees(v), 5)
        /\ Rule!Award(m.sweep = "stop hunt", 5) = Rule!Award(v.sweep = "stop hunt", 5)
        /\ Rule!Award(Rule!TrappedDirection(m) \notin {"none", e}, 4)
             = Rule!Award(Rule!TrappedDirection(v) \notin {"none", d}, 4)
    BY <1>1, <1>3, <1>4, <1>7, <1>8 DEF Rule!Award
  <2> QED BY <1>3, <1>10, <1>11, <1>12, <2>1 DEF Rule!Confidence
<1> QED BY <1>10, <1>13 DEF m

\* The rest of the decision.
LEMMA SameDecision ==
    ASSUME NEW v, NEW m, Rule!Rejected(m) <=> Rule!Rejected(v),
           Rule!Direction(m) = Rule!MirrorSide(Rule!Direction(v)),
           ~Rule!Rejected(v) => /\ Rule!Matched(m) = Rule!Matched(v)
                                /\ Rule!Confidence(m) = Rule!Confidence(v)
    PROVE  /\ Rule!Decide(m).direction = Rule!MirrorSide(Rule!Decide(v).direction)
           /\ Rule!Decide(m).confidence = Rule!Decide(v).confidence
<1>1. /\ Rule!NoTrade.direction = "NO TRADE"
      /\ Rule!MirrorSide(Rule!NoTrade.direction) = Rule!NoTrade.direction
  BY DEF Rule!MirrorSide, Rule!NoTrade
<1>2. CASE Rule!Decide(v) = Rule!NoTrade /\ Rule!Decide(m) = Rule!NoTrade
  BY <1>1, <1>2
<1>3. CASE /\ Rule!Decide(m) = [direction |-> Rule!MirrorSide(Rule!Direction(v)),
                                confidence |-> Rule!Confidence(v)]
           /\ Rule!Decide(v) = [direction |-> Rule!Direction(v), confidence |-> Rule!Confidence(v)]
  <2>1. PICK x, n : x = Rule!Direction(v) /\ n = Rule!Confidence(v)
    OBVIOUS
  <2>2. Rule!Decide(v) = [direction |-> x, confidence |-> n]
    BY <1>3, <2>1
  <2>3. Rule!Decide(m) = [direction |-> Rule!MirrorSide(x), confidence |-> n]
    BY <1>3, <2>1
  <2>4. Rule!Decide(v).direction = x /\ Rule!Decide(v).confidence = n
    BY <2>2
  <2>5. Rule!Decide(m).direction = Rule!MirrorSide(x) /\ Rule!Decide(m).confidence = n
    BY <2>3
  <2> QED BY <2>4, <2>5
<1> QED BY <1>2, <1>3 DEF Rule!Decide

(* For every view the engines may have and every threshold: the chart      *)
(* upside down gives the opposite decision with the same confidence,       *)
(* wherever the evidence takes a side.                                     *)
THEOREM ShortsMirrorLongsHolds == Rule!Spec => []ShortsMirrorLongs
<1>1. ASSUME NEW v \in Views, v.bias # "none", v.htf # "NO TRADE",
             ~(v.bullTrap /\ v.bearTrap)
      PROVE  /\ Rule!Decide(Rule!Mirror(v)).direction = Rule!MirrorSide(Rule!Decide(v).direction)
             /\ Rule!Decide(Rule!Mirror(v)).confidence = Rule!Decide(v).confidence
  <2>1. v \in Rule!AllViews
    BY SignalAssumption DEF Rule!ViewsAssumption
  <2>2. Rule!Rejected(Rule!Mirror(v)) <=> Rule!Rejected(v)
    BY <1>1, <2>1, MirrorGates
  <2>3. Rule!Direction(Rule!Mirror(v)) = Rule!MirrorSide(Rule!Direction(v))
    BY <2>1, MirrorDirection
  <2>4. Rule!Direction(v) \notin Rule!Sides => Rule!Rejected(v)
    BY DEF Rule!Direction, Rule!Sides, Rule!Rejected
  <2>5. ~Rule!Rejected(v) => /\ Rule!Matched(Rule!Mirror(v)) = Rule!Matched(v)
                             /\ Rule!Confidence(Rule!Mirror(v)) = Rule!Confidence(v)
    BY <1>1, <2>1, <2>4, MirrorScores
  <2> QED BY <2>2, <2>3, <2>5, SameDecision, Zenon
<1>2. RuleInv => ShortsMirrorLongs
  BY <1>1 DEF RuleInv, ShortsMirrorLongs, Rule!ShortsMirrorLongs, Rule!Decided
<1> QED BY <1>2, RuleInvHolds, PTL

-----------------------------------------------------------------------------
(* One more confirmation *)

\* Python's rounding keeps the order of quotients.
LEMMA RoundedMono ==
    ASSUME NEW a \in Int, NEW b \in Int, NEW d \in Nat \ {0}, a <= b
    PROVE  /\ Rule!Rounded(a, d) \in Int /\ Rule!Rounded(b, d) \in Int
           /\ Rule!Rounded(a, d) <= Rule!Rounded(b, d)
<1> DEFINE p == a \div d
           q == b \div d
           r == a % d
           s == b % d
<1>1. /\ p \in Int /\ q \in Int /\ r \in 0 .. d - 1 /\ s \in 0 .. d - 1
      /\ a = d * p + r /\ b = d * q + s
  OBVIOUS
<1>2. /\ Rule!Rounded(a, d) = IF 2 * r > d \/ (2 * r = d /\ p % 2 = 1) THEN p + 1 ELSE p
      /\ Rule!Rounded(b, d) = IF 2 * s > d \/ (2 * s = d /\ q % 2 = 1) THEN q + 1 ELSE q
  BY DEF Rule!Rounded
<1> HIDE DEF p, q, r, s
<1>3. p <= q
  <2> SUFFICES ASSUME p >= q + 1 PROVE FALSE
    BY <1>1
  <2>1. d * p >= d * (q + 1)
    BY <1>1
  <2>2. d * (q + 1) = d * q + d
    BY <1>1
  <2>3. d * p \in Int /\ d * q \in Int
    BY <1>1
  <2> QED BY <1>1, <2>1, <2>2, <2>3
<1>4. p = q => r <= s
  BY <1>1
<1>5. Rule!Rounded(a, d) \in {p, p + 1} /\ Rule!Rounded(b, d) \in {q, q + 1}
  BY <1>2
<1>6. CASE p = q
  BY <1>1, <1>2, <1>4, <1>6
<1>7. CASE p < q
  BY <1>1, <1>5, <1>7
<1> QED BY <1>1, <1>3, <1>5, <1>6, <1>7

\* So do the scores cut to 0 .. 100, and the factor of the volatility.
LEMMA ClampMono ==
    ASSUME NEW a \in Int, NEW b \in Int, a <= b
    PROVE  /\ Rule!Clamp(a) \in Rule!Percent /\ Rule!Clamp(b) \in Rule!Percent
           /\ Rule!Clamp(a) <= Rule!Clamp(b)
  BY DEF Rule!Clamp, Rule!Percent

\* The volatility factor is a fraction.
LEMMA VolFactorType ==
    ASSUME NEW n \in 0 .. 500
    PROVE  Rule!VolFactor(n).n \in Int /\ Rule!VolFactor(n).d \in Nat \ {0}
<1>1. CASE n = 0
  BY <1>1 DEF Rule!VolFactor
<1>2. CASE n \in 1 .. 79
  <2>1. Rule!VolFactor(n) = [n |-> Rule!Larger(160, 5 * n), d |-> 4]
    BY <1>2 DEF Rule!VolFactor
  <2> QED BY <2>1 DEF Rule!Larger
<1>3. CASE n \in 80 .. 150
  BY <1>3 DEF Rule!VolFactor
<1>4. CASE n > 150
  <2>1. Rule!VolFactor(n) = [n |-> Rule!Larger(40 * n, 15000), d |-> n]
    BY <1>4 DEF Rule!VolFactor
  <2>2. Rule!VolFactor(n).n = Rule!Larger(40 * n, 15000) /\ Rule!VolFactor(n).d = n
    BY <2>1
  <2> QED BY <1>4, <2>2 DEF Rule!Larger
<1> QED BY <1>1, <1>2, <1>3, <1>4

\* w sees what v sees, and perhaps one confirmation more.
Confirms(v, w) ==
    /\ w.trend = v.trend /\ w.bos = v.bos /\ w.choch = v.choch /\ w.regime = v.regime
    /\ w.bullTrap = v.bullTrap /\ w.bearTrap = v.bearTrap /\ w.entry = v.entry
    /\ w.above = v.above /\ w.htf = v.htf /\ w.location = v.location
    /\ w.obScore = v.obScore /\ w.fvgScore = v.fvgScore /\ w.bias = v.bias
    /\ w.spike = v.spike /\ w.exhausted = v.exhausted /\ w.strength = v.strength
    /\ w.others = v.others /\ w.atrRatio = v.atrRatio /\ w.match = v.match
    /\ v.killZone => w.killZone
    /\ v.ote => w.ote
    /\ v.sweep # "none" => w.sweep # "none"
    /\ v.sweep = "stop hunt" => w.sweep = "stop hunt"
    /\ w.ob = v.ob \/ v.ob = "none"
    /\ w.fvg = v.fvg \/ v.fvg = "none"

\* Each of the five further confirmations is one that Confirms describes.
LEMMA StrongerConfirms ==
    ASSUME NEW v \in Rule!AllViews, NEW w \in Rule!Stronger(v)
    PROVE  Confirms(v, w)
<1>1. CASE w = [v EXCEPT !.killZone = TRUE]
  BY <1>1 DEF Confirms, Rule!AllViews
<1>2. CASE w = [v EXCEPT !.ote = TRUE]
  BY <1>2 DEF Confirms, Rule!AllViews
<1>3. CASE w = [v EXCEPT !.sweep = IF @ = "none" THEN "swept" ELSE "stop hunt"]
  BY <1>3 DEF Confirms, Rule!AllViews
<1>4. CASE v.ob = "none" /\ w = [v EXCEPT !.ob = Rule!Direction(v)]
  BY <1>4 DEF Confirms, Rule!AllViews
<1>5. CASE v.fvg = "none" /\ w = [v EXCEPT !.fvg = Rule!Direction(v)]
  BY <1>5 DEF Confirms, Rule!AllViews
<1> QED BY <1>1, <1>2, <1>3, <1>4, <1>5 DEF Rule!Stronger

\* What no confirmation changes, and what it can only add to.
LEMMA ConfirmedGates ==
    ASSUME NEW v \in Rule!AllViews, NEW w, Confirms(v, w), Rule!Direction(v) \in Rule!Sides
    PROVE  /\ Rule!Direction(w) = Rule!Direction(v)
           /\ Rule!ObAligned(v) => Rule!ObAligned(w)
           /\ Rule!FvgAligned(v) => Rule!FvgAligned(w)
           /\ Rule!Rejected(w) => Rule!Rejected(v)
           /\ Rule!TrappedDirection(w) = Rule!TrappedDirection(v)
           /\ Rule!Strong(w) <=> Rule!Strong(v)
           /\ Rule!HtfAgrees(w) <=> Rule!HtfAgrees(v)
           /\ Rule!VolumePoints(w) = Rule!VolumePoints(v)
           /\ Rule!CascadePoints(w) = Rule!CascadePoints(v)
<1>1. /\ Rule!Direction(w) = Rule!Direction(v)
      /\ Rule!TrappedDirection(w) = Rule!TrappedDirection(v)
      /\ Rule!Strong(w) <=> Rule!Strong(v)
  BY DEF Confirms, Rule!Direction, Rule!TrappedDirection, Rule!Strong
<1>2. Rule!Cascade(w) = Rule!Cascade(v)
  BY DEF Confirms, Rule!Cascade
<1>3. \A x : Rule!Pointing(w, x) = Rule!Pointing(v, x)
  BY <1>2 DEF Confirms, Rule!Pointing
<1>4. /\ Rule!ObAligned(v) => Rule!ObAligned(w)
      /\ Rule!FvgAligned(v) => Rule!FvgAligned(w)
  <2>1. "none" \notin Rule!Sides
    BY DEF Rule!Sides
  <2> QED BY <1>1, <2>1 DEF Confirms, Rule!ObAligned, Rule!FvgAligned
<1>5. \A x : Rule!Conflicts(w, x) <=> Rule!Conflicts(v, x)
  <2> SUFFICES ASSUME NEW x PROVE Rule!Conflicts(w, x) <=> Rule!Conflicts(v, x)
    OBVIOUS
  <2>1. Rule!Cardinality(Rule!Pointing(w, Rule!Against(x)))
          = Rule!Cardinality(Rule!Pointing(v, Rule!Against(x)))
    BY <1>3
  <2> QED BY <2>1 DEF Rule!Conflicts
<1>6. Rule!Rejected(w) => Rule!Rejected(v)
  BY <1>1, <1>4, <1>5 DEF Rule!Rejected, Rule!WrongHalf, Confirms, Rule!ObAligned, Rule!FvgAligned
<1>7. /\ Rule!HtfAgrees(w) <=> Rule!HtfAgrees(v)
      /\ Rule!VolumePoints(w) = Rule!VolumePoints(v)
  BY <1>1 DEF Confirms, Rule!HtfAgrees, Rule!VolumePoints, Rule!VolumeAgrees, Rule!Award
<1>8. Rule!CascadePoints(w) = Rule!CascadePoints(v)
  <2>1. /\ Rule!Pointing(w, Rule!Direction(w)) = Rule!Pointing(v, Rule!Direction(v))
    BY <1>1, <1>3
  <2>2. Rule!Cardinality(Rule!Pointing(w, Rule!Direction(w)))
          = Rule!Cardinality(Rule!Pointing(v, Rule!Direction(v)))
    BY <2>1
  <2>3. Rule!Cardinality(Rule!Cascade(w)) = Rule!Cardinality(Rule!Cascade(v))
    BY <1>2
  <2> QED BY <1>2, <2>2, <2>3 DEF Rule!CascadePoints
<1> QED BY <1>1, <1>4, <1>6, <1>7, <1>8

\* The share of agreeing timeframes, rounded, is a number of points.
LEMMA CascadePointsType ==
    ASSUME NEW v \in Rule!AllViews
    PROVE  Rule!CascadePoints(v) \in Int
<1> DEFINE C == Rule!Cascade(v)
           P == Rule!Pointing(v, Rule!Direction(v))
<1>1. C \subseteq Rule!Higher /\ P \subseteq Rule!Higher
  BY DEF Rule!Cascade, Rule!HigherTfs, Rule!Pointing
<1>2. IsFiniteSet(Rule!Higher)
  <2>1. IsFiniteSet({"D1"}) /\ IsFiniteSet({"H4"}) /\ IsFiniteSet({"H1"})
    BY FS_Singleton
  <2>2. IsFiniteSet({"D1"} \cup {"H4"})
    BY <2>1, FS_Union
  <2>3. IsFiniteSet(({"D1"} \cup {"H4"}) \cup {"H1"})
    BY <2>1, <2>2, FS_Union
  <2>4. Rule!Higher = ({"D1"} \cup {"H4"}) \cup {"H1"}
    BY DEF Rule!Higher
  <2> QED BY <2>3, <2>4
<1>3. IsFiniteSet(C) /\ IsFiniteSet(P)
  BY <1>1, <1>2, FS_Subset
<1>4. /\ Rule!Cardinality(C) = Cardinality(C) /\ Rule!Cardinality(P) = Cardinality(P)
  BY DEF Rule!Cardinality, Cardinality
<1>5. Cardinality(C) \in Nat /\ Cardinality(P) \in Nat /\ (C # {} => Cardinality(C) # 0)
  BY <1>3, FS_CardinalityType, FS_EmptySet
<1> HIDE DEF C, P
<1>6. C # {} => Rule!Rounded(8 * Cardinality(P), Cardinality(C)) \in Int
  BY <1>5, RoundedMono
<1>7. Rule!CascadePoints(v) = IF C = {} THEN 0 ELSE Rule!Rounded(8 * Cardinality(P), Cardinality(C))
  BY <1>4 DEF Rule!CascadePoints, C, P
<1> QED BY <1>6, <1>7

\* The scores in a view are percentages.
LEMMA ViewNumbers ==
    ASSUME NEW v \in Rule!AllViews
    PROVE  /\ v.obScore \in Int /\ 0 <= v.obScore /\ v.obScore <= 100
           /\ v.fvgScore \in Int /\ 0 <= v.fvgScore /\ v.fvgScore <= 100
           /\ v.strength \in Int /\ v.others \in Int /\ v.match \in Int
<1>1. /\ v.obScore \in Rule!Percent /\ v.fvgScore \in Rule!Percent
      /\ v.strength \in Rule!Percent /\ v.others \in Rule!Percent /\ v.match \in 0 .. 10
  BY ViewFields
<1>2. \A n \in Rule!Percent : n \in Int /\ 0 <= n /\ n <= 100
  BY DEF Rule!Percent
<1>3. v.match \in Int
  BY <1>1
<1> QED BY <1>1, <1>2, <1>3

\* The zone's score only grows, and is one of 0 .. 100.
LEMMA ConfirmedZone ==
    ASSUME NEW v \in Rule!AllViews, NEW w, Confirms(v, w), Rule!Direction(v) \in Rule!Sides
    PROVE  /\ Rule!Zone(v) \in Rule!Percent /\ Rule!Zone(w) \in Rule!Percent
           /\ Rule!Zone(v) <= Rule!Zone(w)
<1>1. /\ Rule!ObAligned(v) => Rule!ObAligned(w)
      /\ Rule!FvgAligned(v) => Rule!FvgAligned(w)
  BY ConfirmedGates
<1>2. /\ w.obScore = v.obScore /\ w.fvgScore = v.fvgScore
  BY DEF Confirms
<1>3. PICK o, f : o = v.obScore /\ f = v.fvgScore
  OBVIOUS
<1>4. o \in Int /\ f \in Int /\ 0 <= o /\ o <= 100 /\ 0 <= f /\ f <= 100
  BY <1>3, ViewNumbers
<1>5. \A x \in {v, w} :
        /\ Rule!ObAligned(x) /\ Rule!FvgAligned(x) => Rule!Zone(x) = Rule!Clamp(Rule!Larger(o, f) + 10)
        /\ Rule!ObAligned(x) /\ ~Rule!FvgAligned(x) => Rule!Zone(x) = Rule!Larger(o, 0)
        /\ ~Rule!ObAligned(x) /\ Rule!FvgAligned(x) => Rule!Zone(x) = Rule!Larger(0, f)
        /\ ~Rule!ObAligned(x) /\ ~Rule!FvgAligned(x) => Rule!Zone(x) = Rule!Larger(0, 0)
  BY <1>2, <1>3 DEF Rule!Zone, Rule!Award
<1>6. /\ Rule!Clamp(Rule!Larger(o, f) + 10) \in Rule!Percent
      /\ Rule!Larger(o, 0) \in Rule!Percent /\ Rule!Larger(0, f) \in Rule!Percent
      /\ Rule!Larger(0, 0) \in Rule!Percent
  BY <1>4 DEF Rule!Larger, Rule!Clamp, Rule!Percent
<1>7. /\ Rule!Larger(0, 0) <= Rule!Larger(o, 0) /\ Rule!Larger(0, 0) <= Rule!Larger(0, f)
      /\ Rule!Larger(0, 0) <= Rule!Clamp(Rule!Larger(o, f) + 10)
      /\ Rule!Larger(o, 0) <= Rule!Clamp(Rule!Larger(o, f) + 10)
      /\ Rule!Larger(0, f) <= Rule!Clamp(Rule!Larger(o, f) + 10)
  BY <1>4 DEF Rule!Larger, Rule!Clamp
<1>8. Rule!Zone(v) \in Rule!Percent /\ Rule!Zone(w) \in Rule!Percent
  BY <1>5, <1>6
<1>9. Rule!Zone(v) <= Rule!Zone(w)
  <2>1. Rule!Zone(v) = Rule!Zone(w) => Rule!Zone(v) <= Rule!Zone(w)
    BY <1>8 DEF Rule!Percent
  <2> QED BY <1>1, <1>5, <1>7, <2>1
<1> QED BY <1>8, <1>9

\* The score that is held against the minimum does not fall.
LEMMA ConfirmedMatch ==
    ASSUME NEW v \in Rule!AllViews, NEW w, Confirms(v, w), Rule!Direction(v) \in Rule!Sides
    PROVE  /\ Rule!Matched(v) \in Rule!Percent /\ Rule!Matched(w) \in Rule!Percent
           /\ Rule!Matched(v) <= Rule!Matched(w)
<1>1. PICK vol : vol = Rule!VolFactor(v.atrRatio)
  OBVIOUS
<1>2. vol.n \in Int /\ vol.d \in Nat \ {0}
  BY <1>1, ViewFields, VolFactorType
<1>3. PICK n, d : n = vol.n /\ d = vol.d
  OBVIOUS
<1>4. PICK trend : trend = IF Rule!Strong(v) THEN 100
                           ELSE IF Rule!Direction(v) \in Rule!Sides THEN 70 ELSE 30
  OBVIOUS
<1>5. PICK s : s = IF v.killZone THEN 100 ELSE 40
  OBVIOUS
<1>6. PICK t : t = IF w.killZone THEN 100 ELSE 40
  OBVIOUS
<1>7. /\ Rule!Strong(w) <=> Rule!Strong(v)
      /\ Rule!Direction(w) = Rule!Direction(v)
  BY ConfirmedGates
<1>8. /\ w.strength = v.strength /\ w.others = v.others /\ w.atrRatio = v.atrRatio
      /\ w.match = v.match /\ (v.killZone => w.killZone)
  BY DEF Confirms
<1>9. s \in Int /\ t \in Int /\ s <= t /\ trend \in Int
  BY <1>4, <1>5, <1>6, <1>8
<1>10. /\ v.strength \in Int /\ v.others \in Int /\ v.match \in Int
  BY ViewNumbers
<1>11. PICK x, y, z : x = v.strength /\ y = v.others /\ z = v.match
  OBVIOUS
<1>12. PICK b, c : b = Rule!Zone(v) /\ c = Rule!Zone(w)
  OBVIOUS
<1>13. b \in Int /\ c \in Int /\ b <= c
  BY <1>12, ConfirmedZone DEF Rule!Percent
<1> DEFINE sum(zone, session) == 25 * x + 15 * y + 25 * zone + 15 * y + 10 * trend + 5 * session
<1>14. /\ Rule!Confluence(v) = Rule!Clamp(Rule!Rounded(d * sum(b, s) + 5 * n, 100 * d))
       /\ Rule!Confluence(w) = Rule!Clamp(Rule!Rounded(d * sum(c, t) + 5 * n, 100 * d))
  BY <1>1, <1>3, <1>4, <1>5, <1>6, <1>7, <1>8, <1>11, <1>12 DEF Rule!Confluence
<1>15. /\ sum(b, s) \in Int /\ sum(c, t) \in Int /\ sum(b, s) <= sum(c, t)
  BY <1>9, <1>10, <1>11, <1>13
<1> HIDE DEF sum
<1>16. PICK p, q : p = d * sum(b, s) /\ q = d * sum(c, t)
  OBVIOUS
<1>17. p \in Int /\ q \in Int /\ p <= q
  <2>1. \A i, j \in Int, k \in Nat : i <= j => k * i \in Int /\ k * j \in Int /\ k * i <= k * j
    OBVIOUS
  <2> QED BY <1>2, <1>3, <1>15, <1>16, <2>1
<1>18. /\ Rule!Rounded(p + 5 * n, 100 * d) \in Int /\ Rule!Rounded(q + 5 * n, 100 * d) \in Int
       /\ Rule!Rounded(p + 5 * n, 100 * d) <= Rule!Rounded(q + 5 * n, 100 * d)
  <2>1. /\ p + 5 * n \in Int /\ q + 5 * n \in Int /\ p + 5 * n <= q + 5 * n /\ 100 * d \in Nat \ {0}
    BY <1>2, <1>3, <1>17
  <2> QED BY <2>1, RoundedMono
<1>19. /\ Rule!Confluence(v) \in Rule!Percent /\ Rule!Confluence(w) \in Rule!Percent
       /\ Rule!Confluence(v) <= Rule!Confluence(w)
  BY <1>14, <1>16, <1>18, ClampMono
<1>20. /\ Rule!Confluence(v) + z \in Int /\ Rule!Confluence(w) + z \in Int
       /\ Rule!Confluence(v) + z <= Rule!Confluence(w) + z
  BY <1>10, <1>11, <1>19 DEF Rule!Percent
<1>21. Rule!Matched(v) = Rule!Clamp(Rule!Confluence(v) + z)
       /\ Rule!Matched(w) = Rule!Clamp(Rule!Confluence(w) + z)
  BY <1>8, <1>11 DEF Rule!Matched
<1> QED BY <1>20, <1>21, ClampMono

\* Nor does the confidence, a sum of bonuses that is clamped.
LEMMA ConfirmedConfidence ==
    ASSUME NEW v \in Rule!AllViews, NEW w, Confirms(v, w), Rule!Direction(v) \in Rule!Sides
    PROVE  /\ Rule!Confidence(v) \in Rule!Percent
           /\ Rule!Confidence(w) \in Rule!Percent
           /\ Rule!Confidence(v) <= Rule!Confidence(w)
<1>1. PICK a, b : a = Rule!Matched(v) /\ b = Rule!Matched(w)
  OBVIOUS
<1>2. a \in Int /\ b \in Int /\ a <= b
  BY <1>1, ConfirmedMatch DEF Rule!Percent
<1>3. PICK s : s = v.strength
  OBVIOUS
<1>4. s \in Int /\ w.strength = s
  BY <1>3, ViewNumbers DEF Confirms
<1>5. PICK c, p : c = Rule!CascadePoints(v) /\ p = Rule!VolumePoints(v)
  OBVIOUS
<1>6. /\ c \in Int /\ p \in Int /\ Rule!CascadePoints(w) = c /\ Rule!VolumePoints(w) = p
  <2>1. Rule!VolumePoints(v) \in Int
    BY DEF Rule!VolumePoints, Rule!Award
  <2> QED BY <1>5, <2>1, CascadePointsType, ConfirmedGates
<1> DEFINE swept(x) == Rule!Award(x.sweep # "none", 8)
           two(x) == Rule!Award(Rule!ObAligned(x) /\ Rule!FvgAligned(x), 6)
           strong(x) == Rule!Award(Rule!Strong(x), 6)
           zone(x) == Rule!Award(x.killZone, 4)
           ote(x) == Rule!Award(x.ote, 4)
           htf(x) == Rule!Award(Rule!HtfAgrees(x), 5)
           hunt(x) == Rule!Award(x.sweep = "stop hunt", 5)
           trap(x) == Rule!Award(Rule!TrappedDirection(x) \notin {"none", Rule!Direction(x)}, 4)
           extras(x) == swept(x) + two(x) + strong(x) + zone(x) + ote(x) + htf(x)
                        + Rule!CascadePoints(x) + Rule!VolumePoints(x) + hunt(x) + trap(x)
<1>7. \A x \in {v, w} : /\ swept(x) \in Int /\ two(x) \in Int /\ strong(x) \in Int /\ zone(x) \in Int
                        /\ ote(x) \in Int /\ htf(x) \in Int /\ hunt(x) \in Int /\ trap(x) \in Int
  BY DEF Rule!Award
<1>8. /\ strong(w) = strong(v) /\ htf(w) = htf(v) /\ trap(w) = trap(v)
  <2>1. /\ Rule!Strong(w) <=> Rule!Strong(v)
        /\ Rule!HtfAgrees(w) <=> Rule!HtfAgrees(v)
        /\ Rule!TrappedDirection(w) = Rule!TrappedDirection(v)
        /\ Rule!Direction(w) = Rule!Direction(v)
    BY ConfirmedGates
  <2> QED BY <2>1 DEF Rule!Award
<1>9. /\ swept(v) <= swept(w) /\ zone(v) <= zone(w) /\ ote(v) <= ote(w) /\ hunt(v) <= hunt(w)
  <2>1. /\ v.killZone => w.killZone
        /\ v.ote => w.ote
        /\ v.sweep # "none" => w.sweep # "none"
        /\ v.sweep = "stop hunt" => w.sweep = "stop hunt"
    BY DEF Confirms
  <2>2. swept(v) <= swept(w)
    <3>1. CASE v.sweep # "none"
      <4>1. swept(v) = 8 /\ swept(w) = 8
        BY <2>1, <3>1, Zenon DEF Rule!Award
      <4> HIDE DEF swept
      <4> QED BY <4>1
    <3>2. CASE ~(v.sweep # "none")
      <4>1. swept(v) = 0 /\ swept(w) \in {0, 8}
        BY <3>2, Zenon DEF Rule!Award
      <4> HIDE DEF swept
      <4> QED BY <4>1
    <3> QED BY <3>1, <3>2
  <2>3. zone(v) <= zone(w)
    <3>1. CASE v.killZone
      <4>1. zone(v) = 4 /\ zone(w) = 4
        BY <2>1, <3>1, Zenon DEF Rule!Award
      <4> HIDE DEF zone
      <4> QED BY <4>1
    <3>2. CASE ~(v.killZone)
      <4>1. zone(v) = 0 /\ zone(w) \in {0, 4}
        BY <3>2, Zenon DEF Rule!Award
      <4> HIDE DEF zone
      <4> QED BY <4>1
    <3> QED BY <3>1, <3>2
  <2>4. ote(v) <= ote(w)
    <3>1. CASE v.ote
      <4>1. ote(v) = 4 /\ ote(w) = 4
        BY <2>1, <3>1, Zenon DEF Rule!Award
      <4> HIDE DEF ote
      <4> QED BY <4>1
    <3>2. CASE ~(v.ote)
      <4>1. ote(v) = 0 /\ ote(w) \in {0, 4}
        BY <3>2, Zenon DEF Rule!Award
      <4> HIDE DEF ote
      <4> QED BY <4>1
    <3> QED BY <3>1, <3>2
  <2>5. hunt(v) <= hunt(w)
    <3>1. CASE v.sweep = "stop hunt"
      <4>1. hunt(v) = 5 /\ hunt(w) = 5
        BY <2>1, <3>1, Zenon DEF Rule!Award
      <4> HIDE DEF hunt
      <4> QED BY <4>1
    <3>2. CASE ~(v.sweep = "stop hunt")
      <4>1. hunt(v) = 0 /\ hunt(w) \in {0, 5}
        BY <3>2, Zenon DEF Rule!Award
      <4> HIDE DEF hunt
      <4> QED BY <4>1
    <3> QED BY <3>1, <3>2
  <2> QED BY <2>2, <2>3, <2>4, <2>5
<1>10. two(v) <= two(w)
  <2>1. /\ Rule!ObAligned(v) => Rule!ObAligned(w)
        /\ Rule!FvgAligned(v) => Rule!FvgAligned(w)
    BY ConfirmedGates
  <2> QED BY <2>1 DEF Rule!Award
<1>11. \A x : Rule!Confidence(x)
                = Rule!Clamp(Rule!Rounded(8 * Rule!Matched(x) + 2 * x.strength + 10 * extras(x), 10))
  BY DEF Rule!Confidence
<1> HIDE DEF swept, two, strong, zone, ote, htf, hunt, trap
<1>12. /\ extras(v) \in Int /\ extras(w) \in Int /\ extras(v) <= extras(w)
  BY <1>5, <1>6, <1>7, <1>8, <1>9, <1>10
<1> HIDE DEF extras
<1>13. /\ Rule!Confidence(v) = Rule!Clamp(Rule!Rounded(8 * a + 2 * s + 10 * extras(v), 10))
       /\ Rule!Confidence(w) = Rule!Clamp(Rule!Rounded(8 * b + 2 * s + 10 * extras(w), 10))
  BY <1>1, <1>3, <1>4, <1>11
<1>14. /\ 8 * a + 2 * s + 10 * extras(v) \in Int /\ 8 * b + 2 * s + 10 * extras(w) \in Int
       /\ 8 * a + 2 * s + 10 * extras(v) <= 8 * b + 2 * s + 10 * extras(w)
  BY <1>2, <1>4, <1>12
<1>15. /\ Rule!Rounded(8 * a + 2 * s + 10 * extras(v), 10) \in Int
       /\ Rule!Rounded(8 * b + 2 * s + 10 * extras(w), 10) \in Int
       /\ Rule!Rounded(8 * a + 2 * s + 10 * extras(v), 10)
            <= Rule!Rounded(8 * b + 2 * s + 10 * extras(w), 10)
  BY <1>14, RoundedMono
<1> QED BY <1>13, <1>15, ClampMono

(* For every view and threshold: a kill zone, an optimal entry, a sweep or *)
(* a second aligned zone never costs a signal, nor any of its confidence.  *)
THEOREM ConfirmationNeverHurtsHolds == Rule!Spec => []ConfirmationNeverHurts
<1>1. ASSUME NEW v \in Views, NEW w \in Rule!Stronger(v), Rule!Decide(v) # Rule!NoTrade
      PROVE  /\ Rule!Decide(w).direction = Rule!Decide(v).direction
             /\ Rule!Decide(w).confidence >= Rule!Decide(v).confidence
  <2>1. v \in Rule!AllViews
    BY SignalAssumption DEF Rule!ViewsAssumption
  <2>2. ~Rule!Rejected(v) /\ ~(Rule!Matched(v) < MinConfluence)
    BY <1>1 DEF Rule!Decide
  <2>3. Rule!Direction(v) \in Rule!Sides
    BY <2>2 DEF Rule!Direction, Rule!Sides, Rule!Rejected
  <2>4. Confirms(v, w)
    BY <2>1, StrongerConfirms
  <2>5. ~Rule!Rejected(w) /\ Rule!Direction(w) = Rule!Direction(v)
    BY <2>1, <2>2, <2>3, <2>4, ConfirmedGates
  <2>6. ~(Rule!Matched(w) < MinConfluence)
    <3>1. MinConfluence \in Int
      BY SignalAssumption DEF Rule!LimitsAssumption, Rule!Percent
    <3>2. /\ Rule!Matched(v) \in Int /\ Rule!Matched(w) \in Int
          /\ Rule!Matched(v) <= Rule!Matched(w)
      BY <2>1, <2>3, <2>4, ConfirmedMatch DEF Rule!Percent
    <3> QED BY <2>2, <3>1, <3>2
  <2>7. /\ Rule!Confidence(v) \in Int /\ Rule!Confidence(w) \in Int
        /\ Rule!Confidence(v) <= Rule!Confidence(w)
    BY <2>1, <2>3, <2>4, ConfirmedConfidence DEF Rule!Percent
  <2>8. Rule!Decide(v) = [direction |-> Rule!Direction(v), confidence |-> Rule!Confidence(v)]
    BY <2>2 DEF Rule!Decide
  <2>9. Rule!Decide(w) = [direction |-> Rule!Direction(v), confidence |-> Rule!Confidence(w)]
    BY <2>5, <2>6 DEF Rule!Decide
  <2> QED BY <2>7, <2>8, <2>9
<1>2. RuleInv => ConfirmationNeverHurts
  BY <1>1 DEF RuleInv, ConfirmationNeverHurts, Rule!ConfirmationNeverHurts, Rule!Decided
<1> QED BY <1>2, RuleInvHolds, PTL

-----------------------------------------------------------------------------
(* The chart upside down, for the detectors *)

\* The larger and the smaller of two integers.
LEMMA TwoInts ==
    ASSUME NEW a \in Int, NEW b \in Int
    PROVE  /\ Setup!Max({a, b}) = IF a > b THEN a ELSE b
           /\ Setup!Min({a, b}) = IF a > b THEN b ELSE a
<1>1. /\ \A x : x \in {a, b} <=> x = a \/ x = b
  OBVIOUS
<1> DEFINE S == {a, b}
           top == IF a > b THEN a ELSE b
           low == IF a > b THEN b ELSE a
<1>2. top \in S /\ (\A y \in S : top >= y) /\ \A x \in S : (\A y \in S : x >= y) => x = top
  BY <1>1
<1>3. low \in S /\ (\A y \in S : low <= y) /\ \A x \in S : (\A y \in S : x <= y) => x = low
  BY <1>1
<1>4. Setup!Max(S) = CHOOSE x \in S : \A y \in S : x >= y
  BY DEF Setup!Max
<1>5. Setup!Min(S) = CHOOSE x \in S : \A y \in S : x <= y
  BY DEF Setup!Min
<1> HIDE DEF S, top, low
<1>6. Setup!Max(S) = top
  BY <1>2, <1>4
<1>7. Setup!Min(S) = low
  BY <1>3, <1>5
<1> QED BY <1>6, <1>7 DEF S, top, low

\* A set of natural numbers has a least element, and Min is that element.
LEMMA LeastNat ==
    ASSUME NEW S \in SUBSET Nat, S # {}
    PROVE  /\ Setup!Min(S) \in S
           /\ \A y \in S : Setup!Min(S) <= y
<1>1. PICK m \in S : \A y \in S : <<y, m>> \notin OpToRel(<, Nat)
  BY NatLessThanWellFounded, WFMin
<1>2. \A y \in S : m <= y
  <2> SUFFICES ASSUME NEW y \in S, ~(m <= y) PROVE FALSE
    OBVIOUS
  <2>1. y \in Nat /\ m \in Nat /\ y < m
    OBVIOUS
  <2>2. <<y, m>> \in OpToRel(<, Nat)
    BY <2>1 DEF OpToRel
  <2> QED BY <1>1, <2>2
<1>3. \E x \in S : \A y \in S : x <= y
  BY <1>2
<1>4. Setup!Min(S) = CHOOSE x \in S : \A y \in S : x <= y
  BY DEF Setup!Min
<1> QED BY <1>3, <1>4

\* What is least below is greatest above: S and T are mirrored at 100.
LEMMA MirrorExtremes ==
    ASSUME NEW S, S \subseteq 0 .. 100, S # {}, NEW T, T = {100 - x : x \in S}
    PROVE  /\ Setup!Min(S) \in 0 .. 100 /\ Setup!Min(T) \in 0 .. 100
           /\ Setup!Max(S) = 100 - Setup!Min(T)
           /\ Setup!Max(T) = 100 - Setup!Min(S)
<1>1. T \subseteq 0 .. 100 /\ T # {} /\ S = {100 - x : x \in T}
  <2>1. \A x \in S : 100 - x \in T /\ 100 - (100 - x) = x /\ 100 - x \in 0 .. 100
    OBVIOUS
  <2>2. \A x \in T : \E y \in S : x = 100 - y
    OBVIOUS
  <2>3. \A x \in T : x \in 0 .. 100 /\ 100 - x \in S
    <3> SUFFICES ASSUME NEW x \in T PROVE x \in 0 .. 100 /\ 100 - x \in S
      OBVIOUS
    <3>1. PICK y \in S : x = 100 - y
      BY <2>2
    <3> QED BY <2>1, <3>1
  <2>4. \A x \in S : \E y \in T : x = 100 - y
    BY <2>1
  <2>5. S \subseteq {100 - x : x \in T}
    BY <2>4
  <2>6. {100 - x : x \in T} \subseteq S
    BY <2>3
  <2>7. S = {100 - x : x \in T}
    BY <2>5, <2>6
  <2>8. T \subseteq 0 .. 100 /\ T # {}
    BY <2>1, <2>3
  <2> QED BY <2>7, <2>8
<1>2. ASSUME NEW A, A \subseteq 0 .. 100, A # {}, NEW B, B = {100 - x : x \in A}, B \subseteq 0 .. 100
      PROVE  Setup!Min(A) \in 0 .. 100 /\ Setup!Max(B) = 100 - Setup!Min(A)
  <2>1. A \in SUBSET Nat
    BY <1>2
  <2>2. PICK m : m = Setup!Min(A)
    OBVIOUS
  <2>3. m \in A /\ m \in 0 .. 100 /\ \A y \in A : m <= y
    BY <1>2, <2>1, <2>2, LeastNat
  <2>4. 100 - m \in B
    BY <1>2, <2>3
  <2>5. ASSUME NEW y \in B PROVE 100 - m >= y /\ y \in Int
    <3>1. PICK x \in A : y = 100 - x
      BY <1>2
    <3> QED BY <1>2, <2>3, <3>1
  <2>6. \A x \in B : (\A y \in B : x >= y) => x = 100 - m
    BY <2>3, <2>4, <2>5
  <2>7. Setup!Max(B) = CHOOSE x \in B : \A y \in B : x >= y
    BY DEF Setup!Max
  <2>8. Setup!Max(B) = 100 - m
    BY <2>4, <2>5, <2>6, <2>7
  <2> QED BY <2>2, <2>3, <2>8
<1>3. Setup!Min(S) \in 0 .. 100 /\ Setup!Max(T) = 100 - Setup!Min(S)
  BY <1>1, <1>2
<1>4. Setup!Min(T) \in 0 .. 100 /\ Setup!Max(S) = 100 - Setup!Min(T)
  BY <1>1, <1>2
<1> QED BY <1>3, <1>4

Flip(b) == [o |-> -b.o, h |-> -b.l, l |-> -b.h, c |-> -b.c, v |-> b.v]

\* The prices of a bar, one by one.
LEMMA BarFields ==
    ASSUME NEW b \in Setup!Bar
    PROVE  b.o \in Int /\ b.h \in Int /\ b.l \in Int /\ b.c \in Int /\ b.v \in Nat
  BY DEF Setup!Bar

\* One bar upside down: its body and height stay, its shadows swap.
LEMMA FlippedBar ==
    ASSUME NEW b \in Setup!Bar
    PROVE  /\ Flip(b) \in Setup!Bar
           /\ Flip(b).o = -b.o /\ Flip(b).h = -b.l /\ Flip(b).l = -b.h
           /\ Flip(b).c = -b.c /\ Flip(b).v = b.v
           /\ Setup!Body(Flip(b)) = Setup!Body(b) /\ Setup!Body(b) \in Int
           /\ Setup!Height(Flip(b)) = Setup!Height(b) /\ Setup!Height(b) \in Int
           /\ Setup!Upper(Flip(b)) = Setup!Lower(b) /\ Setup!Lower(b) \in Int
           /\ Setup!Lower(Flip(b)) = Setup!Upper(b) /\ Setup!Upper(b) \in Int
           /\ Setup!Bull(Flip(b)) <=> Setup!Bear(b)
           /\ Setup!Bear(Flip(b)) <=> Setup!Bull(b)
<1>1. b.o \in Int /\ b.h \in Int /\ b.l \in Int /\ b.c \in Int /\ b.v \in Nat
  BY BarFields
<1>2. PICK f : f = Flip(b)
  OBVIOUS
<1>3. f.o = -b.o /\ f.h = -b.l /\ f.l = -b.h /\ f.c = -b.c /\ f.v = b.v
  BY <1>2 DEF Flip
<1>4. f \in Setup!Bar
  BY <1>1, <1>2 DEF Flip, Setup!Bar
<1>5. /\ Setup!Body(f) = Setup!Body(b) /\ Setup!Body(b) \in Int
      /\ Setup!Height(f) = Setup!Height(b) /\ Setup!Height(b) \in Int
      /\ Setup!Bull(f) <=> Setup!Bear(b)
      /\ Setup!Bear(f) <=> Setup!Bull(b)
  BY <1>1, <1>3 DEF Setup!Body, Setup!Distance, Setup!Height, Setup!Bull, Setup!Bear
<1>6. /\ Setup!Upper(f) = Setup!Lower(b) /\ Setup!Lower(b) \in Int
      /\ Setup!Lower(f) = Setup!Upper(b) /\ Setup!Upper(b) \in Int
  <2>1. /\ Setup!Max({b.o, b.c}) = IF b.o > b.c THEN b.o ELSE b.c
        /\ Setup!Min({b.o, b.c}) = IF b.o > b.c THEN b.c ELSE b.o
    BY <1>1, TwoInts
  <2>2. /\ Setup!Max({f.o, f.c}) = IF f.o > f.c THEN f.o ELSE f.c
        /\ Setup!Min({f.o, f.c}) = IF f.o > f.c THEN f.c ELSE f.o
    <3>1. f.o \in Int /\ f.c \in Int
      BY <1>1, <1>3
    <3> QED BY <3>1, TwoInts
  <2> QED BY <1>1, <1>3, <2>1, <2>2 DEF Setup!Upper, Setup!Lower
<1> QED BY <1>2, <1>3, <1>4, <1>5, <1>6

\* The patterns of one bar, and of two or three.
LEMMA FlippedPatterns ==
    ASSUME NEW b \in Setup!Bar, NEW p \in Setup!Bar, NEW q \in Setup!Bar
    PROVE  /\ Setup!Hammer(Flip(b)) <=> Setup!ShootingStar(b)
           /\ Setup!ShootingStar(Flip(b)) <=> Setup!Hammer(b)
           /\ Setup!BullishEngulfing(Flip(p), Flip(b)) <=> Setup!BearishEngulfing(p, b)
           /\ Setup!BearishEngulfing(Flip(p), Flip(b)) <=> Setup!BullishEngulfing(p, b)
           /\ Setup!Piercing(Flip(p), Flip(b)) <=> Setup!DarkCloud(p, b)
           /\ Setup!DarkCloud(Flip(p), Flip(b)) <=> Setup!Piercing(p, b)
           /\ Setup!MorningStar(Flip(q), Flip(p), Flip(b)) <=> Setup!EveningStar(q, p, b)
           /\ Setup!EveningStar(Flip(q), Flip(p), Flip(b)) <=> Setup!MorningStar(q, p, b)
<1>1. /\ b.o \in Int /\ b.c \in Int /\ p.o \in Int /\ p.c \in Int /\ q.o \in Int /\ q.c \in Int
  BY BarFields
<1>2. /\ Flip(b).o = -b.o /\ Flip(b).c = -b.c /\ Flip(p).o = -p.o /\ Flip(p).c = -p.c
      /\ Flip(q).o = -q.o /\ Flip(q).c = -q.c
  BY FlippedBar
<1>3. \A x \in {b, p, q} : /\ Setup!Body(Flip(x)) = Setup!Body(x) /\ Setup!Body(x) \in Int
                           /\ Setup!Bull(Flip(x)) <=> Setup!Bear(x)
                           /\ Setup!Bear(Flip(x)) <=> Setup!Bull(x)
                           /\ Setup!Upper(Flip(x)) = Setup!Lower(x)
                           /\ Setup!Lower(Flip(x)) = Setup!Upper(x)
  BY FlippedBar
<1>4. /\ Setup!Hammer(Flip(b)) <=> Setup!ShootingStar(b)
      /\ Setup!ShootingStar(Flip(b)) <=> Setup!Hammer(b)
  BY <1>3 DEF Setup!Hammer, Setup!ShootingStar
<1>5. /\ Setup!BullishEngulfing(Flip(p), Flip(b)) <=> Setup!BearishEngulfing(p, b)
      /\ Setup!BearishEngulfing(Flip(p), Flip(b)) <=> Setup!BullishEngulfing(p, b)
  BY <1>1, <1>2, <1>3 DEF Setup!BullishEngulfing, Setup!BearishEngulfing
<1>6. /\ Setup!Piercing(Flip(p), Flip(b)) <=> Setup!DarkCloud(p, b)
      /\ Setup!DarkCloud(Flip(p), Flip(b)) <=> Setup!Piercing(p, b)
  BY <1>1, <1>2, <1>3 DEF Setup!Piercing, Setup!DarkCloud
<1>7. /\ Setup!MorningStar(Flip(q), Flip(p), Flip(b)) <=> Setup!EveningStar(q, p, b)
      /\ Setup!EveningStar(Flip(q), Flip(p), Flip(b)) <=> Setup!MorningStar(q, p, b)
  BY <1>1, <1>2, <1>3 DEF Setup!MorningStar, Setup!EveningStar
<1> QED BY <1>4, <1>5, <1>6, <1>7

\* A strong bar and a wick against it, written for both sides at once.
LEMMA FlippedSides ==
    ASSUME NEW b \in Setup!Bar, NEW d \in Setup!Sides
    PROVE  /\ Setup!StrongBar(Flip(b), Setup!MirrorSide(d)) <=> Setup!StrongBar(b, d)
           /\ Setup!WickAgainst(Flip(b), Setup!MirrorSide(d)) <=> Setup!WickAgainst(b, d)
<1>1. /\ b.h \in Int /\ b.l \in Int /\ b.c \in Int
  BY BarFields
<1>2. /\ Flip(b).h = -b.l /\ Flip(b).l = -b.h /\ Flip(b).c = -b.c
      /\ Setup!Body(Flip(b)) = Setup!Body(b) /\ Setup!Height(Flip(b)) = Setup!Height(b)
      /\ Setup!Bull(Flip(b)) <=> Setup!Bear(b)
      /\ Setup!Bear(Flip(b)) <=> Setup!Bull(b)
      /\ Setup!Upper(Flip(b)) = Setup!Lower(b) /\ Setup!Lower(Flip(b)) = Setup!Upper(b)
  BY FlippedBar
<1>3. \/ d = "BUY" /\ Setup!MirrorSide(d) = "SELL"
      \/ d = "SELL" /\ Setup!MirrorSide(d) = "BUY"
  BY DEF Setup!Sides, Setup!MirrorSide
<1>4. /\ Flip(b).h - Flip(b).c = b.c - b.l /\ Flip(b).c - Flip(b).l = b.h - b.c
  BY <1>1, <1>2
<1>5. CASE d = "BUY" /\ Setup!MirrorSide(d) = "SELL"
  <2>1. Setup!StrongBar(Flip(b), "SELL") <=> Setup!StrongBar(b, "BUY")
    BY <1>2, <1>4 DEF Setup!StrongBar
  <2>2. Setup!WickAgainst(Flip(b), "SELL") <=> Setup!WickAgainst(b, "BUY")
    BY <1>2 DEF Setup!WickAgainst
  <2> QED BY <1>5, <2>1, <2>2
<1>6. CASE d = "SELL" /\ Setup!MirrorSide(d) = "BUY"
  <2>1. Setup!StrongBar(Flip(b), "BUY") <=> Setup!StrongBar(b, "SELL")
    BY <1>2, <1>4 DEF Setup!StrongBar
  <2>2. Setup!WickAgainst(Flip(b), "BUY") <=> Setup!WickAgainst(b, "SELL")
    BY <1>2 DEF Setup!WickAgainst
  <2> QED BY <1>6, <2>1, <2>2
<1> QED BY <1>3, <1>5, <1>6

\* The contexts the detectors may be handed.
Context(c) == /\ c \in Setup!AllContexts /\ Len(c.bars) >= 4 /\ c.range.low <= c.range.high

\* The fields of a context, one by one.
LEMMA ContextFields ==
    ASSUME NEW c, Context(c)
    PROVE  /\ c.bars \in Seq(Setup!Bar) /\ c.range.high \in Int /\ c.range.low \in Int
           /\ c.swingHigh \in SUBSET Int /\ c.swingLow \in SUBSET Int
           /\ c.rsi \in [1 .. 7 -> 0 .. 100]
           /\ c.ema50 \in Int /\ c.ema200 \in Int /\ c.atr \in Nat /\ c.avgAtr \in Nat
           /\ c.avgVolume \in Nat /\ c.htf \in Setup!Zones
           /\ c.trend \in Setup!Sides /\ c.bos \in Setup!Zones /\ c.choch \in Setup!Zones
           /\ c.sweep \in Setup!Zones /\ c.ob \in Setup!Zones /\ c.fvg \in Setup!Zones
<1>1. /\ c.bars \in Seq(Setup!Bar) /\ c.range \in Setup!Span
      /\ c.swingHigh \in SUBSET Int /\ c.swingLow \in SUBSET Int
      /\ c.rsi \in [1 .. 7 -> 0 .. 100]
      /\ c.ema50 \in Int /\ c.ema200 \in Int /\ c.atr \in Nat /\ c.avgAtr \in Nat
      /\ c.avgVolume \in Nat /\ c.htf \in Setup!Zones
      /\ c.trend \in Setup!Sides /\ c.bos \in Setup!Zones /\ c.choch \in Setup!Zones
      /\ c.sweep \in Setup!Zones /\ c.ob \in Setup!Zones /\ c.fvg \in Setup!Zones
  BY DEF Context, Setup!AllContexts
<1>2. \A r \in Setup!Span : r.high \in Int /\ r.low \in Int
  BY DEF Setup!Span
<1> QED BY <1>1, <1>2

\* Its fields upside down.
LEMMA MirrorContext ==
    ASSUME NEW c, Context(c)
    PROVE  LET m == Setup!Mirror(c) IN
           /\ m.bars = [i \in DOMAIN c.bars |-> Flip(c.bars[i])]
           /\ m.range = [high |-> -c.range.low, low |-> -c.range.high]
           /\ m.swingHigh = {-x : x \in c.swingLow} /\ m.swingLow = {-x : x \in c.swingHigh}
           /\ m.rsi = [i \in DOMAIN c.rsi |-> 100 - c.rsi[i]]
           /\ m.ema50 = -c.ema50 /\ m.ema200 = -c.ema200
           /\ m.htf = Setup!MirrorSide(c.htf)
           /\ m.trend = Setup!MirrorSide(c.trend) /\ m.bos = Setup!MirrorSide(c.bos)
           /\ m.choch = Setup!MirrorSide(c.choch) /\ m.sweep = Setup!MirrorSide(c.sweep)
           /\ m.ob = Setup!MirrorSide(c.ob) /\ m.fvg = Setup!MirrorSide(c.fvg)
           /\ m.atr = c.atr /\ m.avgAtr = c.avgAtr /\ m.avgVolume = c.avgVolume
           /\ m.hunt = c.hunt /\ m.distribution = c.distribution /\ m.ote = c.ote
  BY DEF Context, Setup!AllContexts, Setup!Mirror, Flip

\* The reflected course has the same length, bar by bar.
LEMMA FlippedBars ==
    ASSUME NEW b \in Seq(Setup!Bar), NEW f, f = [i \in DOMAIN b |-> Flip(b[i])]
    PROVE  /\ Len(b) \in Nat /\ DOMAIN b = 1 .. Len(b) /\ \A i \in DOMAIN b : b[i] \in Setup!Bar
           /\ Len(f) = Len(b) /\ DOMAIN f = DOMAIN b /\ \A i \in DOMAIN b : f[i] = Flip(b[i])
  OBVIOUS

\* The bars the patterns look at, and the closes of all of them.
LEMMA MirrorBars ==
    ASSUME NEW c, Context(c)
    PROVE  LET m == Setup!Mirror(c) IN
           /\ DOMAIN m.bars = DOMAIN c.bars /\ Len(m.bars) = Len(c.bars)
           /\ Len(c.bars) \in DOMAIN c.bars /\ DOMAIN c.bars = 1 .. Len(c.bars)
           /\ \A i \in DOMAIN c.bars : c.bars[i] \in Setup!Bar /\ m.bars[i] = Flip(c.bars[i])
           /\ Setup!Last(c) \in Setup!Bar /\ Setup!Last(m) = Flip(Setup!Last(c))
           /\ \A n \in 1 .. 3 : /\ Setup!Ago(c, n) \in Setup!Bar
                                /\ Setup!Ago(m, n) = Flip(Setup!Ago(c, n))
           /\ Setup!Close(c) \in Int /\ Setup!Close(m) = -Setup!Close(c)
<1>1. PICK b : b = c.bars
  OBVIOUS
<1>2. b \in Seq(Setup!Bar) /\ Len(b) >= 4
  BY <1>1, ContextFields DEF Context
<1>3. PICK f : f = Setup!Mirror(c).bars
  OBVIOUS
<1>4. /\ Len(b) \in Nat /\ DOMAIN b = 1 .. Len(b) /\ \A i \in DOMAIN b : b[i] \in Setup!Bar
      /\ Len(f) = Len(b) /\ DOMAIN f = DOMAIN b /\ \A i \in DOMAIN b : f[i] = Flip(b[i])
  <2>1. /\ c.bars \in Seq(Setup!Bar)
        /\ Setup!Mirror(c).bars = [i \in DOMAIN c.bars |-> Flip(c.bars[i])]
    BY ContextFields, MirrorContext, Zenon
  <2> HIDE DEF Flip
  <2> QED BY <1>1, <1>3, <2>1, FlippedBars, Zenon
<1>5. /\ Len(b) \in DOMAIN b
      /\ \A n \in 1 .. 3 : Len(b) - n \in DOMAIN b
  BY <1>2, <1>4
<1>6. /\ Setup!Last(c) = b[Len(b)] /\ Setup!Last(Setup!Mirror(c)) = f[Len(b)]
      /\ \A n \in 1 .. 3 : /\ Setup!Ago(c, n) = b[Len(b) - n]
                           /\ Setup!Ago(Setup!Mirror(c), n) = f[Len(b) - n]
  BY <1>1, <1>3, <1>4 DEF Setup!Last, Setup!Ago
<1>7. /\ Setup!Last(c) \in Setup!Bar /\ Setup!Last(Setup!Mirror(c)) = Flip(Setup!Last(c))
      /\ \A n \in 1 .. 3 : /\ Setup!Ago(c, n) \in Setup!Bar
                           /\ Setup!Ago(Setup!Mirror(c), n) = Flip(Setup!Ago(c, n))
  BY <1>4, <1>5, <1>6
<1>8. /\ Setup!Close(c) \in Int /\ Setup!Close(Setup!Mirror(c)) = -Setup!Close(c)
  BY <1>7, FlippedBar, BarFields DEF Setup!Close
<1> QED BY <1>1, <1>3, <1>4, <1>5, <1>7, <1>8

\* There are two sides, and each is the mirror of the other.
LEMMA SidesMirror ==
    ASSUME NEW d \in Setup!Sides
    PROVE  /\ Setup!MirrorSide(d) \in Setup!Sides
           /\ Setup!MirrorSide(Setup!MirrorSide(d)) = d
           /\ \/ d = "BUY" /\ Setup!MirrorSide(d) = "SELL"
              \/ d = "SELL" /\ Setup!MirrorSide(d) = "BUY"
           /\ \A z \in Setup!Zones : Setup!MirrorSide(z) = Setup!MirrorSide(d) <=> z = d
  BY DEF Setup!Sides, Setup!Zones, Setup!MirrorSide

\* A candle confirms the mirrored side when its original confirmed the side.
LEMMA MirrorConfirmed ==
    ASSUME NEW c, Context(c), NEW d \in Setup!Sides
    PROVE  /\ Setup!Confirmed(Setup!Mirror(c), Setup!MirrorSide(d)) <=> Setup!Confirmed(c, d)
           /\ Setup!WickAgainst(Setup!Last(Setup!Mirror(c)), Setup!MirrorSide(d))
                <=> Setup!WickAgainst(Setup!Last(c), d)
<1>1. PICK b, p, q : b = Setup!Last(c) /\ p = Setup!Ago(c, 1) /\ q = Setup!Ago(c, 2)
  OBVIOUS
<1>2. b \in Setup!Bar /\ p \in Setup!Bar /\ q \in Setup!Bar
  BY <1>1, MirrorBars
<1>3. PICK m : m = Setup!Mirror(c)
  OBVIOUS
<1>4. /\ Setup!Last(m) = Flip(b) /\ Setup!Ago(m, 1) = Flip(p) /\ Setup!Ago(m, 2) = Flip(q)
  BY <1>1, <1>3, MirrorBars
<1>5. /\ Setup!StrongBar(Flip(b), Setup!MirrorSide(d)) <=> Setup!StrongBar(b, d)
      /\ Setup!WickAgainst(Flip(b), Setup!MirrorSide(d)) <=> Setup!WickAgainst(b, d)
  BY <1>2, FlippedSides
<1>6. /\ Setup!Hammer(Flip(b)) <=> Setup!ShootingStar(b)
      /\ Setup!ShootingStar(Flip(b)) <=> Setup!Hammer(b)
      /\ Setup!BullishEngulfing(Flip(p), Flip(b)) <=> Setup!BearishEngulfing(p, b)
      /\ Setup!BearishEngulfing(Flip(p), Flip(b)) <=> Setup!BullishEngulfing(p, b)
      /\ Setup!Piercing(Flip(p), Flip(b)) <=> Setup!DarkCloud(p, b)
      /\ Setup!DarkCloud(Flip(p), Flip(b)) <=> Setup!Piercing(p, b)
      /\ Setup!MorningStar(Flip(q), Flip(p), Flip(b)) <=> Setup!EveningStar(q, p, b)
      /\ Setup!EveningStar(Flip(q), Flip(p), Flip(b)) <=> Setup!MorningStar(q, p, b)
  BY <1>2, FlippedPatterns
<1>7. Setup!Confirmed(c, d) <=>
        \/ Setup!StrongBar(b, d)
        \/ /\ d = "BUY"
           /\ \/ Setup!MorningStar(q, p, b) \/ Setup!BullishEngulfing(p, b)
              \/ Setup!Piercing(p, b) \/ Setup!Hammer(b)
        \/ /\ d = "SELL"
           /\ \/ Setup!EveningStar(q, p, b) \/ Setup!BearishEngulfing(p, b)
              \/ Setup!DarkCloud(p, b) \/ Setup!ShootingStar(b)
  BY <1>1 DEF Setup!Confirmed
<1>8. Setup!Confirmed(m, Setup!MirrorSide(d)) <=>
        \/ Setup!StrongBar(Flip(b), Setup!MirrorSide(d))
        \/ /\ Setup!MirrorSide(d) = "BUY"
           /\ \/ Setup!MorningStar(Flip(q), Flip(p), Flip(b))
              \/ Setup!BullishEngulfing(Flip(p), Flip(b))
              \/ Setup!Piercing(Flip(p), Flip(b)) \/ Setup!Hammer(Flip(b))
        \/ /\ Setup!MirrorSide(d) = "SELL"
           /\ \/ Setup!EveningStar(Flip(q), Flip(p), Flip(b))
              \/ Setup!BearishEngulfing(Flip(p), Flip(b))
              \/ Setup!DarkCloud(Flip(p), Flip(b)) \/ Setup!ShootingStar(Flip(b))
  BY <1>4 DEF Setup!Confirmed
<1>9. Setup!Confirmed(m, Setup!MirrorSide(d)) <=> Setup!Confirmed(c, d)
  BY <1>5, <1>6, <1>7, <1>8, SidesMirror
<1> QED BY <1>1, <1>3, <1>4, <1>5, <1>9

\* Bull regimes are bear regimes upside down, range and chop stay.
LEMMA MirrorRegime ==
    ASSUME NEW c, Context(c)
    PROVE  Setup!RegimeSide(Setup!Mirror(c)) = Setup!MirrorSide(Setup!RegimeSide(c))
<1>1. PICK m : m = Setup!Mirror(c)
  OBVIOUS
<1>2. PICK k, s, l, a, g : /\ k = Setup!Close(c) /\ s = c.ema50 /\ l = c.ema200
                           /\ a = c.atr /\ g = c.avgAtr
  OBVIOUS
<1>3. /\ k \in Int /\ s \in Int /\ l \in Int /\ a \in Nat /\ g \in Nat
  BY <1>2, MirrorBars, ContextFields
<1>4. /\ Setup!Close(m) = -k /\ m.ema50 = -s /\ m.ema200 = -l /\ m.atr = a /\ m.avgAtr = g
  BY <1>1, <1>2, MirrorBars, MirrorContext
<1> DEFINE regime(x, y, z) ==
        CASE a > 2 * g -> "chop"
          [] a <= 2 * g /\ x > z /\ y > z -> IF x > y THEN "strong_bull" ELSE "bull_pullback"
          [] a <= 2 * g /\ x < z /\ y < z -> IF x < y THEN "strong_bear" ELSE "bear_rally"
          [] OTHER -> "range"
<1>5. Setup!Regime(c) = regime(k, s, l) /\ Setup!Regime(m) = regime(-k, -s, -l)
  BY <1>2, <1>4 DEF Setup!Regime
<1>6. CASE a > 2 * g
  <2>1. regime(k, s, l) = "chop" /\ regime(-k, -s, -l) = "chop"
    BY <1>3, <1>6
  <2> QED BY <1>1, <1>5, <2>1 DEF Setup!RegimeSide, Setup!MirrorSide
<1>7. CASE a <= 2 * g /\ k > l /\ s > l
  <2>1. /\ regime(k, s, l) \in {"strong_bull", "bull_pullback"}
        /\ regime(-k, -s, -l) \in {"strong_bear", "bear_rally"}
    BY <1>3, <1>7
  <2> HIDE DEF regime
  <2> QED BY <1>1, <1>5, <2>1 DEF Setup!RegimeSide, Setup!MirrorSide
<1>8. CASE a <= 2 * g /\ k < l /\ s < l
  <2>1. /\ regime(k, s, l) \in {"strong_bear", "bear_rally"}
        /\ regime(-k, -s, -l) \in {"strong_bull", "bull_pullback"}
    BY <1>3, <1>8
  <2> HIDE DEF regime
  <2> QED BY <1>1, <1>5, <2>1 DEF Setup!RegimeSide, Setup!MirrorSide
<1>9. CASE a <= 2 * g /\ ~(k > l /\ s > l) /\ ~(k < l /\ s < l)
  <2>1. regime(k, s, l) = "range" /\ regime(-k, -s, -l) = "range"
    BY <1>3, <1>9
  <2> HIDE DEF regime
  <2> QED BY <1>1, <1>5, <2>1 DEF Setup!RegimeSide, Setup!MirrorSide
<1> QED BY <1>3, <1>6, <1>7, <1>8, <1>9

\* The RSI is reflected at 50: tops are bottoms, rising is falling.
LEMMA MirrorRsi ==
    ASSUME NEW c, Context(c), NEW d \in Setup!Sides
    PROVE  /\ Setup!Turning(Setup!Mirror(c), Setup!MirrorSide(d)) <=> Setup!Turning(c, d)
           /\ \A n \in 1 .. 7 :
                /\ Setup!Min(Setup!RsiOf(c, n)) \in 0 .. 100
                /\ Setup!Min(Setup!RsiOf(Setup!Mirror(c), n)) \in 0 .. 100
                /\ Setup!Max(Setup!RsiOf(c, n)) = 100 - Setup!Min(Setup!RsiOf(Setup!Mirror(c), n))
                /\ Setup!Max(Setup!RsiOf(Setup!Mirror(c), n)) = 100 - Setup!Min(Setup!RsiOf(c, n))
<1>1. PICK m, r, t : m = Setup!Mirror(c) /\ r = c.rsi /\ t = m.rsi
  OBVIOUS
<1>2. \A i \in 1 .. 7 : r[i] \in 0 .. 100 /\ t[i] = 100 - r[i]
  <2>1. c.rsi \in [1 .. 7 -> 0 .. 100] /\ Setup!Mirror(c).rsi = [i \in DOMAIN c.rsi |-> 100 - c.rsi[i]]
    BY ContextFields, MirrorContext, Zenon
  <2>2. \A i \in 1 .. 7 : c.rsi[i] \in 0 .. 100 /\ Setup!Mirror(c).rsi[i] = 100 - c.rsi[i]
    BY <2>1
  <2> QED BY <1>1, <2>2
<1>3. Setup!Turning(m, Setup!MirrorSide(d)) <=> Setup!Turning(c, d)
  <2>1. /\ r[6] \in Int /\ r[7] \in Int /\ t[6] = 100 - r[6] /\ t[7] = 100 - r[7]
    BY <1>2
  <2> QED BY <1>1, <2>1, SidesMirror DEF Setup!Turning
<1>4. ASSUME NEW n \in 1 .. 7
      PROVE  /\ Setup!Min(Setup!RsiOf(c, n)) \in 0 .. 100
             /\ Setup!Min(Setup!RsiOf(m, n)) \in 0 .. 100
             /\ Setup!Max(Setup!RsiOf(c, n)) = 100 - Setup!Min(Setup!RsiOf(m, n))
             /\ Setup!Max(Setup!RsiOf(m, n)) = 100 - Setup!Min(Setup!RsiOf(c, n))
  <2>1. PICK S, T : S = Setup!RsiOf(c, n) /\ T = Setup!RsiOf(m, n)
    OBVIOUS
  <2>2. S = {r[i] : i \in 8 - n .. 7} /\ T = {t[i] : i \in 8 - n .. 7}
    BY <1>1, <2>1 DEF Setup!RsiOf
  <2>3. \A i \in 8 - n .. 7 : i \in 1 .. 7
    OBVIOUS
  <2>4. S \subseteq 0 .. 100 /\ S # {}
    <3>1. r[7] \in S
      BY <2>2
    <3> QED BY <1>2, <2>2, <2>3, <3>1
  <2>5. T = {100 - x : x \in S}
    <3>1. T \subseteq {100 - x : x \in S}
      BY <1>2, <2>2, <2>3
    <3>2. {100 - x : x \in S} \subseteq T
      BY <1>2, <2>2, <2>3
    <3> QED BY <3>1, <3>2
  <2> QED BY <2>1, <2>4, <2>5, MirrorExtremes
<1> QED BY <1>1, <1>3, <1>4

\* The prices of B are those of A upside down.
Reflected(A, B) == /\ A \subseteq Int /\ B \subseteq Int
                   /\ \A x \in Int : x \in B <=> -x \in A

\* Reflecting every price of a set does that.
LEMMA ReflectedSet ==
    ASSUME NEW A \in SUBSET Int, NEW B, B = {-x : x \in A}
    PROVE  Reflected(A, B)
<1>1. B \subseteq Int
  OBVIOUS
<1>2. ASSUME NEW x \in Int PROVE x \in B <=> -x \in A
  <2>1. -(-x) = x
    OBVIOUS
  <2>2. \A y \in A : x = -y => y = -x
    OBVIOUS
  <2> QED BY <2>1, <2>2
<1> QED BY <1>1, <1>2 DEF Reflected

\* The swings and their reflections: highs are lows upside down.
LEMMA MirrorSwing ==
    ASSUME NEW c, Context(c)
    PROVE  /\ Reflected(c.swingLow, Setup!Mirror(c).swingHigh)
           /\ Reflected(c.swingHigh, Setup!Mirror(c).swingLow)
<1>1. PICK H, L, S, T : /\ H = c.swingHigh /\ L = c.swingLow
                        /\ S = Setup!Mirror(c).swingHigh /\ T = Setup!Mirror(c).swingLow
  OBVIOUS
<1>2. /\ H \in SUBSET Int /\ L \in SUBSET Int
      /\ S = {-x : x \in L} /\ T = {-x : x \in H}
  BY <1>1, ContextFields, MirrorContext, Zenon
<1>3. Reflected(L, S) /\ Reflected(H, T)
  BY <1>2, ReflectedSet
<1> QED BY <1>1, <1>3, Zenon

\* Volume has no direction.
LEMMA MirrorVolumes ==
    ASSUME NEW c, Context(c)
    PROVE  LET m == Setup!Mirror(c) IN
           /\ Setup!HasVolume(m) <=> Setup!HasVolume(c)
           /\ Setup!Raises(m) <=> Setup!Raises(c)
           /\ Setup!VolumePoints(m) = Setup!VolumePoints(c)
<1>1. PICK m : m = Setup!Mirror(c)
  OBVIOUS
<1>2. /\ m.avgVolume = c.avgVolume
      /\ Setup!Last(m).v = Setup!Last(c).v
      /\ Setup!Ago(m, 1).v = Setup!Ago(c, 1).v
      /\ Setup!Ago(m, 2).v = Setup!Ago(c, 2).v
      /\ Setup!Ago(m, 3).v = Setup!Ago(c, 3).v
  <2>1. \A b \in Setup!Bar : Flip(b).v = b.v
    BY FlippedBar
  <2>2. /\ Setup!Last(c) \in Setup!Bar /\ Setup!Last(m) = Flip(Setup!Last(c))
        /\ \A n \in 1 .. 3 : /\ Setup!Ago(c, n) \in Setup!Bar
                             /\ Setup!Ago(m, n) = Flip(Setup!Ago(c, n))
    BY <1>1, MirrorBars
  <2>3. m.avgVolume = c.avgVolume
    BY <1>1, MirrorContext
  <2> QED BY <2>1, <2>2, <2>3
<1>3. /\ Setup!HasVolume(m) <=> Setup!HasVolume(c)
  BY <1>2 DEF Setup!HasVolume
<1>4. /\ Setup!Raises(m) <=> Setup!Raises(c)
      /\ Setup!VolumePoints(m) = Setup!VolumePoints(c)
  BY <1>2, <1>3 DEF Setup!Raises, Setup!VolumePoints
<1> QED BY <1>1, <1>3, <1>4

\* The factors of the scorecard, one after the other: the trend ...
LEMMA MirrorTrendPoints ==
    ASSUME NEW c, Context(c), NEW d \in Setup!Sides
    PROVE  Setup!TrendPoints(Setup!Mirror(c), Setup!MirrorSide(d)) = Setup!TrendPoints(c, d)
<1>1. PICK m, e : m = Setup!Mirror(c) /\ e = Setup!MirrorSide(d)
  OBVIOUS
<1>2. PICK k, s, l : k = Setup!Close(c) /\ s = c.ema50 /\ l = c.ema200
  OBVIOUS
<1>3. k \in Int /\ s \in Int /\ l \in Int
  BY <1>2, MirrorBars, ContextFields
<1>4. Setup!Close(m) = -k /\ m.ema50 = -s /\ m.ema200 = -l
  BY <1>1, <1>2, MirrorBars, MirrorContext
<1>5. (-s > -l <=> s < l) /\ (-s < -l <=> s > l) /\ (-k > -l <=> k < l) /\ (-k < -l <=> k > l)
  BY <1>3
<1>6. (d = "BUY" /\ e = "SELL") \/ (d = "SELL" /\ e = "BUY")
  BY <1>1, SidesMirror
<1> QED BY <1>1, <1>2, <1>4, <1>5, <1>6 DEF Setup!TrendPoints, Setup!Points

\* ... the level ...
LEMMA MirrorLevelPoints ==
    ASSUME NEW c, Context(c), NEW d \in Setup!Sides
    PROVE  Setup!LevelPoints(Setup!Mirror(c), Setup!MirrorSide(d)) = Setup!LevelPoints(c, d)
<1>1. PICK m, e : m = Setup!Mirror(c) /\ e = Setup!MirrorSide(d)
  OBVIOUS
<1>2. /\ m.ob = e <=> c.ob = d
      /\ m.fvg = e <=> c.fvg = d
      /\ m.ote = c.ote
  <2>1. c.ob \in Setup!Zones /\ c.fvg \in Setup!Zones
    BY ContextFields
  <2>2. /\ m.ob = Setup!MirrorSide(c.ob) /\ m.fvg = Setup!MirrorSide(c.fvg) /\ m.ote = c.ote
    BY <1>1, MirrorContext
  <2>3. \A z \in Setup!Zones : Setup!MirrorSide(z) = e <=> z = d
    BY <1>1, SidesMirror
  <2> QED BY <2>1, <2>2, <2>3
<1>3. /\ Setup!Points(m.ob = e, 1) = Setup!Points(c.ob = d, 1)
      /\ Setup!Points(m.fvg = e, 1) = Setup!Points(c.fvg = d, 1)
      /\ Setup!Points(m.ote, 1) = Setup!Points(c.ote, 1)
  BY <1>2 DEF Setup!Points
<1> QED BY <1>1, <1>3 DEF Setup!LevelPoints

\* ... and the RSI, for the scorecard and for the pullback's own test.
LEMMA MirrorRsiPoints ==
    ASSUME NEW c, Context(c), NEW d \in Setup!Sides
    PROVE  /\ Setup!RsiPoints(Setup!Mirror(c), Setup!MirrorSide(d)) = Setup!RsiPoints(c, d)
           /\ Setup!RsiWasReset(Setup!Mirror(c), Setup!MirrorSide(d)) <=> Setup!RsiWasReset(c, d)
<1>1. PICK m, e : m = Setup!Mirror(c) /\ e = Setup!MirrorSide(d)
  OBVIOUS
<1>2. Setup!Turning(m, e) <=> Setup!Turning(c, d)
  BY <1>1, MirrorRsi
<1>3. (d = "BUY" /\ e = "SELL") \/ (d = "SELL" /\ e = "BUY")
  BY <1>1, SidesMirror
<1>4. \A n \in 1 .. 7 : /\ Setup!Min(Setup!RsiOf(c, n)) \in 0 .. 100
                        /\ Setup!Min(Setup!RsiOf(m, n)) \in 0 .. 100
                        /\ Setup!Max(Setup!RsiOf(c, n)) = 100 - Setup!Min(Setup!RsiOf(m, n))
                        /\ Setup!Max(Setup!RsiOf(m, n)) = 100 - Setup!Min(Setup!RsiOf(c, n))
  BY <1>1, MirrorRsi
<1>5. \A n \in 1 .. 7, x \in Int :
        /\ Setup!Max(Setup!RsiOf(c, n)) > 100 - x <=> Setup!Min(Setup!RsiOf(m, n)) < x
        /\ Setup!Max(Setup!RsiOf(m, n)) > 100 - x <=> Setup!Min(Setup!RsiOf(c, n)) < x
  BY <1>4
<1>6. Setup!RsiPoints(m, e) = Setup!RsiPoints(c, d)
  <2>1. /\ Setup!Max(Setup!RsiOf(c, 7)) > 55 <=> Setup!Min(Setup!RsiOf(m, 7)) < 45
        /\ Setup!Max(Setup!RsiOf(m, 7)) > 55 <=> Setup!Min(Setup!RsiOf(c, 7)) < 45
    <3>1. 7 \in 1 .. 7 /\ 45 \in Int /\ 100 - 45 = 55
      OBVIOUS
    <3> QED BY <1>5, <3>1
  <2> QED BY <1>2, <1>3, <2>1 DEF Setup!RsiPoints, Setup!Points
<1>7. Setup!RsiWasReset(m, e) <=> Setup!RsiWasReset(c, d)
  <2>1. RsiLookback + 1 \in 1 .. 7 /\ RsiReset \in Int
    BY SignalAssumption DEF Setup!ContextsAssumption
  <2> QED BY <1>2, <1>3, <1>5, <2>1 DEF Setup!RsiWasReset
<1> QED BY <1>1, <1>6, <1>7

\* How far the price is from the swing it goes to.
LEMMA MirrorRoom ==
    ASSUME NEW c, Context(c), NEW d \in Setup!Sides
    PROVE  Setup!RoomPoints(Setup!Mirror(c), Setup!MirrorSide(d)) = Setup!RoomPoints(c, d)
<1>1. PICK m, e : m = Setup!Mirror(c) /\ e = Setup!MirrorSide(d)
  OBVIOUS
<1>2. PICK k, S, T : /\ k = Setup!Close(c)
                     /\ S = Setup!Opposing(c, d) /\ T = Setup!Opposing(m, e)
  OBVIOUS
<1>3. k \in Int /\ Setup!Close(m) = -k /\ m.atr = c.atr
  BY <1>1, <1>2, MirrorBars, MirrorContext
<1>4. (d = "BUY" /\ e = "SELL") \/ (d = "SELL" /\ e = "BUY")
  BY <1>1, SidesMirror
<1>5. Reflected(S, T)
  <2>1. Reflected(c.swingLow, m.swingHigh) /\ Reflected(c.swingHigh, m.swingLow)
    BY <1>1, MirrorSwing
  <2>2. CASE d = "BUY" /\ e = "SELL"
    <3>1. S = c.swingHigh /\ T = m.swingLow
      BY <1>2, <2>2 DEF Setup!Opposing
    <3> QED BY <2>1, <3>1
  <2>3. CASE d = "SELL" /\ e = "BUY"
    <3>1. S = c.swingLow /\ T = m.swingHigh
      BY <1>2, <2>3 DEF Setup!Opposing
    <3> QED BY <2>1, <3>1
  <2> QED BY <1>4, <2>2, <2>3
<1> DEFINE room(s) == IF d = "BUY" THEN s - k ELSE k - s
           mroom(t) == IF e = "BUY" THEN t - -k ELSE -k - t
<1>6. \A x \in Int : mroom(x) = room(-x) /\ mroom(-x) = room(x) /\ -x \in Int /\ -(-x) = x
  BY <1>3, <1>4
<1>7. /\ Setup!RoomPoints(c, d) = Setup!Points(c.atr > 0 /\ \E s \in S : 10 * room(s) >= 24 * c.atr, 1)
      /\ Setup!RoomPoints(m, e) = Setup!Points(c.atr > 0 /\ \E t \in T : 10 * mroom(t) >= 24 * c.atr, 1)
  BY <1>2, <1>3 DEF Setup!RoomPoints
<1> HIDE DEF room, mroom
<1>8. ASSUME NEW s \in S, 10 * room(s) >= 24 * c.atr
      PROVE  \E t \in T : 10 * mroom(t) >= 24 * c.atr
  <2>1. s \in Int /\ -s \in T /\ mroom(-s) = room(s)
    BY <1>5, <1>6 DEF Reflected
  <2> QED BY <1>8, <2>1
<1>9. ASSUME NEW t \in T, 10 * mroom(t) >= 24 * c.atr
      PROVE  \E s \in S : 10 * room(s) >= 24 * c.atr
  <2>1. t \in Int /\ -t \in S /\ mroom(t) = room(-t)
    BY <1>5, <1>6 DEF Reflected
  <2> QED BY <1>9, <2>1
<1> QED BY <1>1, <1>7, <1>8, <1>9 DEF Setup!Points

\* The scorecard does not know the side, as long as the higher timeframe has one.
LEMMA MirrorTotal ==
    ASSUME NEW c, Context(c), NEW d \in Setup!Sides, c.htf # "none"
    PROVE  Setup!Total(Setup!Mirror(c), Setup!MirrorSide(d)) = Setup!Total(c, d)
<1>1. PICK m, e : m = Setup!Mirror(c) /\ e = Setup!MirrorSide(d)
  OBVIOUS
<1>2. /\ Setup!TrendPoints(m, e) = Setup!TrendPoints(c, d)
      /\ Setup!LevelPoints(m, e) = Setup!LevelPoints(c, d)
      /\ Setup!VolumePoints(m) = Setup!VolumePoints(c)
      /\ Setup!RsiPoints(m, e) = Setup!RsiPoints(c, d)
      /\ Setup!RoomPoints(m, e) = Setup!RoomPoints(c, d)
  BY <1>1, MirrorTrendPoints, MirrorLevelPoints, MirrorVolumes, MirrorRsiPoints, MirrorRoom
<1>3. Setup!MacroPoints(m, e) = Setup!MacroPoints(c, d)
  <2>1. c.htf \in Setup!Sides /\ m.htf = Setup!MirrorSide(c.htf)
    BY <1>1, ContextFields, MirrorContext DEF Setup!Zones
  <2>2. (c.htf = "BUY" /\ m.htf = "SELL") \/ (c.htf = "SELL" /\ m.htf = "BUY")
    BY <2>1, SidesMirror
  <2>3. (d = "BUY" /\ e = "SELL") \/ (d = "SELL" /\ e = "BUY")
    BY <1>1, SidesMirror
  <2> QED BY <2>2, <2>3 DEF Setup!MacroPoints, Setup!HtfBullish, Setup!Points
<1>4. Setup!Points(Setup!Confirmed(m, e), 1) = Setup!Points(Setup!Confirmed(c, d), 1)
  BY <1>1, MirrorConfirmed DEF Setup!Points
<1>5. Setup!Scorecard(m, e) = Setup!Scorecard(c, d)
  BY <1>2, <1>3, <1>4 DEF Setup!Scorecard
<1> QED BY <1>1, <1>5 DEF Setup!Total

\* Setup A.
LEMMA MirrorPullback ==
    ASSUME NEW c, Context(c), NEW d \in Setup!Sides
    PROVE  Setup!TrendPullback(Setup!Mirror(c), Setup!MirrorSide(d)) <=> Setup!TrendPullback(c, d)
<1>1. PICK m, e : m = Setup!Mirror(c) /\ e = Setup!MirrorSide(d)
  OBVIOUS
<1>2. PICK k, a, H, L, S, T : /\ k = Setup!Close(c) /\ a = c.ema50
                              /\ H = c.swingHigh /\ L = c.swingLow
                              /\ S = m.swingHigh /\ T = m.swingLow
  OBVIOUS
<1>3. /\ k \in Int /\ a \in Int /\ Setup!Close(m) = -k /\ m.ema50 = -a /\ m.atr = c.atr
  BY <1>1, <1>2, MirrorBars, MirrorContext, ContextFields
<1>4. Reflected(L, S) /\ Reflected(H, T)
  BY <1>1, <1>2, MirrorSwing
<1>5. (d = "BUY" /\ e = "SELL") \/ (d = "SELL" /\ e = "BUY")
  BY <1>1, SidesMirror
<1>6. Setup!RegimeSide(m) = e <=> Setup!RegimeSide(c) = d
  <2>1. Setup!RegimeSide(c) \in Setup!Zones
    BY DEF Setup!RegimeSide, Setup!Zones, Setup!Sides
  <2>2. Setup!RegimeSide(m) = Setup!MirrorSide(Setup!RegimeSide(c))
    BY <1>1, MirrorRegime
  <2> QED BY <1>1, <2>1, <2>2, SidesMirror
<1>7. Setup!Distance(Setup!Close(m), m.ema50) = Setup!Distance(Setup!Close(c), c.ema50)
  BY <1>2, <1>3 DEF Setup!Distance
<1> DEFINE within(h, l) == /\ h > l
                           /\ Setup!Retraced(c, h, l, d) >= RetraceMin * (h - l)
                           /\ Setup!Retraced(c, h, l, d) <= RetraceMax * (h - l)
           mwithin(h, l) == /\ h > l
                            /\ Setup!Retraced(m, h, l, e) >= RetraceMin * (h - l)
                            /\ Setup!Retraced(m, h, l, e) <= RetraceMax * (h - l)
<1>8. ASSUME NEW h \in Int, NEW l \in Int
      PROVE  mwithin(-l, -h) <=> within(h, l)
  <2>1. Setup!Retraced(m, -l, -h, e) = Setup!Retraced(c, h, l, d)
    BY <1>2, <1>3, <1>5, <1>8 DEF Setup!Retraced
  <2>2. -l - -h = h - l /\ (-l > -h <=> h > l)
    OBVIOUS
  <2> QED BY <2>1, <2>2
<1>9. (\E h \in S, l \in T : mwithin(h, l)) <=> (\E h \in H, l \in L : within(h, l))
  <2> HIDE DEF within, mwithin
  <2>1. ASSUME NEW h \in S, NEW l \in T, mwithin(h, l)
        PROVE  \E x \in H, y \in L : within(x, y)
    <3>1. /\ h \in Int /\ l \in Int /\ -l \in H /\ -h \in L
          /\ -l \in Int /\ -h \in Int /\ -(-h) = h /\ -(-l) = l
      BY <1>4 DEF Reflected
    <3>2. mwithin(-(-h), -(-l)) <=> within(-l, -h)
      BY <1>8, <3>1
    <3> QED BY <2>1, <3>1, <3>2
  <2>2. ASSUME NEW h \in H, NEW l \in L, within(h, l)
        PROVE  \E x \in S, y \in T : mwithin(x, y)
    <3>1. /\ h \in Int /\ l \in Int /\ -l \in Int /\ -h \in Int
          /\ -(-h) = h /\ -(-l) = l
      BY <1>4 DEF Reflected
    <3>2. -l \in S /\ -h \in T
      BY <1>4, <3>1 DEF Reflected
    <3>3. mwithin(-l, -h)
      BY <1>8, <2>2, <3>1
    <3> QED BY <3>2, <3>3
  <2> QED BY <2>1, <2>2
<1>10. /\ Setup!RsiWasReset(m, e) <=> Setup!RsiWasReset(c, d)
       /\ Setup!Confirmed(m, e) <=> Setup!Confirmed(c, d)
  BY <1>1, MirrorRsiPoints, MirrorConfirmed
<1>11. /\ Setup!TrendPullback(c, d) <=>
            /\ Setup!RegimeSide(c) = d
            /\ c.atr > 0
            /\ Setup!Distance(Setup!Close(c), c.ema50) <= EmaZone * c.atr
            /\ \E h \in H, l \in L : within(h, l)
            /\ Setup!RsiWasReset(c, d)
            /\ Setup!Confirmed(c, d)
       /\ Setup!TrendPullback(m, e) <=>
            /\ Setup!RegimeSide(m) = e
            /\ m.atr > 0
            /\ Setup!Distance(Setup!Close(m), m.ema50) <= EmaZone * m.atr
            /\ \E h \in S, l \in T : mwithin(h, l)
            /\ Setup!RsiWasReset(m, e)
            /\ Setup!Confirmed(m, e)
  BY <1>2 DEF Setup!TrendPullback
<1> HIDE DEF within, mwithin
<1> QED BY <1>1, <1>3, <1>6, <1>7, <1>9, <1>10, <1>11

\* The closes around the range, seen from either side.
LEMMA MirrorCloses ==
    ASSUME NEW c, Context(c), NEW d \in Setup!Sides
    PROVE  /\ Setup!Broke(Setup!Mirror(c), Setup!MirrorSide(d)) = Setup!Broke(c, d)
           /\ \A i \in DOMAIN c.bars :
                /\ Setup!Holding(Setup!Mirror(c), Setup!MirrorSide(d), i) <=> Setup!Holding(c, d, i)
                /\ Setup!Mirror(c).bars[i].v = c.bars[i].v
           /\ Setup!Level(c, d) \in Int
           /\ Setup!Level(Setup!Mirror(c), Setup!MirrorSide(d)) = -Setup!Level(c, d)
<1>1. PICK m, e : m = Setup!Mirror(c) /\ e = Setup!MirrorSide(d)
  OBVIOUS
<1>2. PICK h, l : h = c.range.high /\ l = c.range.low
  OBVIOUS
<1>3. h \in Int /\ l \in Int /\ m.range.high = -l /\ m.range.low = -h
  <2>1. h \in Int /\ l \in Int
    BY <1>2, ContextFields
  <2>2. m.range = [high |-> -l, low |-> -h]
    BY <1>1, <1>2, MirrorContext
  <2> QED BY <2>1, <2>2
<1>4. (d = "BUY" /\ e = "SELL") \/ (d = "SELL" /\ e = "BUY")
  BY <1>1, SidesMirror
<1>5. /\ DOMAIN m.bars = DOMAIN c.bars
      /\ \A i \in DOMAIN c.bars : /\ c.bars[i].c \in Int /\ m.bars[i].c = -c.bars[i].c
                                  /\ m.bars[i].v = c.bars[i].v
  <2>1. /\ DOMAIN m.bars = DOMAIN c.bars
        /\ \A i \in DOMAIN c.bars : c.bars[i] \in Setup!Bar /\ m.bars[i] = Flip(c.bars[i])
    BY <1>1, MirrorBars
  <2>2. \A b \in Setup!Bar : b.c \in Int /\ Flip(b).c = -b.c /\ Flip(b).v = b.v
    BY BarFields, FlippedBar
  <2> QED BY <2>1, <2>2
<1>6. Setup!Level(c, d) \in Int /\ Setup!Level(m, e) = -Setup!Level(c, d)
  BY <1>2, <1>3, <1>4 DEF Setup!Level
<1>7. ASSUME NEW i \in DOMAIN c.bars
      PROVE  /\ Setup!Holding(m, e, i) <=> Setup!Holding(c, d, i)
             /\ Setup!Beyond(m, e, i) <=> Setup!Beyond(c, d, i)
  <2>1. PICK k, n : k = c.bars[i].c /\ n = m.bars[i].c
    OBVIOUS
  <2>2. k \in Int /\ n = -k
    BY <1>5, <2>1
  <2>3. Setup!Holding(m, e, i) <=> Setup!Holding(c, d, i)
    <3>1. PICK x, y : x = Setup!Level(c, d) /\ y = Setup!Level(m, e)
      OBVIOUS
    <3>2. x \in Int /\ y = -x
      BY <1>6, <3>1
    <3>3. (n >= y <=> k <= x) /\ (n <= y <=> k >= x)
      BY <2>2, <3>2
    <3> QED BY <1>4, <2>1, <3>1, <3>3 DEF Setup!Holding
  <2>4. Setup!Beyond(m, e, i) <=> Setup!Beyond(c, d, i)
    <3>1. (n > m.range.high <=> k < l) /\ (n < m.range.low <=> k > h)
      BY <1>3, <2>2
    <3> QED BY <1>2, <1>4, <2>1, <3>1 DEF Setup!Beyond
  <2> QED BY <2>3, <2>4
<1>8. Setup!Broke(m, e) = Setup!Broke(c, d)
  BY <1>5, <1>7 DEF Setup!Broke
<1> QED BY <1>1, <1>5, <1>6, <1>7, <1>8

\* The first close beyond is one of the bars.
LEMMA FirstBreak ==
    ASSUME NEW c, Context(c), NEW d \in Setup!Sides, Setup!Broke(c, d) # {}
    PROVE  /\ Setup!Min(Setup!Broke(c, d)) \in DOMAIN c.bars
           /\ Setup!Beyond(c, d, Setup!Min(Setup!Broke(c, d)))
<1>1. Setup!Broke(c, d) \in SUBSET Nat
  BY MirrorBars DEF Setup!Broke
<1>2. Setup!Min(Setup!Broke(c, d)) \in Setup!Broke(c, d)
  BY <1>1, LeastNat
<1> QED BY <1>2 DEF Setup!Broke

\* Setup B, asked about one side: broken at the same bar, trapped by the same ones.
LEMMA MirrorBreakout ==
    ASSUME NEW c, Context(c), NEW d \in Setup!Sides
    PROVE  Setup!RangeBreakout(Setup!Mirror(c), Setup!MirrorSide(d)) <=> Setup!RangeBreakout(c, d)
<1>1. PICK m, e : m = Setup!Mirror(c) /\ e = Setup!MirrorSide(d)
  OBVIOUS
<1>2. PICK B : B = Setup!Broke(c, d)
  OBVIOUS
<1>3. Setup!Broke(m, e) = B
  BY <1>1, <1>2, MirrorCloses
<1>4. SUFFICES ASSUME B # {}
               PROVE  Setup!RangeBreakout(m, e) <=> Setup!RangeBreakout(c, d)
  BY <1>1, <1>2, <1>3 DEF Setup!RangeBreakout
<1>5. PICK first : first = Setup!Min(B)
  OBVIOUS
<1>6. first \in DOMAIN c.bars
  BY <1>2, <1>4, <1>5, FirstBreak
<1>7. /\ Len(m.bars) = Len(c.bars) /\ Len(c.bars) \in DOMAIN c.bars
      /\ DOMAIN c.bars = 1 .. Len(c.bars) /\ Len(c.bars) \in Nat
  <2>1. c.bars \in Seq(Setup!Bar)
    BY ContextFields
  <2> QED BY <1>1, <2>1, MirrorBars
<1>8. \A i \in DOMAIN c.bars : /\ Setup!Holding(m, e, i) <=> Setup!Holding(c, d, i)
                               /\ m.bars[i].v = c.bars[i].v
  BY <1>1, MirrorCloses
<1>9. Setup!NotTrapped(m, e, first) <=> Setup!NotTrapped(c, d, first)
  <2>1. \A i \in first + 1 .. Len(c.bars) : i \in DOMAIN c.bars
    BY <1>6, <1>7
  <2> QED BY <1>7, <1>8, <2>1 DEF Setup!NotTrapped
<1>10. /\ m.atr = c.atr /\ m.avgVolume = c.avgVolume
       /\ Setup!HasVolume(m) <=> Setup!HasVolume(c)
  BY <1>1, MirrorContext, MirrorVolumes
<1>11. m.range.high - m.range.low = c.range.high - c.range.low
  <2>1. PICK h, l : h = c.range.high /\ l = c.range.low
    OBVIOUS
  <2>2. h \in Int /\ l \in Int
    BY <2>1, ContextFields
  <2>3. m.range = [high |-> -l, low |-> -h]
    BY <1>1, <2>1, MirrorContext
  <2> QED BY <2>1, <2>2, <2>3
<1>12. Setup!Distance(Setup!Close(m), Setup!Level(m, e)) = Setup!Distance(Setup!Close(c), Setup!Level(c, d))
  <2>1. PICK k, x : k = Setup!Close(c) /\ x = Setup!Level(c, d)
    OBVIOUS
  <2>2. k \in Int /\ x \in Int /\ Setup!Close(m) = -k /\ Setup!Level(m, e) = -x
    BY <1>1, <2>1, MirrorBars, MirrorCloses
  <2> QED BY <2>1, <2>2 DEF Setup!Distance
<1>13. Setup!StrongBar(Setup!Last(m), e) <=> Setup!StrongBar(Setup!Last(c), d)
  BY <1>1, MirrorBars, FlippedSides
<1>14. /\ Setup!RangeBreakout(c, d) <=>
            /\ c.atr > 0
            /\ c.range.high - c.range.low <= BandAtr * c.atr
            /\ Setup!HasVolume(c) => 10 * c.bars[first].v >= VolMult * c.avgVolume
            /\ Setup!NotTrapped(c, d, first)
            /\ \/ /\ 10 * Setup!Distance(Setup!Close(c), Setup!Level(c, d)) <= RetestAtr * c.atr
                  /\ Setup!Holding(c, d, Len(c.bars))
               \/ first = Len(c.bars) /\ Setup!StrongBar(Setup!Last(c), d)
       /\ Setup!RangeBreakout(m, e) <=>
            /\ m.atr > 0
            /\ m.range.high - m.range.low <= BandAtr * m.atr
            /\ Setup!HasVolume(m) => 10 * m.bars[first].v >= VolMult * m.avgVolume
            /\ Setup!NotTrapped(m, e, first)
            /\ \/ /\ 10 * Setup!Distance(Setup!Close(m), Setup!Level(m, e)) <= RetestAtr * m.atr
                  /\ Setup!Holding(m, e, Len(m.bars))
               \/ first = Len(m.bars) /\ Setup!StrongBar(Setup!Last(m), e)
  BY <1>2, <1>3, <1>4, <1>5 DEF Setup!RangeBreakout
<1> QED BY <1>6, <1>7, <1>8, <1>9, <1>10, <1>11, <1>12, <1>13, <1>14

\* Of two breaks, one up and one down, the earlier is a trap.
LEMMA OneBreakout ==
    ASSUME NEW c, Context(c), Setup!RangeBreakout(c, "BUY"), Setup!RangeBreakout(c, "SELL")
    PROVE  FALSE
<1>1. /\ "BUY" \in Setup!Sides /\ "SELL" \in Setup!Sides
  BY DEF Setup!Sides
<1>2. PICK i, j : i = Setup!Min(Setup!Broke(c, "BUY")) /\ j = Setup!Min(Setup!Broke(c, "SELL"))
  OBVIOUS
<1>3. /\ Setup!Broke(c, "BUY") # {} /\ Setup!NotTrapped(c, "BUY", i)
      /\ Setup!Broke(c, "SELL") # {} /\ Setup!NotTrapped(c, "SELL", j)
  BY <1>2 DEF Setup!RangeBreakout
<1>4. /\ i \in DOMAIN c.bars /\ Setup!Beyond(c, "BUY", i)
      /\ j \in DOMAIN c.bars /\ Setup!Beyond(c, "SELL", j)
  BY <1>1, <1>2, <1>3, FirstBreak
<1>5. PICK h, l, n : h = c.range.high /\ l = c.range.low /\ n = Len(c.bars)
  OBVIOUS
<1>6. h \in Int /\ l \in Int /\ l <= h /\ n \in Nat /\ DOMAIN c.bars = 1 .. n
  <2>1. c.bars \in Seq(Setup!Bar) /\ h \in Int /\ l \in Int
    BY <1>5, ContextFields
  <2> QED BY <1>5, <2>1 DEF Context
<1>7. \A k \in DOMAIN c.bars : c.bars[k].c \in Int
  BY MirrorBars, BarFields
<1>8. c.bars[i].c > h /\ c.bars[j].c < l
  BY <1>4, <1>5 DEF Setup!Beyond
<1>9. /\ \A k \in i + 1 .. n : c.bars[k].c >= h
      /\ \A k \in j + 1 .. n : c.bars[k].c <= l
  BY <1>3, <1>5 DEF Setup!NotTrapped, Setup!Holding, Setup!Level
<1>10. c.bars[i].c \in Int /\ c.bars[j].c \in Int /\ i \in 1 .. n /\ j \in 1 .. n
  BY <1>4, <1>6, <1>7
<1>11. CASE i < j
  <2>1. c.bars[j].c >= h
    BY <1>6, <1>9, <1>10, <1>11
  <2> QED BY <1>6, <1>8, <1>10, <2>1
<1>12. CASE j < i
  <2>1. c.bars[i].c <= l
    BY <1>6, <1>9, <1>10, <1>12
  <2> QED BY <1>6, <1>8, <1>10, <2>1
<1>13. CASE i = j
  BY <1>6, <1>8, <1>10, <1>13
<1> QED BY <1>6, <1>10, <1>11, <1>12, <1>13

\* Every detector accepts the mirrored side, if it accepts the side.
LEMMA MirrorAccepts ==
    ASSUME NEW c, Context(c), NEW d \in Setup!Sides, c.htf # "none", NEW code
    PROVE  Setup!Accepts(Setup!Mirror(c), code, Setup!MirrorSide(d)) <=> Setup!Accepts(c, code, d)
<1>1. PICK m, e : m = Setup!Mirror(c) /\ e = Setup!MirrorSide(d)
  OBVIOUS
<1>2. /\ m.sweep = e <=> c.sweep = d
      /\ m.choch = e <=> c.choch = d
      /\ m.bos = e <=> c.bos = d
      /\ m.fvg = e <=> c.fvg = d
      /\ m.trend = e <=> c.trend = d
  <2>1. /\ c.sweep \in Setup!Zones /\ c.choch \in Setup!Zones /\ c.bos \in Setup!Zones
        /\ c.fvg \in Setup!Zones /\ c.trend \in Setup!Zones
    BY ContextFields DEF Setup!Zones
  <2>2. /\ m.sweep = Setup!MirrorSide(c.sweep) /\ m.choch = Setup!MirrorSide(c.choch)
        /\ m.bos = Setup!MirrorSide(c.bos) /\ m.fvg = Setup!MirrorSide(c.fvg)
        /\ m.trend = Setup!MirrorSide(c.trend)
    BY <1>1, MirrorContext
  <2>3. \A z \in Setup!Zones : Setup!MirrorSide(z) = e <=> z = d
    BY <1>1, SidesMirror
  <2> QED BY <2>1, <2>2, <2>3
<1>3. m.hunt = c.hunt /\ m.distribution = c.distribution
  BY <1>1, MirrorContext
<1>4. Setup!TurtleSoup(m, e) <=> Setup!TurtleSoup(c, d)
  BY <1>2 DEF Setup!TurtleSoup
<1>5. Setup!AMDPowerOfThree(m, e) <=> Setup!AMDPowerOfThree(c, d)
  BY <1>2, <1>3 DEF Setup!AMDPowerOfThree
<1>6. /\ Setup!TrendPullback(m, e) <=> Setup!TrendPullback(c, d)
      /\ Setup!RangeBreakout(m, e) <=> Setup!RangeBreakout(c, d)
  BY <1>1, MirrorPullback, MirrorBreakout
<1>7. Setup!Detects(m, code, e) <=> Setup!Detects(c, code, d)
  BY <1>4, <1>5, <1>6 DEF Setup!Detects
<1>8. /\ Setup!WickAgainst(Setup!Last(m), e) <=> Setup!WickAgainst(Setup!Last(c), d)
      /\ Setup!Raises(m) <=> Setup!Raises(c)
      /\ Setup!Total(m, e) = Setup!Total(c, d)
  BY <1>1, MirrorConfirmed, MirrorVolumes, MirrorTotal
<1> QED BY <1>1, <1>7, <1>8 DEF Setup!Accepts

Codes == {Setup!Code[i] : i \in DOMAIN Setup!Code}

\* The match a detector returns for a side.
Match(c, code, d) == [code |-> code, direction |-> d, score |-> Setup!Total(c, d)]

\* That detect_all looks for breakouts upwards first never matters.
LEMMA MatchesOf ==
    ASSUME NEW c, ~(Setup!Accepts(c, "B", "BUY") /\ Setup!Accepts(c, "B", "SELL"))
    PROVE  \A r : r \in Setup!Matches(c) <=>
             \E code \in Codes, d \in Setup!Sides : Setup!Accepts(c, code, d) /\ r = Match(c, code, d)
<1> DEFINE X == {x \in Codes \X Setup!Sides :
                   /\ Setup!Accepts(c, x[1], x[2])
                   /\ x = <<"B", "SELL">> => ~Setup!Accepts(c, "B", "BUY")}
<1>1. Setup!Matches(c)
        = {[code |-> x[1], direction |-> x[2], score |-> Setup!Total(c, x[2])] : x \in X}
  BY DEF Setup!Matches, Codes
<1>2. ASSUME NEW x \in X
      PROVE  /\ x[1] \in Codes /\ x[2] \in Setup!Sides /\ Setup!Accepts(c, x[1], x[2])
  OBVIOUS
<1>3. ASSUME NEW code \in Codes, NEW d \in Setup!Sides, Setup!Accepts(c, code, d)
      PROVE  <<code, d>> \in X
  <2>1. <<code, d>> = <<"B", "SELL">> => ~Setup!Accepts(c, "B", "BUY")
    BY <1>3
  <2>2. <<code, d>> \in Codes \X Setup!Sides /\ <<code, d>>[1] = code /\ <<code, d>>[2] = d
    OBVIOUS
  <2> QED BY <1>3, <2>1, <2>2
<1> HIDE DEF X
<1>4. ASSUME NEW r \in Setup!Matches(c)
      PROVE  \E code \in Codes, d \in Setup!Sides : Setup!Accepts(c, code, d) /\ r = Match(c, code, d)
  <2>1. PICK x \in X : r = [code |-> x[1], direction |-> x[2], score |-> Setup!Total(c, x[2])]
    BY <1>1, <1>4
  <2>2. r = Match(c, x[1], x[2])
    BY <2>1 DEF Match
  <2> QED BY <1>2, <2>2
<1>5. ASSUME NEW code \in Codes, NEW d \in Setup!Sides, Setup!Accepts(c, code, d)
      PROVE  Match(c, code, d) \in Setup!Matches(c)
  <2>1. PICK x \in X : x = <<code, d>>
    BY <1>3, <1>5
  <2>2. x[1] = code /\ x[2] = d
    BY <2>1
  <2>3. Match(c, code, d) = [code |-> x[1], direction |-> x[2], score |-> Setup!Total(c, x[2])]
    BY <2>2 DEF Match
  <2> QED BY <1>1, <2>3
<1> QED BY <1>4, <1>5

\* A context has been handed out, or none has.
SetupInv == context \in Contexts \/ context = Setup!NoContext

\* The context at hand is one the engines may fill.
LEMMA SetupInvHolds == Setup!Spec => []SetupInv
<1>1. Setup!Init => SetupInv
  BY DEF Setup!Init, SetupInv
<1>2. SetupInv /\ [Setup!Next]_(Setup!vars) => SetupInv'
  BY DEF SetupInv, Setup!Next, Setup!vars, Setup!Look, Setup!Detect, Setup!PassEnds
<1> QED BY <1>1, <1>2, PTL DEF Setup!Spec

(* For every context whose higher timeframe has a trend and every          *)
(* threshold: the chart upside down has the same setups on the other side, *)
(* with the same scores.                                                   *)
THEOREM StrategiesMirrorHolds == Setup!Spec => []StrategiesMirror
<1>1. ASSUME NEW c \in Contexts, c.htf # "none"
      PROVE  Setup!Matches(Setup!Mirror(c))
               = {[k EXCEPT !.direction = Setup!MirrorSide(@)] : k \in Setup!Matches(c)}
  <2>1. Context(c)
    BY SignalAssumption DEF Setup!ContextsAssumption, Context
  <2>2. PICK m : m = Setup!Mirror(c)
    OBVIOUS
  <2>3. \A code, d : d \in Setup!Sides =>
          (Setup!Accepts(m, code, Setup!MirrorSide(d)) <=> Setup!Accepts(c, code, d))
    BY <1>1, <2>1, <2>2, MirrorAccepts
  <2>4. /\ "BUY" \in Setup!Sides /\ "SELL" \in Setup!Sides
        /\ Setup!MirrorSide("BUY") = "SELL" /\ Setup!MirrorSide("SELL") = "BUY"
    BY DEF Setup!Sides, Setup!MirrorSide
  <2>5. ~(Setup!Accepts(c, "B", "BUY") /\ Setup!Accepts(c, "B", "SELL"))
    <3> SUFFICES ASSUME Setup!Accepts(c, "B", "BUY"), Setup!Accepts(c, "B", "SELL") PROVE FALSE
      OBVIOUS
    <3>1. Setup!RangeBreakout(c, "BUY") /\ Setup!RangeBreakout(c, "SELL")
      BY DEF Setup!Accepts, Setup!Detects
    <3> QED BY <2>1, <3>1, OneBreakout
  <2>6. ~(Setup!Accepts(m, "B", "BUY") /\ Setup!Accepts(m, "B", "SELL"))
    <3>1. /\ Setup!Accepts(m, "B", Setup!MirrorSide("BUY")) <=> Setup!Accepts(c, "B", "BUY")
          /\ Setup!Accepts(m, "B", Setup!MirrorSide("SELL")) <=> Setup!Accepts(c, "B", "SELL")
      BY <2>3, <2>4
    <3> QED BY <2>4, <2>5, <3>1
  <2>7. \A code, d : d \in Setup!Sides =>
          /\ Setup!MirrorSide(d) \in Setup!Sides /\ Setup!MirrorSide(Setup!MirrorSide(d)) = d
          /\ Match(m, code, Setup!MirrorSide(d))
               = [Match(c, code, d) EXCEPT !.direction = Setup!MirrorSide(@)]
    <3> SUFFICES ASSUME NEW code, NEW d \in Setup!Sides
                 PROVE  /\ Setup!MirrorSide(d) \in Setup!Sides
                        /\ Setup!MirrorSide(Setup!MirrorSide(d)) = d
                        /\ Match(m, code, Setup!MirrorSide(d))
                             = [Match(c, code, d) EXCEPT !.direction = Setup!MirrorSide(@)]
      OBVIOUS
    <3>1. Setup!Total(m, Setup!MirrorSide(d)) = Setup!Total(c, d)
      BY <1>1, <2>1, <2>2, MirrorTotal
    <3> QED BY <3>1, SidesMirror DEF Match
  <2>8. /\ \A r : r \in Setup!Matches(c) <=>
             \E code \in Codes, d \in Setup!Sides : Setup!Accepts(c, code, d) /\ r = Match(c, code, d)
        /\ \A r : r \in Setup!Matches(m) <=>
             \E code \in Codes, d \in Setup!Sides : Setup!Accepts(m, code, d) /\ r = Match(m, code, d)
    BY <2>5, <2>6, MatchesOf
  <2>9. ASSUME NEW r \in Setup!Matches(m)
        PROVE  \E k \in Setup!Matches(c) : r = [k EXCEPT !.direction = Setup!MirrorSide(@)]
    <3>1. PICK code \in Codes, e \in Setup!Sides : Setup!Accepts(m, code, e) /\ r = Match(m, code, e)
      BY <2>8, <2>9
    <3>2. PICK d : d = Setup!MirrorSide(e)
      OBVIOUS
    <3>3. d \in Setup!Sides /\ e = Setup!MirrorSide(d)
      BY <2>7, <3>2
    <3>4. Setup!Accepts(c, code, d)
      BY <2>3, <3>1, <3>3
    <3>5. Match(c, code, d) \in Setup!Matches(c)
      BY <2>8, <3>3, <3>4
    <3>6. r = [Match(c, code, d) EXCEPT !.direction = Setup!MirrorSide(@)]
      BY <2>7, <3>1, <3>3
    <3> QED BY <3>5, <3>6
  <2>10. ASSUME NEW k \in Setup!Matches(c)
         PROVE  [k EXCEPT !.direction = Setup!MirrorSide(@)] \in Setup!Matches(m)
    <3>1. PICK code \in Codes, d \in Setup!Sides : Setup!Accepts(c, code, d) /\ k = Match(c, code, d)
      BY <2>8, <2>10
    <3>2. PICK e : e = Setup!MirrorSide(d)
      OBVIOUS
    <3>3. e \in Setup!Sides /\ Setup!Accepts(m, code, e)
      BY <2>3, <2>7, <3>1, <3>2
    <3>4. Match(m, code, e) \in Setup!Matches(m)
      BY <2>8, <3>3
    <3>5. Match(m, code, e) = [k EXCEPT !.direction = Setup!MirrorSide(@)]
      BY <2>7, <3>1, <3>2
    <3> QED BY <3>4, <3>5
  <2>11. Setup!Matches(m) = {[k EXCEPT !.direction = Setup!MirrorSide(@)] : k \in Setup!Matches(c)}
    BY <2>9, <2>10
  <2> QED BY <2>2, <2>11
<1>2. SetupInv => StrategiesMirror
  BY <1>1 DEF SetupInv, StrategiesMirror, Setup!StrategiesMirror
<1> QED BY <1>2, SetupInvHolds, PTL
=============================================================================
