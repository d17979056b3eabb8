---------------------------- MODULE SignalLevels ----------------------------
(***************************************************************************)
(* RuleEngine._build_signal: the stop behind the protective structure, and *)
(* entry, stop and targets on the instrument's tick grid.                  *)
(*                                                                         *)
(* Market prices are in units of 1/Sub tick, levels in ticks; a SELL is    *)
(* the chart upside down.  The program computes in binary floating point:  *)
(* where a quotient is exactly an integer, math.ceil may see a little more *)
(* and go one tick up, and a reward that is exactly the minimum may        *)
(* compare as below it.  Both are choices here.                            *)
(***************************************************************************)
EXTENDS Integers

CONSTANTS Sub,     \* units per tick
          Closes,  \* last close, in units
          Atrs,    \* average true range, in units, multiples of 10
          Levels,  \* prices of blocks and swings, in units
          MinRR    \* minimum_rr

ASSUME SubAssumption == Sub \in Nat \ {0}
ASSUME PricesAssumption ==
    Closes \subseteq Int /\ Levels \subseteq Int /\ Atrs \subseteq Nat
ASSUME MinRRAssumption == MinRR \in Nat \ {0}

VARIABLES
  chart,   \* direction (1 for BUY, -1 for SELL), close, atr, block and swing
  signal   \* the signal built, or what came of the attempt

vars == <<chart, signal>>

None == [known |-> FALSE]
Some(p) == [known |-> TRUE, price |-> p]

\* order_block.best, of either type: the edge on the stop's side.
Blocks == {None} \cup [known : {TRUE}, price : Levels, aligned : BOOLEAN]
Swings == {None} \cup [known : {TRUE}, price : Levels]
Charts == [side : {1, -1}, close : Closes, atr : Atrs, block : Blocks, swing : Swings]

NoChart == [side |-> 0]
NoSignal == [built |-> "not yet"]
Declined == [built |-> "declined"]
Signals == [built : {"signal"}, entry : Int, stop : Int, tp1 : Int, tp2 : Int, tp3 : Int]

-----------------------------------------------------------------------------
Lower(a, b) == IF a < b THEN a ELSE b

\* A price seen from the trade's side: the stop is always below the entry.
Seen(c, p) == c.side * p

\* The far edge of the best block, else the last swing, else 1.5 ATR away.
Protective(c) == IF c.block.known THEN Seen(c, c.block.price)
                 ELSE IF c.swing.known THEN Seen(c, c.swing.price)
                 ELSE Seen(c, c.close) - (15 * c.atr) \div 10

\* Wrong on purpose: the nearer of the two is taken.
RawStop_Nearer(c) ==
    (IF Protective(c) > Seen(c, c.close) - c.atr THEN Protective(c)
     ELSE Seen(c, c.close) - c.atr) - c.atr \div 10

\* At least one ATR away, and a tenth of one behind.
RawStop(c) == Lower(Protective(c), Seen(c, c.close) - c.atr) - c.atr \div 10

\* rnd: the nearest tick, either one when two are as near.
IsNearest(t, p) == 2 * (t * Sub - p) <= Sub /\ 2 * (p - t * Sub) <= Sub
Nearest(p) == {t \in {p \div Sub, p \div Sub + 1} : IsNearest(t, p)}

\* target(num / den): the distance in ticks, rounded up.
Distance(d, num, den, r) ==
    \/ d * den >= num * r /\ (d - 1) * den < num * r
    \/ (d - 1) * den = num * r

Distances(num, den, r) ==
    {d \in {(num * r) \div den, (num * r) \div den + 1} : Distance(d, num, den, r)}

-----------------------------------------------------------------------------
Unpriced == chart # NoChart /\ signal = NoSignal

Priced(e, stop, d1, d2, d3) ==
    [built |-> "signal", entry |-> e, stop |-> stop,
     tp1 |-> e + d1, tp2 |-> e + d2, tp3 |-> e + d3]

\* Wrong on purpose: R is taken before the prices are rounded.
Build_RawR ==
    /\ Unpriced
    /\ \E e \in Nearest(Seen(chart, chart.close)), stop \in Nearest(RawStop(chart)) :
         LET raw == Seen(chart, chart.close) - RawStop(chart) IN
         \E d1 \in Distances(3, 2, e - stop), d2 \in Nearest(MinRR * raw),
            d3 \in Distances(4, 1, e - stop) : signal' = Priced(e, stop, d1, d2, d3)
    /\ UNCHANGED chart

\* _build_signal
Build ==
    /\ Unpriced
    /\ \E e \in Nearest(Seen(chart, chart.close)), stop \in Nearest(RawStop(chart)) :
         LET r == e - stop IN
         \/ r <= 0 /\ signal' = Declined
         \/ /\ r > 0
            /\ \E d1 \in Distances(3, 2, r), d2 \in Distances(MinRR, 1, r),
                  d3 \in Distances(4, 1, r) :
                 \/ signal' = Priced(e, stop, d1, d2, d3)
                 \/ d2 = MinRR * r /\ signal' = Declined
    /\ UNCHANGED chart

\* evaluate has taken a decision on the candles and comes to price it.
Look == /\ chart = NoChart
        /\ chart' \in Charts
        /\ UNCHANGED signal

\* The decision is returned; the next chart will be another one.
PassEnds == /\ signal # NoSignal
            /\ chart' = NoChart /\ signal' = NoSignal

Init == chart = NoChart /\ signal = NoSignal

Next == Look \/ Build \/ PassEnds

Spec == Init /\ [][Next]_vars

-----------------------------------------------------------------------------
TypeOK == /\ chart \in Charts \cup {NoChart}
          /\ signal \in {NoSignal, Declined} \/ signal \in Signals

Built == signal.built = "signal"

(* The risk engine recomputes the reward from the stored levels: it is     *)
(* never below the minimum, whatever the rounding did.                     *)
RewardHolds ==
    Built => /\ signal.stop < signal.entry
             /\ signal.tp2 - signal.entry >= MinRR * (signal.entry - signal.stop)

(* Stop, entry and the three targets are in order, each at its own price,  *)
(* as long as the stop is at least three ticks away.                       *)
LevelsOrdered ==
    Built /\ signal.entry - signal.stop >= 3 =>
        /\ signal.stop < signal.entry /\ signal.entry < signal.tp1
        /\ signal.tp1 < signal.tp2 /\ signal.tp2 < signal.tp3

(* The stop is never inside the market's noise: it is an ATR and a tenth   *)
(* from the close, but for the rounding of two prices to a tick.           *)
StopOutsideNoise ==
    Built => (signal.entry - signal.stop + 1) * Sub >= chart.atr + chart.atr \div 10

(* The stop lies beyond the protective swing unless an aligned block has   *)
(* taken its place.                                                        *)
StopBeyondSwing ==
    Built /\ chart.swing.known /\ (chart.block.known => ~chart.block.aligned) =>
        signal.stop * Sub <= Seen(chart, chart.swing.price)

(* "A rounding tick can never shrink realized R": a chart with a stop at   *)
(* least a tick away gives a signal.                                       *)
RoundingLosesNoSignal ==
    chart # NoChart => (chart.atr > 0 => signal # Declined)
=============================================================================
