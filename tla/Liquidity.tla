------------------------------ MODULE Liquidity ------------------------------
(***************************************************************************)
(* LiquidityEngine: equal swing highs and lows form pools (_cluster), the  *)
(* last bar sweeps a pool when its wick goes through and its close comes   *)
(* back, a sweep may be a stop hunt, and pools, sweep and distance add up  *)
(* to the score (analyze, _score).  Swings are a bag of prices per kind,   *)
(* since _cluster sorts them; a pool is the set of its prices.  The ATR    *)
(* and with it the tolerance are those of the last bar, anew on every      *)
(* pass.  Prices are in ticks; the average price of a pool is kept exact   *)
(* as a sum over a count.                                                  *)
(***************************************************************************)
EXTENDS ScoreMath, FiniteSets, FiniteSetsExt

CONSTANTS Prices,      \* prices of swings
          LastBars,    \* [op, hi, lo, close, loud, atr]: loud if the volume is
                       \* at least 0.9 of its average
          Tolerance,   \* equal_tolerance_atr, in tenths
          MinTouches,  \* minimum_touches
          MaxSwings    \* bound: swings of a kind

PricesAssumption == Prices \subseteq Int /\ Prices # {}
TolAssumption == Tolerance \in Nat /\ MinTouches \in Nat /\ MinTouches >= 2
LastBarsAssumption == \A b \in LastBars : /\ {b.op, b.close} \subseteq b.lo .. b.hi
                                          /\ b.atr \in Nat \ {0}

VARIABLES swings,   \* [{"high", "low"} -> [Prices -> Nat]]: touches per price
          bar       \* the last candle, with the ATR up to it

vars == <<swings, bar>>

Kinds == {"high", "low"}
Abs(x) == IF x < 0 THEN -x ELSE x

-----------------------------------------------------------------------------
(* _cluster *)

Points(k) == {p \in Prices : swings[k][p] > 0}
Between(p, q) == {x \in Prices : (p <= x /\ x < q) \/ (q <= x /\ x < p)}

\* Two prices are equal within equal_tolerance_atr * atr.
Within(p, q) == 10 * Abs(p - q) <= Tolerance * bar.atr

\* From the lower to the higher of the two, every price is followed by another
\* one within the tolerance.
Linked(k, p, q) == \A x \in Between(p, q) \cap Points(k) :
    \E y \in Points(k) : x < y /\ Within(x, y)

Groups(k) == {{q \in Points(k) : Linked(k, p, q)} : p \in Points(k)}
Touches(k, G) == MapThenSumSet(LAMBDA p : swings[k][p], G)
Volume(k, G) == MapThenSumSet(LAMBDA p : p * swings[k][p], G)   \* price * touches

\* Wrong on purpose: the group that is open after the last price is forgotten.
Pools_NoFlush(k) == {G \in Groups(k) : /\ Touches(k, G) >= MinTouches
                                       /\ Max(G) # Max(Points(k))}

Pools(k) == {G \in Groups(k) : Touches(k, G) >= MinTouches}

-----------------------------------------------------------------------------
(* Sweeps by the last candle *)

SweptLow(G) == /\ bar.lo * Touches("low", G) < Volume("low", G)
               /\ Volume("low", G) <= bar.close * Touches("low", G)

SweptHigh(G) == /\ bar.hi * Touches("high", G) > Volume("high", G)
                /\ Volume("high", G) >= bar.close * Touches("high", G)

\* sweep_direction: the pools below are looked at last.
SweepDirection == IF \E G \in Pools("low") : SweptLow(G) THEN "bullish"
                  ELSE IF \E G \in Pools("high") : SweptHigh(G) THEN "bearish"
                  ELSE "none"

Swept == SweepDirection # "none"

\* A sweep by a wide candle with a body of two fifths, on enough volume.
StopHunt == /\ Swept /\ bar.loud
            /\ 10 * (bar.hi - bar.lo) > 8 * bar.atr
            /\ 10 * Abs(bar.close - bar.op) >= 4 * (bar.hi - bar.lo)

-----------------------------------------------------------------------------
(* The nearest pool and the score *)

AllPools == {[kind |-> "high", at |-> G] : G \in Pools("high")}
            \cup {[kind |-> "low", at |-> G] : G \in Pools("low")}

\* The distance of a pool's average to the close, as a fraction.
Away(P) == [n |-> Abs(Volume(P.kind, P.at) - bar.close * Touches(P.kind, P.at)),
            d |-> Touches(P.kind, P.at)]
NoFarther(P, Q) == Away(P).n * Away(Q).d <= Away(Q).n * Away(P).d

\* Of equally near pools, those above come first, the lower one before.
Precedes(P, Q) == \/ P.kind = "high" /\ Q.kind = "low"
                  \/ P.kind = Q.kind /\ Min(P.at) <= Min(Q.at)

Nearest == LET near == {P \in AllPools : \A Q \in AllPools : NoFarther(P, Q)}
           IN  CHOOSE P \in near : \A Q \in near : Precedes(P, Q)

\* _score: pool strength, pool count, sweep, stop hunt, nearness within 1.5 ATR.
Score ==
    IF AllPools = {} THEN 0
    ELSE LET touches == Max({Touches(P.kind, P.at) : P \in AllPools})
             whole == Smaller(30, 10 * touches) + Smaller(15, 5 * Cardinality(AllPools))
                      + Award(Swept, 20) + Award(StopHunt, 20)
             d == Away(Nearest).d * bar.atr
         IN  Clamp(Rounded(whole * d + Larger(0, 15 * d - 10 * Away(Nearest).n), d))

-----------------------------------------------------------------------------
Init == /\ swings = [k \in Kinds |-> [p \in Prices |-> 0]]
        /\ bar \in LastBars

NewSwing(k) ==
    /\ MapThenSumSet(LAMBDA p : swings[k][p], Prices) < MaxSwings
    /\ \E p \in Prices : swings' = [swings EXCEPT ![k][p] = @ + 1]
    /\ UNCHANGED bar

\* The oldest swing leaves the frame, or the forming bar unmakes the newest.
SwingLeaves(k) ==
    /\ \E p \in Points(k) : swings' = [swings EXCEPT ![k][p] = @ - 1]
    /\ UNCHANGED bar

\* The last candle moves or another one follows it, and the ATR with it.
NewBar == bar' \in LastBars /\ UNCHANGED swings

Next == NewBar \/ \E k \in Kinds : NewSwing(k) \/ SwingLeaves(k)
Spec == Init /\ [][Next]_vars

-----------------------------------------------------------------------------
(* Equal highs and equal lows are never missed nor split: two swings of a  *)
(* kind at the same price or within tolerance of each other are in one     *)
(* pool.                                                                   *)
EqualSwingsPool == \A k \in Kinds : \A p, q \in Points(k) :
    (IF p = q THEN swings[k][p] >= 2 ELSE Within(p, q))
        => \E G \in Pools(k) : {p, q} \subseteq G

(* Resting liquidity persists: as long as no swing of its own leaves and   *)
(* the ATR does not fall, a pool stays part of a pool with at least as     *)
(* many touches, whatever swings come and go around it.                    *)
PoolsPersist ==
    [][\A k \in Kinds : \A G \in Pools(k) :
         /\ bar'.atr >= bar.atr
         /\ \A p \in G : swings'[k][p] >= swings[k][p]
         => \E H \in Pools(k)' : G \subseteq H /\ Touches(k, G) <= Touches(k, H)']_vars

(* A pool is lost only with a swing of its own; TLC refutes it where the   *)
(* ATR and with it the tolerance falls: the pool falls apart.              *)
PoolsOutliveAtr ==
    [][\A k \in Kinds : \A G \in Pools(k) : (\A p \in G : swings'[k][p] >= swings[k][p])
         => \E H \in Pools(k)' : G \subseteq H]_vars

(* One candle is never read against itself: a bearish sweep closes no      *)
(* higher than a swing high it swept, and a bar that closes above every    *)
(* swing high, a breakout, is not a bearish sweep.                         *)
BreakoutIsNoSweep ==
    Points("high") # {} /\ (\A p \in Points("high") : bar.close > p)
        => SweepDirection # "bearish"

(* Swings "whose prices sit within tol" form a pool: any two of them do.   *)
PoolWithinTol == \A k \in Kinds : \A G \in Pools(k) :
    Within(Min(G), Max(G))

(* "SSL below lows": the stops of a pool rest below its lows, so a bullish *)
(* sweep goes through one of the lows it takes.                            *)
SweepReachesStops == SweepDirection = "bullish" =>
    \E G \in Pools("low") : SweptLow(G) /\ bar.lo < Min(G)

(* The score earns its B grade, 65, only by a sweep: pools alone, however  *)
(* many, near and often touched, never do.                                 *)
PoolsAloneAreNoSetup == Score >= 65 => Swept

(* "swept SSL then rejected up": the candle of a bullish stop hunt closes  *)
(* above its open.                                                         *)
StopHuntRejects == StopHunt /\ SweepDirection = "bullish" => bar.close > bar.op

(* The liquidity level of a signal with a sweep, the price of Nearest, is  *)
(* the "swept liquidity pool price": this candle swept it.                 *)
LevelWasSwept == Swept =>
    IF Nearest.kind = "low" THEN SweptLow(Nearest.at) ELSE SweptHigh(Nearest.at)
=============================================================================
