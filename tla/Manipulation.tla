----------------------------- MODULE Manipulation -----------------------------
(***************************************************************************)
(* ManipulationEngine.analyze: a bar of the last few whose wick broke the  *)
(* extreme of the bars before it, on no more volume than usual, and whose  *)
(* close came back has trapped those who followed.  The program looks for  *)
(* the extreme and averages the volume over the same number of bars.       *)
(***************************************************************************)
EXTENDS Candles       \* Bars are [hi, lo, close, vol]

CONSTANTS RecentBars, \* bars in which a trap is fresh: 4
          Lookback    \* bars before it: 20

TrapAssumption == /\ FrameAssumption /\ RecentBars \in Nat \ {0} /\ Lookback \in Nat \ {0}
                  /\ Bars \subseteq [hi : Int, lo : Int, close : Int, vol : Nat]

Checked(f) == IF Len(f) < Lookback + RecentBars + 2 THEN {}
              ELSE Len(f) - RecentBars + 1 .. Len(f)

\* Wrong on purpose: bars that came later count too.
Prior_ToEnd(f, i) == (i - Lookback .. Len(f)) \ {i}

Prior(f, i) == i - Lookback .. i - 1
PriorHigh(f, i) == Max({f[j].hi : j \in Prior(f, i)})
PriorLow(f, i) == Min({f[j].lo : j \in Prior(f, i)})

\* Less than 1.2 times the average, or no volume to speak of.
WeakVolume(f, i) == LET sum == MapThenSumSet(LAMBDA j : f[j].vol, Prior(f, i))
                    IN  sum = 0 \/ 10 * Lookback * f[i].vol < 12 * sum

BullTrapAt(f, i) == /\ f[i].hi > PriorHigh(f, i) /\ f[i].close < PriorHigh(f, i)
                    /\ WeakVolume(f, i)
BearTrapAt(f, i) == /\ f[i].lo < PriorLow(f, i) /\ f[i].close > PriorLow(f, i)
                    /\ WeakVolume(f, i)

BullTraps(f) == {i \in Checked(f) : BullTrapAt(f, i)}
BearTraps(f) == {i \in Checked(f) : BearTrapAt(f, i)}

\* One side is reported, the bull trap first.
TrappedDirection(f) == IF BullTraps(f) # {} THEN "BUY"
                       ELSE IF BearTraps(f) # {} THEN "SELL" ELSE "none"

\* What the liquidity engine saw: a sweep, and whether it was a stop hunt.
Inducement(swept, hunt) == swept /\ hunt
ManipScore(f, swept, hunt) ==
    IF Len(f) < Lookback + RecentBars + 2 THEN 0
    ELSE (IF TrappedDirection(f) # "none" THEN 40 ELSE 0)
         + (IF Inducement(swept, hunt) THEN 30 ELSE 0) + (IF swept THEN 30 ELSE 0)

-----------------------------------------------------------------------------
(* "No lookahead": the verdict on a bar is final once the bar has closed.  *)
(* As long as the bar is recent, whatever the next pass sees, a forming    *)
(* bar that moved, a bar more or a frame that slid, neither makes a trap   *)
(* of a closed bar nor unmakes one.                                        *)
TrapVerdictStands ==
    [][\A i \in Checked(frame) \cap Closed(frame) : Moved(i) \in Checked(frame') =>
         /\ i \in BullTraps(frame) <=> Moved(i) \in BullTraps(frame')
         /\ i \in BearTraps(frame) <=> Moved(i) \in BearTraps(frame')]_frame

(* A side that was reported trapped is so until the trap is old; TLC       *)
(* refutes it where the trap is the forming bar and its close moves on.    *)
TrapHolds ==
    [][\A i \in BullTraps(frame) : Moved(i) \in Checked(frame') =>
         Moved(i) \in BullTraps(frame')]_frame
=============================================================================
