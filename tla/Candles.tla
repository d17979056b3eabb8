------------------------------- MODULE Candles -------------------------------
(***************************************************************************)
(* The frame of candles an engine is handed, as it changes from one pass   *)
(* to the next: the newest bar of a live source is still forming and moves *)
(* in place, a new bar comes after it, and once the source's count is      *)
(* reached the oldest bar leaves for it.  The backtest only appends bars.  *)
(* Every engine is a function of the frame; a pass may see several steps.  *)
(***************************************************************************)
EXTENDS Integers, Sequences, FiniteSets, FiniteSetsExt

CONSTANTS Bars,       \* the bars the market can print
          MaxBars     \* the count that is fetched; bounds the frames checked

VARIABLE frame        \* the candles, oldest first

FrameAssumption == MaxBars \in Nat \ {0} /\ \A b \in Bars : b.lo <= b.hi

Init == \E b \in Bars : frame = <<b>>
NewBar == /\ Len(frame) < MaxBars
          /\ \E b \in Bars : frame' = Append(frame, b)
Slide == /\ Len(frame) = MaxBars
         /\ \E b \in Bars : frame' = Append(Tail(frame), b)

\* A bar that forms: its high and its low only widen, its volume only grows
\* and it keeps its open.
Forms(b, c) == /\ b.hi <= c.hi /\ c.lo <= b.lo
               /\ "op" \in DOMAIN b => c.op = b.op
               /\ "vol" \in DOMAIN b => b.vol <= c.vol
Tick == \E c \in Bars : /\ Forms(frame[Len(frame)], c)
                        /\ frame' = [frame EXCEPT ![Len(frame)] = c]

Next == NewBar \/ Slide \/ Tick
Spec == Init /\ [][Next]_frame

\* Where bar i of the frame is found after the step.
Moved(i) == IF Slide THEN i - 1 ELSE i

\* The bars that have closed: all but the newest one.
Closed(f) == 1 .. Len(f) - 1
=============================================================================
