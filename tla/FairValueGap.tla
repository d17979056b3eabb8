---------------------------- MODULE FairValueGap ----------------------------
(***************************************************************************)
(* FVGEngine.analyze on a frame that changes from pass to pass (Candles):  *)
(* three-candle gaps, how far later candles have filled them, and which    *)
(* are still active.  What a gap must measure and what it scores is taken  *)
(* from the ATR of the newest bar, anew on every pass.  Prices are ticks;  *)
(* the score is kept exact by comparing it multiplied by the ATR and by    *)
(* the size of the gap.                                                    *)
(***************************************************************************)
EXTENDS Candles      \* Bars are [hi, lo, body, atr]: body = |close - open|

CONSTANTS MinGap,    \* minimum_gap_atr, in hundredths
          MinScore,  \* minimum_score
          MaxAge     \* maximum_gap_age_bars

BoundsAssumption == MinGap \in Nat /\ MinScore \in 1 .. 100 /\ MaxAge \in Nat
BarsAssumption == /\ FrameAssumption
                  /\ Bars \subseteq [hi : Int, lo : Int, body : Nat, atr : Nat \ {0}]

-----------------------------------------------------------------------------
(* Gaps, named by their middle candle *)

LastAtr(f) == f[Len(f)].atr

Inner(f) == {i \in 2 .. Len(f) - 1 : Len(f) - i < MaxAge}
IsBullish(f, i) == f[i - 1].hi < f[i + 1].lo
IsBearish(f, i) == f[i + 1].hi < f[i - 1].lo

GapLow(f, i) == IF IsBullish(f, i) THEN f[i - 1].hi ELSE f[i + 1].hi
GapHigh(f, i) == IF IsBullish(f, i) THEN f[i + 1].lo ELSE f[i - 1].lo
Size(f, i) == GapHigh(f, i) - GapLow(f, i)

Gaps(f) == {i \in Inner(f) : /\ IsBullish(f, i) \/ IsBearish(f, i)
                             /\ 100 * Size(f, i) >= MinGap * LastAtr(f)}

\* The deepest retracement into the gap since it formed.
After(f, i) == i + 1 .. Len(f)
Deepest(f, i) == IF IsBullish(f, i) THEN Min({f[j].lo : j \in After(f, i)})
                                    ELSE Max({f[j].hi : j \in After(f, i)})
\* Wrong on purpose: only the last candle is looked at.
Fill_LastBar(f, i) == Min({Size(f, i), Max({0,
    IF IsBullish(f, i) THEN GapHigh(f, i) - f[Len(f)].lo
                       ELSE f[Len(f)].hi - GapLow(f, i)})})

\* filled_pct, in ticks of the gap
Fill(f, i) == Min({Size(f, i), IF IsBullish(f, i) THEN GapHigh(f, i) - Deepest(f, i)
                                                  ELSE Deepest(f, i) - GapLow(f, i)})

Filled(f, i) == 100 * Fill(f, i) >= 99 * Size(f, i)

\* 45 + size, displacement and freshness, times ATR * Size; round() to MinScore
\* is half a point below it.
Scored(f, i) ==
    LET s == Size(f, i)
        atr == LastAtr(f)
    IN  2 * (s * (45 * atr + Min({25 * atr, 50 * s}) + Min({20 * atr, 20 * f[i].body}))
             + 10 * atr * (s - Fill(f, i)))
          >= (2 * MinScore - 1) * atr * s

Active(f) == {i \in Gaps(f) : Scored(f, i) /\ ~Filled(f, i)}

-----------------------------------------------------------------------------
\* Gaps between candles that have closed, wide enough for this ATR or not.
Formed(f) == {i \in 2 .. Len(f) - 2 : IsBullish(f, i) \/ IsBearish(f, i)}

(* A gap is used up once and for all.  Whatever the next pass sees, a      *)
(* forming bar that moved, a bar more, a frame that slid, any other ATR:   *)
(* a gap between closed candles that is still in the frame has the same    *)
(* side and edges and no less of it is filled, and one that was filled is  *)
(* no active zone of the rule engine again, however its score may rise.    *)
FilledGapStaysFilled ==
    [][\A i \in Formed(frame) : Moved(i) > 1 =>
         /\ IsBullish(frame', Moved(i)) = IsBullish(frame, i)
         /\ GapLow(frame', Moved(i)) = GapLow(frame, i)
         /\ GapHigh(frame', Moved(i)) = GapHigh(frame, i)
         /\ Fill(frame', Moved(i)) >= Fill(frame, i)
         /\ Filled(frame, i) => Moved(i) \notin Active(frame')]_frame

(* A gap that is no active zone any more never is one again; TLC refutes   *)
(* it where the ATR falls and the gap weighs more against it.              *)
GapNeverReopens ==
    [][\A i \in Formed(frame) : Moved(i) \in Active(frame') => i \in Active(frame)]_frame

(* No price is unfilled in two directions: what is left of an active       *)
(* bullish gap lies apart from what is left of an active bearish one, so   *)
(* the same level is never a zone for a BUY and for a SELL.                *)
Left(f, i) == IF IsBullish(f, i) THEN GapLow(f, i) .. Deepest(f, i) - 1
                                 ELSE Deepest(f, i) .. GapHigh(f, i) - 1
NoContestedGap == \A i, j \in Active(frame) :
    IsBullish(frame, i) /\ IsBearish(frame, j) =>
        Left(frame, i) \cap Left(frame, j) = {}
=============================================================================
