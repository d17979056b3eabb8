--------------------------- MODULE MarketStructure ---------------------------
(***************************************************************************)
(* MarketStructureEngine.analyze on a frame that changes from pass to pass *)
(* (Candles): swings, HH/HL/LH/LL labels, the trend they add up to, BOS    *)
(* and CHOCH, and the strength score.                                      *)
(*                                                                         *)
(* Prices are ticks; the ATR of the frame's last bar and the break margin  *)
(* minimum_break_atr * atr are numbers of ticks, which only properties of  *)
(* a single frame depend on.                                               *)
(***************************************************************************)
EXTENDS Candles, ScoreMath   \* Bars are [hi, lo, close]

CONSTANTS Window,     \* swing_window
          BreakSwings,\* break_lookback_swings * 2
          MinBreak,   \* minimum_break_atr * atr, in ticks
          SwingAtr    \* atr, in ticks

ASSUME WindowAssumption == Window \in Nat \ {0}
ASSUME BreakAssumption == /\ BreakSwings \in Nat \ {0} /\ MinBreak \in Nat
                          /\ SwingAtr \in Nat \ {0}
ASSUME BarsAssumption ==
    FrameAssumption /\ Bars \subseteq [hi : Int, lo : Int, close : Int]

-----------------------------------------------------------------------------
(* detect_swings: the first bar of an equal extreme, Window bars each side *)

Around(f, i) == (i - Window .. i + Window) \cap DOMAIN f
SwingHigh(f, i) == \A j \in Around(f, i) :
    IF j < i THEN f[i].hi > f[j].hi ELSE f[i].hi >= f[j].hi
SwingLow(f, i) == \A j \in Around(f, i) :
    IF j < i THEN f[i].lo < f[j].lo ELSE f[i].lo <= f[j].lo

\* Wrong on purpose: a swing does not wait for the Window bars after it.
Swings_Early(f) == {i \in Window + 1 .. Len(f) : SwingHigh(f, i) \/ SwingLow(f, i)}

Swings(f) == {i \in Window + 1 .. Len(f) - Window : SwingHigh(f, i) \/ SwingLow(f, i)}

\* A bar that is both is a high.
Kind(f, i) == IF SwingHigh(f, i) THEN "high" ELSE "low"
Price(f, i) == IF Kind(f, i) = "high" THEN f[i].hi ELSE f[i].lo
OfKind(f, k) == {i \in Swings(f) : Kind(f, i) = k}

\* classify: against the previous swing of the same kind; an equal high is an
\* LH and an equal low an LL.
Previous(f, i) == {j \in OfKind(f, Kind(f, i)) : j < i}
Rising(f, i) == Price(f, i) > Price(f, Max(Previous(f, i)))
Label(f, i) ==
    IF Previous(f, i) = {} THEN "first"
    ELSE IF Kind(f, i) = "high" THEN (IF Rising(f, i) THEN "HH" ELSE "LH")
                                ELSE (IF Rising(f, i) THEN "HL" ELSE "LL")

-----------------------------------------------------------------------------
(* _trend_from_labels: shares of the last six labels *)

Newest(S, n) == {i \in S : Cardinality({j \in S : j > i}) < n}
Recent(f) == Newest({i \in Swings(f) : Label(f, i) # "first"}, 6)
Share(f, labels) == Cardinality({i \in Recent(f) : Label(f, i) \in labels})

\* At least six labels in ten lean to one side (STRONG, plain or WEAK).
Side(f, side) == 10 * Share(f, side) >= 6 * Cardinality(Recent(f))

Trend(f) == IF Recent(f) = {} THEN "sideways"
            ELSE IF Side(f, {"HH", "HL"}) THEN "bullish"
            ELSE IF Side(f, {"LH", "LL"}) THEN "bearish"
            ELSE "sideways"

\* STRONG_*: four labels or more and all of them on one side.
Strong(f) == /\ Cardinality(Recent(f)) >= 4
             /\ \/ Share(f, {"HH", "HL"}) = Cardinality(Recent(f))
                \/ Share(f, {"LH", "LL"}) = Cardinality(Recent(f))

-----------------------------------------------------------------------------
(* Breaks of structure *)

Close(f) == f[Len(f)].close
BrokeHigh(f) == /\ OfKind(f, "high") # {}
                /\ Close(f) > Price(f, Max(OfKind(f, "high"))) + MinBreak
BrokeLow(f) == /\ OfKind(f, "low") # {}
               /\ Close(f) < Price(f, Max(OfKind(f, "low"))) - MinBreak
Printed(f, label) == \E i \in Newest(Swings(f), BreakSwings) : Label(f, i) = label

\* choch_direction: the break against the trend; without a trend, a break or a
\* recent HH or LL, bullish looked at first.
Choch(f) ==
    CASE Trend(f) = "bullish" -> IF BrokeLow(f) THEN "bearish" ELSE "none"
      [] Trend(f) = "bearish" -> IF BrokeHigh(f) THEN "bullish" ELSE "none"
      [] OTHER -> IF BrokeHigh(f) \/ Printed(f, "HH") THEN "bullish"
                  ELSE IF BrokeLow(f) \/ Printed(f, "LL") THEN "bearish" ELSE "none"

\* bos_direction: only with the trend, and only when no CHOCH was found.
Bos(f) ==
    IF Choch(f) # "none" THEN "none"
    ELSE CASE Trend(f) = "bullish" /\ (BrokeHigh(f) \/ Printed(f, "HH")) -> "bullish"
           [] Trend(f) = "bearish" /\ (BrokeLow(f) \/ Printed(f, "LL")) -> "bearish"
           [] OTHER -> "none"

-----------------------------------------------------------------------------
(* _strength *)

\* A clear trend: three labels in four, short of STRONG.
Clear(f, labels) == 4 * Share(f, labels) >= 3 * Cardinality(Recent(f))

TrendPoints(f) ==
    IF Strong(f) THEN 25
    ELSE IF Clear(f, {"HH", "HL"}) \/ Clear(f, {"LH", "LL"}) THEN 15
    ELSE IF Trend(f) # "sideways" THEN 8 ELSE 0

\* The bars momentum is measured over, and how far the close went meanwhile.
MomentumBars(f) == Smaller(20, Len(f) - 1)
Momentum(f) == LET d == Close(f) - f[Len(f) - MomentumBars(f)].close IN Larger(d, -d)

\* 30 for labels that agree, 20 for a BOS, up to 25 for momentum, up to 25 for
\* the trend; over the common divisor d.
Strength(f) ==
    IF Recent(f) = {} THEN 20
    ELSE LET recent == Cardinality(Recent(f))
             agree == Share(f, IF Trend(f) = "bearish" THEN {"LH", "LL"} ELSE {"HH", "HL"})
             d == recent * SwingAtr * MomentumBars(f)
         IN  Clamp(Rounded(30 * agree * SwingAtr * MomentumBars(f)
                           + (Award(Bos(f) # "none", 20) + TrendPoints(f)) * d
                           + Smaller(25 * d, 50 * Momentum(f) * recent), d))

-----------------------------------------------------------------------------
\* The swings that wait for no bar any more: all but the one that the newest
\* bar, which may still be forming, confirms.
Settled(f) == {i \in Swings(f) : i # Len(f) - Window}

(* No repainting: whatever the next pass sees, a forming bar that moved, a *)
(* bar more or a frame that slid, a settled swing that is still in reach   *)
(* is a swing of the same kind and price, its label is the same (or, when  *)
(* the swing it was compared with left the frame, "first"), and no swing   *)
(* turns up between the settled ones.                                      *)
NoRepaint ==
    [][/\ \A i \in Settled(frame) : Moved(i) > Window =>
            /\ Moved(i) \in Swings(frame')
            /\ Kind(frame', Moved(i)) = Kind(frame, i)
            /\ Price(frame', Moved(i)) = Price(frame, i)
            /\ \/ Label(frame', Moved(i)) = Label(frame, i)
               \/ Slide /\ Label(frame', Moved(i)) = "first"
       /\ \A j \in Swings(frame') : j < Moved(Len(frame) - Window) =>
            \E i \in Settled(frame) : j = Moved(i)]_frame

(* A swing that was reported stays one until it leaves the frame; TLC      *)
(* refutes it where the bar that confirmed the swing was still forming.    *)
SwingStands ==
    [][\A i \in Swings(frame) : Moved(i) > Window => Moved(i) \in Swings(frame')]_frame

(* There is a sideways reading between a bullish and a bearish one; TLC    *)
(* refutes it where the frame slides, one label leaves as another comes.   *)
NoWhipsaw ==
    [][{Trend(frame), Trend(frame')} # {"bullish", "bearish"}]_frame

(* A close beyond the last swing against the trend is always announced as  *)
(* a CHOCH and silences the BOS that the same swings would still give:     *)
(* Runtime._early_exit relies on it to leave a trade whose premise is gone.*)
ChochTakesPriority ==
    /\ Trend(frame) = "bullish" /\ BrokeLow(frame) =>
         Choch(frame) = "bearish" /\ Bos(frame) = "none"
    /\ Trend(frame) = "bearish" /\ BrokeHigh(frame) =>
         Choch(frame) = "bullish" /\ Bos(frame) = "none"

(* In a transition "a fresh break = CHOCH": a close below the last swing   *)
(* low is not announced as a bullish change of character.                  *)
TransitionBreak ==
    Trend(frame) = "sideways" /\ BrokeLow(frame) => Choch(frame) # "bullish"

(* A CHOCH is "the FIRST fresh break against the prevailing trend": with   *)
(* the trend and the broken swing unchanged, the next bar is not another.  *)
ChochIsFirstBreak ==
    [][/\ NewBar /\ Trend(frame) # "sideways" /\ Trend(frame') = Trend(frame)
       /\ Swings(frame') = Swings(frame) /\ Choch(frame) # "none"
       => Choch(frame') = "none"]_frame

(* A range, swing highs all equal and swing lows all equal, has no HH, HL, *)
(* LH or LL and is not traded; in any case it is not a strong trend.       *)
RangeIsNotStrong ==
    (\A k \in {"high", "low"} : \A i, j \in OfKind(frame, k) :
        Price(frame, i) = Price(frame, j)) => ~Strong(frame)

MirrorSide(d) == CASE d = "bullish" -> "bearish" [] d = "bearish" -> "bullish" [] OTHER -> d
UpsideDown(f) == [i \in DOMAIN f |-> [hi |-> -f[i].lo, lo |-> -f[i].hi, close |-> -f[i].close]]

\* No two swings of a kind are equal, no bar is a swing high and a swing low.
OneSided(f) == /\ \A i, j \in Swings(f) : i # j /\ Kind(f, i) = Kind(f, j)
                                                => Price(f, i) # Price(f, j)
               /\ ~\E i \in Swings(f) : SwingHigh(f, i) /\ SwingLow(f, i)

(* Neither side is favoured: the chart upside down has the opposite trend  *)
(* and BOS and the same strength, where no equal swings (an equal high is  *)
(* a lower one) and no bar that is a high and a low (it is a high) decide. *)
StructureMirrors == OneSided(frame) =>
    LET down == UpsideDown(frame)
    IN  /\ Trend(down) = MirrorSide(Trend(frame))
        /\ Bos(down) = MirrorSide(Bos(frame))
        /\ Strength(down) = Strength(frame)
=============================================================================
