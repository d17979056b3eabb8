----------------------------- MODULE MCAnalysis -----------------------------
(***************************************************************************)
(* The engines that read the candles, for TLC: market structure and the    *)
(* ICT context on its swings and trend (extended), liquidity, fair value   *)
(* gaps, order blocks, and manipulation and volume profile on one tape.    *)
(* Each is a function of the frame; the pipeline calls one after the other *)
(* and, but for the swings and the trend, none reads what another found    *)
(* (liquidity must accept any swings).  The instance runs one part at a    *)
(* time, the others rest in their initial states.                          *)
(***************************************************************************)
EXTENDS IctContext

CONSTANTS Prices, LastBars, Tolerance, MinTouches, MaxSwings,   \* Liquidity
          GapBars, MinGap, MinScore, MaxAge, MaxGapBars,        \* FairValueGap
          BlockBars, MaxBlockBars, MinDisp, BodyBars, Atr, MinRecord, \* OrderBlocks
          TapeBars, MaxTape, RecentBars, Lookback,              \* Manipulation
          Bins, MinBars                                         \* VolumeProfile

VARIABLES swings, bar, gapFrame, blockFrame, tape, part

Pool == INSTANCE Liquidity
Gap == INSTANCE FairValueGap WITH Bars <- GapBars, MaxBars <- MaxGapBars, frame <- gapFrame
Block == INSTANCE OrderBlocks WITH Bars <- BlockBars, MaxBars <- MaxBlockBars, frame <- blockFrame
Trap == INSTANCE Manipulation WITH Bars <- TapeBars, MaxBars <- MaxTape, frame <- tape
Profile == INSTANCE VolumeProfile WITH Bars <- TapeBars, MaxBars <- MaxTape, frame <- tape

ASSUME AnalysisAssumption ==
    /\ Pool!PricesAssumption /\ Pool!TolAssumption /\ Pool!LastBarsAssumption
    /\ Gap!BoundsAssumption /\ Gap!BarsAssumption
    /\ Block!BlockAssumption
    /\ Trap!TrapAssumption /\ Profile!ProfileAssumption

-----------------------------------------------------------------------------
AnalysisInit == /\ Init /\ Pool!Init /\ Gap!Init /\ Block!Init /\ Trap!Init
                /\ part \in {"structure", "pools", "gaps", "blocks", "tape"}
                \* where a part that does not run starts is of no interest
                /\ part # "structure" => frame[1] = CHOOSE b \in Bars : TRUE
                /\ part # "pools" => bar = CHOOSE b \in LastBars : TRUE
                /\ part # "gaps" => gapFrame[1] = CHOOSE b \in GapBars : TRUE
                /\ part # "blocks" => blockFrame[1] = CHOOSE b \in BlockBars : TRUE
                /\ part # "tape" => tape[1] = CHOOSE b \in TapeBars : TRUE

StructureStep == /\ part = "structure" /\ Next
                 /\ UNCHANGED <<part, swings, bar, gapFrame, blockFrame, tape>>
PoolStep == /\ part = "pools" /\ Pool!Next
            /\ UNCHANGED <<part, frame, gapFrame, blockFrame, tape>>
GapStep == /\ part = "gaps" /\ Gap!Next
           /\ UNCHANGED <<part, frame, swings, bar, blockFrame, tape>>
BlockStep == /\ part = "blocks" /\ Block!Next
             /\ UNCHANGED <<part, frame, swings, bar, gapFrame, tape>>
TapeStep == /\ part = "tape" /\ Trap!Next
            /\ UNCHANGED <<part, frame, swings, bar, gapFrame, blockFrame>>

AnalysisNext == StructureStep \/ PoolStep \/ GapStep \/ BlockStep \/ TapeStep
AnalysisSpec ==
    AnalysisInit /\ [][AnalysisNext]_<<part, frame, swings, bar, gapFrame, blockFrame, tape>>

-----------------------------------------------------------------------------
(* The properties of the instances, stated in their modules.               *)
EqualSwingsPool == Pool!EqualSwingsPool
BreakoutIsNoSweep == Pool!BreakoutIsNoSweep
PoolsPersist == Pool!PoolsPersist
PoolsOutliveAtr == Pool!PoolsOutliveAtr
NoContestedGap == Gap!NoContestedGap
FilledGapStaysFilled == Gap!FilledGapStaysFilled
GapNeverReopens == Gap!GapNeverReopens
StrongestSurvives == Block!StrongestSurvives
TrapVerdictStands == Trap!TrapVerdictStands
TrapHolds == Trap!TrapHolds
ValueAreaIsSmallest == Profile!ValueAreaIsSmallest

-----------------------------------------------------------------------------
(* Values *)

\* Bars on four levels: a close two levels above a swing's bar breaks it.  The
\* one-tick bar has just opened and can become the one above it.
MCBars == {[hi |-> k + 1, lo |-> k - 1, close |-> k] : k \in {1, 3, 4}}
          \cup {[hi |-> 3, lo |-> 2, close |-> 2]}

MCPrices == 1 .. 4

\* Last bars that sweep below, above or both, with bodies up, down and small,
\* on much and on little volume, and bars that break out; the ATR makes prices
\* one tick apart equal, two ticks apart, or none.
LastBar(o, h, l, c, v, a) == [op |-> o, hi |-> h, lo |-> l, close |-> c, loud |-> v, atr |-> a]
MCLastBars ==
    {LastBar(2, 4, 1, 4, TRUE, 3), LastBar(2, 4, 1, 4, FALSE, 3), LastBar(4, 4, 1, 2, TRUE, 3),
     LastBar(2, 5, 2, 2, TRUE, 5), LastBar(2, 5, 1, 3, TRUE, 3), LastBar(1, 5, 1, 5, TRUE, 5),
     LastBar(3, 3, 0, 1, TRUE, 3), LastBar(3, 3, 1, 3, TRUE, 2), LastBar(2, 3, 2, 3, TRUE, 3)}

\* One-tick and three-tick candles on six levels: a gap can be one or several
\* ticks wide and be filled tick by tick; the larger ones raise the ATR.
MCGapBars == {[hi |-> k + 1, lo |-> k, body |-> 1, atr |-> 4] : k \in 1 .. 5}
             \cup {[hi |-> k + 3, lo |-> k, body |-> 3, atr |-> 8] : k \in {1, 3}}

\* Rising and falling candles of one to six ticks: zones that displacements
\* leave behind overlap, are come back to or run away from.
BlockBar(o, h, l, c) == [op |-> o, hi |-> h, lo |-> l, close |-> c]
MCBlockBars == {BlockBar(8, 8, 8, 8), BlockBar(6, 7, 6, 7), BlockBar(7, 7, 1, 1),
                BlockBar(7, 8, 5, 8), BlockBar(8, 8, 3, 5), BlockBar(4, 4, 3, 3),
                BlockBar(3, 8, 3, 8)}

\* Bars in a range, bars that break out of it for good, and bars whose wick
\* breaks either side and whose close comes back, on little and on much volume.
MCTapeBars ==
    {[hi |-> 4, lo |-> 2, close |-> 3, vol |-> 2], [hi |-> 7, lo |-> 4, close |-> 7, vol |-> 7],
     [hi |-> 6, lo |-> 3, close |-> 3, vol |-> 0], [hi |-> 7, lo |-> 1, close |-> 3, vol |-> 9],
     [hi |-> 5, lo |-> 1, close |-> 4, vol |-> 3]}
=============================================================================
