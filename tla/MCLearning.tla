----------------------------- MODULE MCLearning -----------------------------
(***************************************************************************)
(* What the bot learns from its trades, for TLC: the replay of the         *)
(* backtester (extended), the performance metrics and the model registry.  *)
(* They share no variable; the instance runs one of them at a time (part), *)
(* the others rest in their initial states.                                *)
(***************************************************************************)
EXTENDS Replay

CONSTANTS Results, MaxTrades,                   \* Metrics
          Keep, Briers, MaxClosed, MaxFaults    \* ModelRegistry

VARIABLES rows,
          closed, meta, files, live, job, best, lostMeta, faults,
          part

bookVars == <<rows>>
registryVars == <<closed, meta, files, live, job, best, lostMeta, faults>>

Book == INSTANCE Metrics
Registry == INSTANCE ModelRegistry

ASSUME LearningAssumption == /\ Book!ResultsAssumption
                             /\ Registry!KeepAssumption /\ Registry!ScoresAssumption
                             /\ LookForwardAssumption /\ ReplayAssumption

-----------------------------------------------------------------------------
LearningInit == /\ ReplayInit /\ Book!Init /\ Registry!Init
                /\ part \in {"registry", "book", "test"}
                \* the market a replay starts from is of no interest to the others
                /\ part # "test" => bar.close = CHOOSE p \in Prices : TRUE

RegistryStep == part = "registry" /\ Registry!Next /\ UNCHANGED <<part, bookVars, replayVars>>
BookStep == part = "book" /\ Book!Next /\ UNCHANGED <<part, registryVars, replayVars>>
TestStep == part = "test" /\ ReplayNext /\ UNCHANGED <<part, bookVars, registryVars>>

LearningNext == RegistryStep \/ BookStep \/ TestStep
learningVars == <<part, bookVars, registryVars, replayVars>>
LearningSpec == LearningInit /\ [][LearningNext]_learningVars

-----------------------------------------------------------------------------
(* The states of the three have their types.                               *)
LearningTypeOK == ReplayTypeOK /\ Registry!TypeOK

(* The properties of the instances, stated in their modules.               *)
DrawdownIsWorstFall == Book!DrawdownIsWorstFall
KellyNeedsAnEdge == Book!KellyNeedsAnEdge
AcceptedIsLoadable == Registry!AcceptedIsLoadable
DiskIsBounded == Registry!DiskIsBounded
LiveBeatsBase == Registry!LiveBeatsBase

-----------------------------------------------------------------------------
(* Values *)

\* Scores that beat the base rate by a lot, by a little and not at all.
MCBriers == {80, 88, 96, 99}

\* A full stop, a small loss, breakeven, a partial win and a full win.
MCResults == {-10, -3, 0, 6, 22}

\* The levels of MCTradeOutcome, from the stop to the last target.
BuyPlan == [dir |-> "BUY", entry |-> 0, stop |-> -1, tp1 |-> 2, tp2 |-> 3, tp3 |-> 4]
SellPlan == [dir |-> "SELL", entry |-> 3, stop |-> 4, tp1 |-> 1, tp2 |-> 0, tp3 |-> -1]
MCPlans == {BuyPlan, SellPlan}
MCPrices == -1..4
=============================================================================
