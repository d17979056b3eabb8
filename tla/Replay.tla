------------------------------- MODULE Replay -------------------------------
(***************************************************************************)
(* Backtester._simulate next to the live trade management it claims to     *)
(* match: one signal, entered on the same bar by both sides, then closed   *)
(* bars that each side reads exactly once.  The live side is TradeOutcome  *)
(* (this module adds the replay's own variables to it); the replay keeps   *)
(* its own stop, its own stages and its own weights, as the code does.     *)
(***************************************************************************)
EXTENDS TradeOutcome

CONSTANT LookForward      \* Backtester.lookforward: bars to resolve a trade

VARIABLES sim,      \* [status, result, held]: _simulate's status, result, j - i
          unread    \* the last bar has not been read yet

replayVars == <<vars, sim, unread>>

LookForwardAssumption == LookForward \in Nat \ {0}

\* One signal at a time.
ReplayAssumption == \E t \in Trades : Trades = {t}

SimLive == {"open", "tp1", "tp2"}
SimOutcomes == {"stopped", "breakeven", "tp3", "timeout"}

-----------------------------------------------------------------------------
(* _simulate on the bar just printed *)

\* Wrong on purpose: the replay forgets to move the stop to entry.
SimStop_Initial(t) == -Risk(t)

SimStop(t) == IF sim.status = "open" THEN -Risk(t) ELSE 0
SimStopHit(t) == Worst(t) <= SimStop(t)

SimBooked(t) == 40 * Gain(t, plan[t].tp1)
                + (IF sim.status = "tp2" THEN 40 * Gain(t, plan[t].tp2) ELSE 0)

SimEnd(outcome, r) == sim' = [status |-> outcome, result |-> r, held |-> sim.held + 1]

SimStopped(t) == sim.status = "open" /\ SimEnd("stopped", -100 * Risk(t))
SimBreakeven(t) ==
    /\ sim.status \in {"tp1", "tp2"}
    /\ SimEnd("breakeven",
              SimBooked(t) + (IF sim.status = "tp1" THEN 60 ELSE 20) * SimStop(t))

\* What the bar does when it leaves the stop alone: the runner's target, a
\* stage, or nothing.
SimAdvance(t) ==
    LET next == CASE sim.status = "tp2" /\ Reached(t, plan[t].tp3) -> "tp3"
                  [] sim.status = "tp1" /\ Reached(t, plan[t].tp2) -> "tp2"
                  [] sim.status = "open" /\ Reached(t, plan[t].tp1) -> "tp1"
                  [] OTHER -> sim.status
    IN  SimEnd(next, IF next = "tp3" THEN SimBooked(t) + 20 * Gain(t, plan[t].tp3)
                        ELSE 0)

\* The loop body for one bar.
SimBar(t) ==
    IF sim.status \notin SimLive THEN UNCHANGED sim
    ELSE IF SimStopHit(t) THEN SimStopped(t) \/ SimBreakeven(t)
    ELSE SimAdvance(t)

\* end = min(i + 1 + lookforward, len(df)); the frame may also end earlier.
OutOfBars == sim.status \in SimLive /\ sim.held = LookForward

\* The loop ran out of bars (lookforward, or the end of the frame): the whole
\* position is marked to the last close.
SimTimeout(t) ==
    /\ ~unread /\ sim.status \in SimLive /\ sim.held > 0
    /\ sim' = [sim EXCEPT !.status = "timeout", !.result = 100 * Gain(t, bar.close)]
    /\ UNCHANGED <<vars, unread>>

-----------------------------------------------------------------------------
ReplayInit == /\ Init
              /\ sim = [status |-> "none", result |-> 0, held |-> 0]
              /\ unread = FALSE

Enter(t) == /\ ~unread
            /\ RecordSignal(t)
            /\ sim' = [sim EXCEPT !.status = "open"]
            /\ UNCHANGED unread

\* A whole bar, closed: any range and any close within it.
CloseBar ==
    /\ ~unread /\ ~OutOfBars
    /\ \E hi, lo, close \in Prices, d \in Trails, c \in Chochs :
         /\ lo <= close /\ close <= hi
         /\ bar' = [hi |-> hi, lo |-> lo, close |-> close, trail |-> d, choch |-> c]
    /\ moved' = {}
    /\ unread' = TRUE
    /\ UNCHANGED <<status, plan, result, aged, brokerStop, offList, sim>>

\* check_outcomes on a row the bar leaves alone: no branch of _resolve applies.
BarMoves(t) ==
    \/ status[t] \in Live /\ StopHit(t)
    \/ status[t] = "open" /\ (Reached(t, plan[t].tp1) \/ Invalidated(t) \/ Dead(t))
    \/ status[t] = "tp1" /\ Reached(t, plan[t].tp2)
    \/ status[t] = "tp2" /\ (Reached(t, plan[t].tp3) \/ EffStop(t) # 0)
LiveIdle(t) == ~BarMoves(t) /\ UNCHANGED vars

\* Both sides read the bar.
ReadBar(t) == /\ unread
              /\ SimBar(t)
              /\ Resolve(t) \/ LiveIdle(t)
              /\ unread' = FALSE

\* The live trade's time stop runs by the wall clock.
Age(t) == GrowOld(t) /\ UNCHANGED <<sim, unread>>

ReplayNext == \/ CloseBar
              \/ \E t \in Trades : Enter(t) \/ ReadBar(t) \/ SimTimeout(t) \/ Age(t)
ReplaySpec == ReplayInit /\ [][ReplayNext]_replayVars

-----------------------------------------------------------------------------
ReplayTypeOK == /\ sim \in [status : {"none"} \cup SimLive \cup SimOutcomes,
                            result : Int, held : 0 .. LookForward]
                /\ unread \in BOOLEAN

(* The same stage and, once closed, the same outcome and the same R.       *)
SameEnd(t) == /\ status[t] = sim.status
              /\ sim.status \in SimOutcomes => result[t] = sim.result

(* An early exit, which _simulate does not have, cuts a trade that has     *)
(* booked nothing, at no more than the loss of its stop.                   *)
CutEarly(t) == /\ status[t] \in {"invalidated", "stale"} /\ sim.status # "none"
               /\ result[t] >= -100 * Risk(t)

(* The trail, which _simulate does not have, closes a runner that it       *)
(* simulates on, above the breakeven where its own would stop.             *)
CutByTrail(t) == /\ status[t] = "trailed" /\ sim.status \in {"tp2", "breakeven", "tp3"}
                 /\ result[t] > BookedAt(t, "tp2")
                 /\ sim.status = "breakeven" => result[t] > sim.result

(* After every bar both sides have read, the replay and the journal are in *)
(* the same stage and, once closed, hold the same outcome and the same R,  *)
(* unless the replay ran out of bars or a live exit that it does not have  *)
(* closed the row: then the row tells which, and the trail, in the code's  *)
(* "share one definition of R", has only improved on the stop the replay   *)
(* was hit at.  Whatever the trail and the early exits are set to.         *)
DifferByLiveExitsOnly == \A t \in Trades :
    ~unread /\ sim.status # "timeout" => SameEnd(t) \/ CutEarly(t) \/ CutByTrail(t)

(* "Live outcomes and backtests share one definition of R": no exit makes  *)
(* a difference.                                                           *)
OneDefinitionOfR == \A t \in Trades : ~unread /\ sim.status # "timeout" => SameEnd(t)

(* A trade that times out was not stopped: wherever its last bar closes,   *)
(* and in whichever stage that bar left it, it loses less than the 1R that *)
(* a stop costs.                                                           *)
TimeoutIsNoFullLoss == \A t \in Trades :
    sim.status = "timeout" => sim.result > -100 * Risk(t)

(* "Trades are simulated forward with the live outcome logic: 40/40/20     *)
(* partial exits": whatever ends the simulation after TP1, the partials it *)
(* has sold stay sold.                                                     *)
ReplayKeepsPartials ==
    [][\A t \in Trades : sim.status \in {"tp1", "tp2"} /\ sim'.status \in SimOutcomes
         => sim'.result >= SimBooked(t)]_replayVars
=============================================================================
