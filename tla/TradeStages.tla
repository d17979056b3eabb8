----------------------------- MODULE TradeStages -----------------------------
(***************************************************************************)
(* What trade management promises, with prices, bars and exit rules left   *)
(* out: a journalled trade is scaled out in stages, open -> tp1 -> tp2,    *)
(* no stage is skipped, what a scale-out has booked is never given back,   *)
(* and a closed trade is never touched again.  The one exception is a      *)
(* trade whose symbol left the watchlist: it is written off at 0R.         *)
(*                                                                         *)
(* TradeOutcome, the model of Runtime.check_outcomes, implements this      *)
(* module (TradeOutcome!Stages).                                           *)
(***************************************************************************)
EXTENDS Integers

CONSTANT Trades     \* ids of the rows of the journal's signals table

VARIABLES stage,    \* [Trades -> Stages]
          booked    \* [Trades -> Int]: the row's result_r, scaled to an integer

vars == <<stage, booked>>

Stages == {"none", "open", "tp1", "tp2", "closed"}

Init == /\ stage = [t \in Trades |-> "none"]
        /\ booked = [t \in Trades |-> 0]

\* Row t moves to stage s; the amount it ends with is left to the caller.
Move(t, s) == /\ stage' = [stage EXCEPT ![t] = s]
              /\ booked' = [booked EXCEPT ![t] = booked'[t]]

Record(t) == stage[t] = "none" /\ Move(t, "open") /\ booked'[t] = 0

\* A partial scale-out books a profit on top of what is booked already.
ScaleOut(t) == /\ booked'[t] > booked[t]
               /\ \/ stage[t] = "open" /\ Move(t, "tp1")
                  \/ stage[t] = "tp1" /\ Move(t, "tp2")

\* Before TP1 a trade may close at a loss.
CloseUnscaled(t) == stage[t] = "open" /\ Move(t, "closed")

\* After TP1 it closes with at least what it has booked.
CloseScaled(t) == /\ stage[t] \in {"tp1", "tp2"}
                  /\ booked'[t] >= booked[t]
                  /\ Move(t, "closed")

WriteOff(t) == /\ stage[t] \in {"open", "tp1", "tp2"}
               /\ booked'[t] = 0
               /\ Move(t, "closed")

Next == \E t \in Trades :
    Record(t) \/ ScaleOut(t) \/ CloseUnscaled(t) \/ CloseScaled(t) \/ WriteOff(t)

Spec == Init /\ [][Next]_vars
=============================================================================
