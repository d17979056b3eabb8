---------------------------- MODULE TradeOutcome ----------------------------
(***************************************************************************)
(* The life of a journalled signal: Runtime.check_outcomes polls the last  *)
(* bar of the trade's symbol and timeframe and resolves the row against it *)
(* (_resolve, _early_exit, _close, _advance), Journal keeps the row.       *)
(*                                                                         *)
(* The rows of one cycle do not depend on each other, so the loop over     *)
(* open_trades() is one step per row.  The bar is the FORMING bar: polls   *)
(* come every 300 s and see the same H1 bar up to twelve times, with its   *)
(* high and low since the bar's start, which may precede the signal.       *)
(*                                                                         *)
(* Prices are in ticks.  A result_r of x is stored as 100 * risk * x, which*)
(* keeps the weights 40/40/20 and the division by the stop distance exact; *)
(* the rounding to two decimals is left out.                               *)
(***************************************************************************)
EXTENDS Integers

CONSTANTS Trades,      \* ids of journal rows
          Plans,       \* the signals that can be journalled (levels in ticks)
          Prices,      \* prices the market can print
          Trails,      \* trail_atr_mult * atr of a bar, in ticks; 0 = no trail
          InvalidationExit,   \* trade_management.invalidation_exit
          TimeStop            \* trade_management.time_stop_bars > 0

VARIABLES
  status,      \* [Trades -> Statuses]: column status of the row
  plan,        \* [Trades -> Plans]: columns direction, entry, stop_loss, tp1..3
  result,      \* [Trades -> Int]: column result_r, scaled
  aged,        \* trades open for at least time_stop_bars by the wall clock
  brokerStop,  \* [Trades -> Int]: gain at the stop last sent to the broker
  bar,         \* the last bar the data source returns
  offList,     \* trades whose symbol is no longer in the watchlist
  moved        \* history: trades that took a stage on the current bar

vars == <<status, plan, result, aged, brokerStop, bar, offList, moved>>
market == <<bar, offList, aged>>

Live == {"open", "tp1", "tp2"}                  \* what open_trades() selects
Closed == {"stopped", "breakeven", "trailed", "tp3",
           "invalidated", "stale", "expired"}
Statuses == {"none"} \cup Live \cup Closed
Directions == {"BUY", "SELL"}
Chochs == {"none", "bullish", "bearish"}        \* change of character on the frame
PlanType == [dir : Directions, entry : Int, stop : Int,
             tp1 : Int, tp2 : Int, tp3 : Int]
BarType == [hi : Int, lo : Int, close : Int, trail : Nat, choch : Chochs]

-----------------------------------------------------------------------------
(* Distances from the entry, positive in the trade's favour *)

SignedGain(pl, p) == IF pl.dir = "BUY" THEN p - pl.entry ELSE pl.entry - p
Gain(t, p) == SignedGain(plan[t], p)
Risk(t) == -Gain(t, plan[t].stop)

\* The levels are ordered as _build_signal leaves them: the stop on the losing
\* side, the targets at 1.5R, 2R and 4R rounded up to a whole tick.
WellFormed(pl) == /\ SignedGain(pl, pl.stop) < 0
                  /\ 0 < SignedGain(pl, pl.tp1)
                  /\ SignedGain(pl, pl.tp1) <= SignedGain(pl, pl.tp2)
                  /\ SignedGain(pl, pl.tp2) <= SignedGain(pl, pl.tp3)

ASSUME PlansAssumption == /\ Plans \subseteq PlanType
                          /\ Plans # {}
                          /\ \A pl \in Plans : WellFormed(pl)
ASSUME MarketAssumption == Prices \subseteq Int /\ Trails \subseteq Nat
ASSUME KnobsAssumption == InvalidationExit \in BOOLEAN /\ TimeStop \in BOOLEAN

\* The bar's extremes as the trade sees them.
Best(t) == Gain(t, IF plan[t].dir = "BUY" THEN bar.hi ELSE bar.lo)
Worst(t) == Gain(t, IF plan[t].dir = "BUY" THEN bar.lo ELSE bar.hi)
Reached(t, level) == Best(t) >= Gain(t, level)

Larger(a, b) == IF a >= b THEN a ELSE b

\* Wrong on purpose (the *_Wrong operators of a module replace the operator
\* after them, to test that a property notices): the stop is not moved to entry.
EffStop_Wrong(t) ==
    IF status[t] = "tp2" /\ bar.trail > 0
    THEN Larger(0, Best(t) - bar.trail) ELSE -Risk(t)

\* eff_sl: the journalled stop, entry after TP1, and for the runner after TP2
\* the stop trailed behind this bar's extreme.
EffStop(t) ==
    IF status[t] = "open" THEN -Risk(t)
    ELSE IF status[t] = "tp2" /\ bar.trail > 0
         THEN Larger(0, Best(t) - bar.trail)
         ELSE 0
StopHit(t) == Worst(t) <= EffStop(t)

\* R booked so far by the scale-outs (40% at TP1, 40% at TP2), and the weight
\* still running.
BookedAt(t, s) == IF s = "tp1" THEN 40 * Gain(t, plan[t].tp1)
                  ELSE 40 * Gain(t, plan[t].tp1) + 40 * Gain(t, plan[t].tp2)
RunnerWeight(s) == IF s = "tp1" THEN 60 ELSE 20
FullR(t) == BookedAt(t, "tp2") + 20 * Gain(t, plan[t].tp3)
Unrealised(t) == Larger(-100 * Risk(t), 100 * Gain(t, bar.close))

-----------------------------------------------------------------------------
Init ==
    /\ status = [t \in Trades |-> "none"]
    /\ plan \in [Trades -> {CHOOSE pl \in Plans : TRUE}]
    /\ result = [t \in Trades |-> 0]
    /\ aged = {}
    /\ brokerStop = [t \in Trades |-> 0]
    /\ \E p \in Prices, d \in Trails :
         bar = [hi |-> p, lo |-> p, close |-> p, trail |-> d, choch |-> "none"]
    /\ offList = {}
    /\ moved = {}

\* Journal.record_signal: the entry is the close of the frame the scan saw.
RecordSignal(t) ==
    /\ status[t] = "none"
    /\ \E pl \in Plans :
         /\ pl.entry = bar.close
         /\ plan' = [plan EXCEPT ![t] = pl]
         /\ brokerStop' = [brokerStop EXCEPT ![t] = SignedGain(pl, pl.stop)]
    /\ status' = [status EXCEPT ![t] = "open"]
    /\ UNCHANGED <<result, market, moved>>

\* Journal.close_signal, Journal.advance
SetRow(t, s, r) == /\ status' = [status EXCEPT ![t] = s]
                   /\ result' = [result EXCEPT ![t] = r]

\* _close and _advance leave the market and the signal's levels alone.
CloseRow(t, s, r) == SetRow(t, s, r) /\ UNCHANGED <<plan, market>>

StopOutUnscaled(t) ==
    /\ status[t] = "open" /\ StopHit(t)
    /\ CloseRow(t, "stopped", -100 * Risk(t))
    /\ UNCHANGED <<moved, brokerStop>>

StopOutScaled(t) ==
    /\ status[t] \in {"tp1", "tp2"} /\ StopHit(t)
    /\ CloseRow(t, IF EffStop(t) > 0 THEN "trailed" ELSE "breakeven",
                BookedAt(t, status[t]) + RunnerWeight(status[t]) * EffStop(t))
    /\ brokerStop' = [brokerStop EXCEPT
                        ![t] = IF EffStop(t) # 0 THEN EffStop(t) ELSE @]
    /\ UNCHANGED moved

\* The runner survives the bar; its broker stop is moved when the trail is above
\* entry (modify is called only if the trailed stop differs from entry).
TrailRunner(t) ==
    /\ status[t] = "tp2" /\ ~StopHit(t) /\ ~Reached(t, plan[t].tp3)
    /\ EffStop(t) # 0
    /\ brokerStop' = [brokerStop EXCEPT ![t] = EffStop(t)]
    /\ UNCHANGED <<status, plan, result, market, moved>>

FinishTp3(t) ==
    /\ status[t] = "tp2" /\ ~StopHit(t) /\ Reached(t, plan[t].tp3)
    /\ CloseRow(t, "tp3", FullR(t))
    /\ brokerStop' = [brokerStop EXCEPT
                        ![t] = IF EffStop(t) # 0 THEN EffStop(t) ELSE @]
    /\ moved' = moved \cup {t}

\* Wrong on purpose: a bar that reaches TP2 skips TP1.
ReachTp2_SkipsTp1(t) ==
    /\ status[t] \in {"open", "tp1"} /\ ~StopHit(t) /\ Reached(t, plan[t].tp2)
    /\ SetRow(t, "tp2", BookedAt(t, "tp2"))
    /\ moved' = moved \cup {t}
    /\ UNCHANGED <<plan, market, brokerStop>>

\* Wrong on purpose: TP2 books the second partial only, overwriting the first.
ReachTp2_Overwrites(t) ==
    /\ status[t] = "tp1" /\ ~StopHit(t) /\ Reached(t, plan[t].tp2)
    /\ SetRow(t, "tp2", 40 * Gain(t, plan[t].tp2))
    /\ moved' = moved \cup {t}
    /\ UNCHANGED <<plan, market, brokerStop>>

ReachTp2(t) ==
    /\ status[t] = "tp1" /\ ~StopHit(t) /\ Reached(t, plan[t].tp2)
    /\ SetRow(t, "tp2", BookedAt(t, "tp2"))
    /\ moved' = moved \cup {t}
    /\ UNCHANGED <<plan, market, brokerStop>>

\* _advance to tp1 also moves the broker stop to entry.
ReachTp1(t) ==
    /\ status[t] = "open" /\ ~StopHit(t) /\ Reached(t, plan[t].tp1)
    /\ SetRow(t, "tp1", BookedAt(t, "tp1"))
    /\ brokerStop' = [brokerStop EXCEPT ![t] = 0]
    /\ moved' = moved \cup {t}
    /\ UNCHANGED <<plan, market>>

\* _early_exit runs when the bar hit neither the stop nor TP1.
Quiet(t) == status[t] = "open" /\ ~StopHit(t) /\ ~Reached(t, plan[t].tp1)
Invalidated(t) ==
    /\ InvalidationExit
    /\ bar.choch = (IF plan[t].dir = "BUY" THEN "bearish" ELSE "bullish")

CutInvalidated(t) ==
    /\ Quiet(t) /\ Invalidated(t)
    /\ CloseRow(t, "invalidated", Unrealised(t))
    /\ UNCHANGED <<moved, brokerStop>>

\* The wrong form cuts the trades that do progress.
\* time_stop_min_r is 0.5R: half the risk, 50 in the scale of result.
Dead_Wrong(t) == TimeStop /\ t \in aged /\ Unrealised(t) >= 50 * Risk(t)
Dead(t) == TimeStop /\ t \in aged /\ Unrealised(t) < 50 * Risk(t)

CutStale(t) ==
    /\ Quiet(t) /\ ~Invalidated(t) /\ Dead(t)
    /\ CloseRow(t, "stale", Unrealised(t))
    /\ UNCHANGED <<moved, brokerStop>>

\* Wrong on purpose: a status the rest of the journal does not know.
Expire_Wrong(t) ==
    /\ status[t] \in Live /\ t \in offList
    /\ CloseRow(t, "dropped", 0)
    /\ UNCHANGED <<moved, brokerStop>>

\* The feed cannot price the row; off the watchlist it is written off, on it
\* the error is logged and the row waits for the next cycle.
Expire(t) ==
    /\ status[t] \in Live /\ t \in offList
    /\ CloseRow(t, "expired", 0)
    /\ UNCHANGED <<moved, brokerStop>>

Resolve(t) ==
    \/ StopOutUnscaled(t) \/ StopOutScaled(t) \/ TrailRunner(t)
    \/ FinishTp3(t) \/ ReachTp2(t) \/ ReachTp1(t)
    \/ CutInvalidated(t) \/ CutStale(t)

\* A new price on the forming bar; the frame's last change of character with it.
Tick == \E p \in Prices, c \in Chochs :
    /\ bar' = [bar EXCEPT !.close = p, !.choch = c,
                          !.hi = Larger(@, p),
                          !.lo = IF p < @ THEN p ELSE @]
    /\ UNCHANGED <<status, plan, result, aged, brokerStop, offList, moved>>

NewBar == \E p \in Prices, d \in Trails, c \in Chochs :
    /\ bar' = [hi |-> p, lo |-> p, close |-> p, trail |-> d, choch |-> c]
    /\ moved' = {}
    /\ UNCHANGED <<status, plan, result, aged, brokerStop, offList>>

\* time_stop_bars have passed since created_at.
GrowOld(t) ==
    /\ TimeStop /\ status[t] = "open" /\ t \notin aged
    /\ aged' = aged \cup {t}
    /\ UNCHANGED <<status, plan, result, brokerStop, bar, offList, moved>>

\* The bot restarts with a configuration that no longer lists the symbol.
DropSymbol(t) ==
    /\ status[t] \in Live /\ t \notin offList
    /\ offList' = offList \cup {t}
    /\ UNCHANGED <<status, plan, result, aged, brokerStop, bar, moved>>

Next == \/ Tick \/ NewBar
        \/ \E t \in Trades : \/ RecordSignal(t) \/ Resolve(t) \/ Expire(t)
                             \/ GrowOld(t) \/ DropSymbol(t)

Spec == Init /\ [][Next]_vars

\* run_forever polls outcomes every 300 s for ever and the feed answers again
\* after an error; the market and the operator owe nothing.
FairSpec == Spec /\ \A t \in Trades : WF_vars(Resolve(t))

-----------------------------------------------------------------------------
TypeOK ==
    /\ status \in [Trades -> Statuses]
    /\ plan \in [Trades -> Plans]
    /\ result \in [Trades -> Int]
    /\ aged \subseteq Trades
    /\ brokerStop \in [Trades -> Int]
    /\ bar \in BarType
    /\ offList \subseteq Trades
    /\ moved \subseteq Trades

(* The running result of a live row is exactly what the scale-outs have    *)
(* booked: nothing while open, 40% at TP1, 40% + 40% at TP2.  _advance     *)
(* recomputes it from the levels each time and never from the old value.   *)
BookedMatchesStage == \A t \in Trades :
    /\ status[t] \in {"none", "open"} => result[t] = 0
    /\ status[t] \in {"tp1", "tp2"} => result[t] = BookedAt(t, status[t])

(* A trade that closes at a loss never scaled out: after TP1 every exit    *)
(* path, whatever the bar, the gap or the trail, keeps the booked profit.  *)
(* This is "a reversal after TP1 books a partial win, not -1R".            *)
KeepsBookedProfit ==
    [][\A t \in Trades :
         status[t] \in {"tp1", "tp2"} /\ status'[t] # "expired"
         => result'[t] >= result[t]]_vars

(* Trade management implements the staged scale-out of TradeStages.        *)
Stages == INSTANCE TradeStages WITH
    stage <- [t \in Trades |-> IF status[t] \in Closed THEN "closed" ELSE status[t]],
    booked <- result
ImplementsStages == Stages!Spec

(* A trade past its time stop does not stay open below the progress floor: *)
(* whatever the market does, it is again and again either out of "open" or *)
(* at half an R of progress or more (_early_exit, the "stale" exit).       *)
Overdue(t) ==
    status[t] = "open" /\ t \in aged /\ Unrealised(t) < 50 * Risk(t)
DeadTradesAreCut == \A t \in Trades : Overdue(t) ~> ~Overdue(t)

(* _resolve says it advances a trade at most one stage per bar.            *)
OneStagePerBar ==
    [][\A t \in Trades : t \in moved /\ status'[t] # status[t]
         => status'[t] \notin {"tp1", "tp2", "tp3"}]_vars

(* The trailing stop is said to close the runner in profit: once the stop  *)
(* has been raised above entry, a reversal does not close at breakeven.    *)
RunnerClosesInProfit ==
    [][\A t \in Trades : status[t] = "tp2" /\ brokerStop[t] > 0
         => status'[t] # "breakeven"]_vars

(* The runner "rides to the TP3 backstop": the journal never books more    *)
(* than a fill at TP3 pays.                                                *)
NoMoreThanBackstop == \A t \in Trades :
    status[t] \in Closed => result[t] <= FullR(t)
=============================================================================
