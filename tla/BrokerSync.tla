----------------------------- MODULE BrokerSync -----------------------------
(***************************************************************************)
(* One executed trade seen from both sides: the journal row that           *)
(* check_outcomes advances, and the broker position the row stands for.    *)
(* _close and _advance write the journal first and then make broker calls  *)
(* whose failure is swallowed (_broker_op); the terminal fills stop and    *)
(* take-profit by itself; the process may be restarted at any time, and    *)
(* when the bridge is down at that moment build_stack falls back to a      *)
(* PaperBroker, which does not know the position.                          *)
(*                                                                         *)
(* Prices are the levels that matter, in the trade's favour: -1 the stop,  *)
(* 0 the entry, 1, 2, 3 the targets.  Volumes are in hundredths of a lot,  *)
(* the broker's volume step.                                               *)
(***************************************************************************)
EXTENDS Integers, Sequences

CONSTANTS Lots,      \* sizes the order may have been filled with
          BrokerTp,  \* level of the order's take-profit: 3 from execute_signal
                     \* (the button), 2 from _scan_symbol (auto-execute)
          Trail,     \* trail_atr_mult * atr in levels, 0 = no trail
          Adapters   \* the brokers to consider: MT5Broker, PaperBroker

Levels == -1 .. 3
ASSUME LotsAssumption == Lots \subseteq Nat \ {0}
ASSUME OrderAssumption == BrokerTp \in {2, 3} /\ Trail \in 0 .. 3
ASSUME AdapterAssumption == Adapters \subseteq {"mt5", "paper"}

VARIABLES
  row,       \* status of the journal row; "closed" stands for every final status
  price,     \* the last price, a level
  bar,       \* [hi, lo] of the last bar of the data source
  adapter,   \* the broker behind this trade
  lot,       \* the volume journalled by record_execution
  pos,       \* [vol, stop] of the position; vol = 0 when there is none
  linked,    \* the process talks to the broker that holds the position
  calls,     \* broker calls the running handler has yet to make, in order
  ended,     \* history: [by, at] who took the position to zero, at which level
  missed     \* history: why calls the journal counts on were not carried out

order == <<adapter, lot>>
vars == <<row, price, bar, adapter, lot, pos, linked, calls, ended, missed>>

Rows == {"open", "tp1", "tp2", "closed"}
Calls == [op : {"partial", "stop", "close"}, arg : Int]
Causes == {"failed", "refused", "restart", "fallback", "expired"}

-----------------------------------------------------------------------------
(* The broker: MT5 terminal or PaperBroker *)

\* ExecutionEngine.partial_close, move_to_breakeven and Broker.modify, close
PartialClose(fraction) == [op |-> "partial", arg |-> fraction]
ModifyStop(level) == [op |-> "stop", arg |-> level]
Close == [op |-> "close", arg |-> 0]

\* round(volume * fraction, 2) in hundredths of a lot; fractions are 1/10000.
\* The wrong form takes the fraction of the original lot, not of what is left.
RoundLots_OfOriginal(vol, fraction) == (lot * fraction + 5000) \div 10000
RoundLots(vol, fraction) == (vol * fraction + 5000) \div 10000

\* MT5Broker.close sends volume or pos.volume, so 0.0 closes everything;
\* PaperBroker.close closes min(volume, pos.volume), nothing for 0.0.
ClosedVolume(vol, asked) ==
    IF asked = 0 THEN (IF adapter = "mt5" THEN vol ELSE 0)
    ELSE IF asked < vol THEN asked ELSE vol

\* The MT5 terminal fills stop and take-profit as soon as a price crosses them;
\* PaperBroker never does.
Fills == adapter = "mt5" /\ pos.vol > 0
AfterTick(p) ==
    IF Fills /\ p <= pos.stop THEN [by |-> "stop", at |-> p]
    ELSE IF Fills /\ p >= BrokerTp THEN [by |-> "tp", at |-> BrokerTp]
    ELSE ended

MoveTo(p) == /\ price' = p
             /\ ended' = AfterTick(p)
             /\ pos' = IF ended' = ended THEN pos ELSE [pos EXCEPT !.vol = 0]
             /\ UNCHANGED <<row, order, linked, calls, missed>>

Tick == \E p \in Levels :
    /\ MoveTo(p)
    /\ bar' = [hi |-> IF p > bar.hi THEN p ELSE bar.hi,
               lo |-> IF p < bar.lo THEN p ELSE bar.lo]

NewBar == \E p \in Levels : MoveTo(p) /\ bar' = [hi |-> p, lo |-> p]

-----------------------------------------------------------------------------
(* check_outcomes: one poll of the row, then the broker calls it queued *)

Idle == calls = <<>>
Poll == Idle /\ UNCHANGED <<price, bar, order, pos, linked, ended, missed>>

\* Wrong on purpose: the trail may lead below the entry.
TrailStop_Unbounded == IF bar.hi - Trail > -1 THEN bar.hi - Trail ELSE -1

TrailStop == IF bar.hi - Trail > 0 THEN bar.hi - Trail ELSE 0
Trailing == row = "tp2" /\ Trail > 0 /\ TrailStop # 0
EffStop == IF row = "open" THEN -1 ELSE IF Trailing THEN TrailStop ELSE 0
StopHit == bar.lo <= EffStop
TrailCalls == IF Trailing THEN <<ModifyStop(TrailStop)>> ELSE <<>>

\* The trail is sent before the journal is written, the close after it.
PollStop == /\ Poll /\ row # "closed" /\ StopHit
            /\ row' = "closed"
            /\ calls' = TrailCalls \o <<Close>>

PollTp3 == /\ Poll /\ row = "tp2" /\ ~StopHit /\ bar.hi >= 3
           /\ row' = "closed"
           /\ calls' = TrailCalls \o <<Close>>

PollTrail == /\ Poll /\ row = "tp2" /\ ~StopHit /\ bar.hi < 3 /\ Trailing
             /\ calls' = TrailCalls
             /\ UNCHANGED row

PollTp2 == /\ Poll /\ row = "tp1" /\ ~StopHit /\ bar.hi >= 2
           /\ row' = "tp2"
           /\ calls' = <<PartialClose(6667)>>

\* Wrong on purpose: the partial closes are swapped.
PollTp1_Swapped == /\ Poll /\ row = "open" /\ ~StopHit /\ bar.hi >= 1
                   /\ row' = "tp1"
                   /\ calls' = <<PartialClose(6667), ModifyStop(0)>>

PollTp1 == /\ Poll /\ row = "open" /\ ~StopHit /\ bar.hi >= 1
           /\ row' = "tp1"
           /\ calls' = <<PartialClose(4000), ModifyStop(0)>>

\* Wrong on purpose: the journal is closed, the position is not.
PollCut_JournalOnly == /\ Poll /\ row = "open" /\ ~StopHit /\ bar.hi < 1
                       /\ row' = "closed"
                       /\ calls' = <<>>

\* _early_exit: invalidated or stale, on a bar that hit neither stop nor TP1.
PollCut == /\ Poll /\ row = "open" /\ ~StopHit /\ bar.hi < 1
           /\ row' = "closed"
           /\ calls' = <<Close>>

\* The symbol left the watchlist and cannot be priced: only the journal is told.
Expire == /\ Idle /\ row # "closed"
          /\ row' = "closed"
          /\ missed' = missed \cup {"expired"}
          /\ UNCHANGED <<price, bar, order, pos, linked, calls, ended>>

\* The broker does what the first pending call asks.  A call on a position that
\* is gone answers "unknown ticket"; a stop on the wrong side of the price is
\* refused; either answer is ignored.
CloseSome(q) ==
    /\ pos' = [pos EXCEPT !.vol = @ - ClosedVolume(@, q)]
    /\ ended' = IF pos.vol > 0 /\ pos'.vol = 0 THEN [by |-> "bot", at |-> price] ELSE ended
    /\ UNCHANGED missed

Refuses(l) == adapter = "mt5" /\ l >= price
SetStop(l) ==
    /\ pos' = IF pos.vol > 0 /\ ~Refuses(l) THEN [pos EXCEPT !.stop = l] ELSE pos
    /\ missed' = IF pos.vol > 0 /\ Refuses(l) THEN missed \cup {"refused"} ELSE missed
    /\ UNCHANGED ended

Carried(c) == \/ c.op = "close" /\ CloseSome(pos.vol)
              \/ c.op = "partial" /\ CloseSome(RoundLots(pos.vol, c.arg))
              \/ c.op = "stop" /\ SetStop(c.arg)

\* Wrong on purpose: a call whose answer is lost is made again.
CallBroker_Retried == /\ ~Idle /\ linked
                      /\ Carried(Head(calls))
                      /\ calls' \in {Tail(calls), calls}
                      /\ UNCHANGED <<row, price, bar, order, linked>>

\* The answer, an exception after the fact included, changes nothing more.
CallBroker == /\ ~Idle /\ linked
              /\ Carried(Head(calls))
              /\ calls' = Tail(calls)
              /\ UNCHANGED <<row, price, bar, order, linked>>

\* The call raises or answers no, or the process talks to a PaperBroker that
\* answers "unknown ticket": _broker_op logs and the handler goes on.
CallFails == /\ ~Idle
             /\ calls' = Tail(calls)
             /\ missed' = missed \cup {IF linked THEN "failed" ELSE "fallback"}
             /\ UNCHANGED <<row, price, bar, order, pos, linked, ended>>

\* The process dies, between two calls or between two polls: the journal is
\* kept, the calls not yet made and a PaperBroker's positions are not.  The
\* next process is linked to the MT5 position if the bridge is up.
Restart ==
    /\ linked' \in IF adapter = "mt5" THEN BOOLEAN ELSE {TRUE}
    /\ pos' = IF adapter = "mt5" THEN pos ELSE [pos EXCEPT !.vol = 0]
    /\ ended' = IF pos'.vol # pos.vol THEN [by |-> "lost", at |-> price] ELSE ended
    /\ missed' = IF Idle /\ pos' = pos THEN missed ELSE missed \cup {"restart"}
    /\ calls' = <<>>
    /\ UNCHANGED <<row, price, bar, order>>

-----------------------------------------------------------------------------
Init == /\ row = "open"
        /\ price = 0
        /\ bar = [hi |-> 0, lo |-> 0]
        /\ adapter \in Adapters
        /\ lot \in Lots
        /\ pos = [vol |-> lot, stop |-> -1]
        /\ linked = TRUE
        /\ calls = <<>>
        /\ ended = [by |-> "nobody", at |-> 0]
        /\ missed = {}

Next == \/ Tick \/ NewBar
        \/ PollStop \/ PollTp3 \/ PollTrail \/ PollTp2 \/ PollTp1 \/ PollCut
        \/ Expire \/ CallBroker \/ CallFails \/ Restart

Spec == Init /\ [][Next]_vars

\* The handler's calls are made one after the other; nothing makes it wait.
FairSpec == Spec /\ WF_vars(CallBroker \/ CallFails)

-----------------------------------------------------------------------------
TypeOK == /\ row \in Rows
          /\ price \in Levels
          /\ bar \in [hi : Levels, lo : Levels]
          /\ adapter \in Adapters
          /\ lot \in Lots
          /\ pos \in [vol : 0 .. lot, stop : Levels]
          /\ linked \in BOOLEAN
          /\ Len(calls) <= 2 /\ \A i \in 1 .. Len(calls) : calls[i] \in Calls
          /\ ended \in [by : {"nobody", "bot", "stop", "tp", "lost"}, at : Levels]
          /\ missed \subseteq Causes

(* Between polls the position holds the share the row's stage leaves: all, *)
(* 60% after TP1, 20% after TP2, to within one volume step, unless the     *)
(* terminal ended it or a call was missed (_advance, partial_close).       *)
Share == IF row = "open" THEN 100 ELSE IF row = "tp1" THEN 60 ELSE 20
VolumeMatchesStage ==
    (Idle /\ missed = {} /\ row # "closed" /\ pos.vol > 0) =>
        /\ 100 * pos.vol - Share * lot <= 100
        /\ Share * lot - 100 * pos.vol <= 100

(* A row that is closed leaves no position behind, unless a broker call    *)
(* was missed (_close journals first and closes the remainder after).      *)
ClosedRowIsFlat == (Idle /\ missed = {} /\ row = "closed") => pos.vol = 0

(* After TP1 the broker's stop is at entry or better, as the journal       *)
(* assumes when it books the runner's exit (move_to_breakeven, the trail). *)
StopFollowsJournal ==
    (Idle /\ missed = {} /\ row \in {"tp1", "tp2"} /\ pos.vol > 0) => pos.stop >= 0

(* While the journal counts a runner (tp1, tp2) only a stop or TP3 may have*)
(* ended the position: the bot itself keeps 60% and then 20% running for   *)
(* the TP3 backstop (_advance).                                            *)
RunnerRidesToTp3 ==
    (Idle /\ missed = {} /\ row \in {"tp1", "tp2"} /\ pos.vol = 0) =>
        ended.by = "stop" \/ (ended.by = "tp" /\ ended.at = 3)

(* The bot never takes more than its stages: whatever fails, is restarted  *)
(* or falls back, a live row's position was not closed by the bot and      *)
(* holds at least the stage's share to within one volume step.  Each       *)
(* partial close is made at most once, since _advance journals the stage   *)
(* before it calls (an order too small to split apart, see RunnerRides).   *)
NeverOverclosed ==
    row # "closed" => /\ ended.by # "bot"
                      /\ pos.vol > 0 => Share * lot - 100 * pos.vol <= 100

(* A stop once at entry or better never goes back below entry, whatever    *)
(* fails, is restarted or falls back: breakeven is sent before any trail,  *)
(* and the trail of any later bar is held at entry (check_outcomes).       *)
StopKeepsEntry == [][pos.stop >= 0 => pos'.stop >= 0]_vars

(* Once a row is closed the position is closed too, as long as no call is  *)
(* missed: the handler does get to its last call.                          *)
CloseReachesBroker ==
    (row = "closed" /\ missed = {}) ~> (pos.vol = 0 \/ missed # {})

(* The stop is at entry after TP1 when no call raised and nothing          *)
(* restarted: a broker that only answers is enough.                        *)
BreakevenHolds ==
    (Idle /\ missed \subseteq {"refused"} /\ row \in {"tp1", "tp2"} /\ pos.vol > 0)
        => pos.stop >= 0

(* Journal and broker agree that a trade is over when no call failed.      *)
NeverOrphaned ==
    (Idle /\ missed \subseteq {"expired"} /\ row = "closed") => pos.vol = 0
=============================================================================
