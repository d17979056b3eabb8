----------------------------- MODULE OrderEntry -----------------------------
(***************************************************************************)
(* From a signal to an order: the scanner journals and publishes a signal, *)
(* the user taps its button, Telegram delivers the tap at least once,      *)
(* execute_signal checks row and risk, ExecutionEngine submits the order   *)
(* with up to max_retries attempts, record_execution writes the ticket.    *)
(* In mt5-live mode the scanner submits the order itself.                  *)
(*                                                                         *)
(* One thread does all of this (run_forever), so a running handler is only *)
(* interleaved with the user, the broker and the death of the process.     *)
(* An exception in the handler of a tap ends the process as well:          *)
(* run_forever catches none, and docker starts the process again.  One in  *)
(* the scanner's handler is caught by scan_once and the process lives on.  *)
(*                                                                         *)
(* Telegram numbers the updates.  It keeps those above acked; a request    *)
(* with an offset acknowledges those up to the last one handled, and the   *)
(* process knows that offset only in memory.                               *)
(***************************************************************************)
EXTENDS Integers, Sequences, FiniteSets

CONSTANTS Signals,      \* ids of journal rows
          MaxRetries,   \* ExecutionEngine.max_retries
          MaxOpen,      \* maximum_open_trades
          AutoExecute,  \* TRUE in mt5-live mode, FALSE in mt5-manual mode
          MaxTaps,      \* bound: taps of the user
          MaxCrashes    \* bound: times the process dies

ASSUME SignalsAssumption == Signals \subseteq Nat \ {0} /\ Signals # {}
ASSUME LimitsAssumption == MaxRetries \in Nat \ {0} /\ MaxOpen \in Nat \ {0}
ASSUME ModeAssumption == AutoExecute \in BOOLEAN
ASSUME BoundsAssumption == MaxTaps \in Nat /\ MaxCrashes \in Nat

VARIABLES
  row,       \* [Signals -> Rows]: the journal
  placed,    \* [Signals -> Nat]: orders the broker has filled for the signal
  taps,      \* sequence of the signals tapped; the index is the update's id
  acked,     \* updates Telegram has been told to forget
  offset,    \* Notifier._offset - 1: the last update taken up
  batch,     \* the updates get_updates returned, those not yet taken up
  task,      \* the handler that is submitting an order
  answered,  \* history: updates whose handler ran to its end
  lost,      \* history: orders the broker filled without saying so
  unwritten, \* history: fills the scanner failed to journal and lived on
  crashes    \* history: times the process died

failures == <<lost, unwritten, crashes>>
vars == <<row, placed, taps, acked, offset, batch, task, answered, failures>>
telegram == <<taps, acked, offset, batch>>

Rows == [status : {"none", "open", "tp1", "closed"}, ticket : BOOLEAN, button : BOOLEAN]
Steps == {"idle", "submit", "record"}
Tasks == [step : Steps, sig : Signals \cup {0}, update : Nat, attempt : Nat]
NoTask == [step |-> "idle", sig |-> 0, update |-> 0, attempt |-> 0]

Larger(a, b) == IF a > b THEN a ELSE b
Idle == task.step = "idle"

-----------------------------------------------------------------------------
(* The risk gate, as far as it counts positions; module RiskGate has the rest *)

\* A row that is closed took the one position of its ticket with it.
OpenPositions(s) ==
    IF row[s].status = "closed" /\ row[s].ticket THEN placed[s] - 1 ELSE placed[s]
\* The positions the broker lists, whatever signal they belong to, and their number.
Positions == UNION {{s} \X (1 .. OpenPositions(s)) : s \in Signals}
AllOpen == Cardinality(Positions)
\* Wrong on purpose: > for >= in RiskEngine.evaluate.
MayOpen_OffByOne == AllOpen <= MaxOpen
MayOpen == AllOpen < MaxOpen

Submit(s, u) == task' = [step |-> "submit", sig |-> s, update |-> u, attempt |-> 1]

-----------------------------------------------------------------------------
(* The scanner and the trade's later life *)

\* poll_commands works through its batch before the loop goes on.
Scanning == Idle /\ batch = <<>>

\* _scan_symbol: journalled, then perhaps published, then in live mode executed
\* unless the risk engine says no.
ScanSignals(s) ==
    /\ Scanning /\ row[s].status = "none"
    /\ \E published \in BOOLEAN :
         row' = [row EXCEPT ![s] =
                   [status |-> "open", ticket |-> FALSE, button |-> published]]
    /\ UNCHANGED <<placed, telegram, task, answered, failures>>

ScanExecutes(s) ==
    /\ Scanning /\ AutoExecute /\ MayOpen /\ row[s].status = "none"
    /\ row' = [row EXCEPT ![s] = [status |-> "open", ticket |-> FALSE, button |-> TRUE]]
    /\ Submit(s, 0)
    /\ UNCHANGED <<placed, telegram, answered, failures>>

\* check_outcomes, between polls; BrokerSync has what it does to the position.
Resolve(s) ==
    /\ Scanning
    /\ \/ row[s].status = "open" /\ row' = [row EXCEPT ![s].status = "tp1"]
       \/ row[s].status \in {"open", "tp1"} /\ row' = [row EXCEPT ![s].status = "closed"]
    /\ UNCHANGED <<placed, telegram, task, answered, failures>>

-----------------------------------------------------------------------------
(* The button *)

Tap(s) ==
    /\ row[s].button /\ Len(taps) < MaxTaps
    /\ taps' = Append(taps, s)
    /\ UNCHANGED <<row, placed, acked, offset, batch, task, answered, failures>>

\* get_updates acknowledges what was taken up and returns what is left; the
\* answer may be lost, which reads as an empty batch.
After(a) == [i \in 1 .. Len(taps) - a |-> a + i]
Ask == Scanning /\ UNCHANGED <<row, placed, taps, offset, task, answered, failures>>

\* Wrong on purpose: the whole batch is acknowledged before it is handled.
Poll_AcksBatch == /\ Ask
                  /\ acked' = Len(taps)
                  /\ batch' = After(Larger(acked, offset))

Poll == /\ Ask
        /\ acked' = Larger(acked, offset)
        /\ batch' = After(acked')

PollFails == /\ Ask
             /\ acked' = Larger(acked, offset)
             /\ UNCHANGED batch

\* poll_commands takes the next update; the offset moves before it is handled.
Take(u) == /\ Idle /\ batch # <<>> /\ u = Head(batch)
           /\ offset' = u
           /\ batch' = Tail(batch)
           /\ UNCHANGED <<row, placed, taps, acked, failures>>

\* execute_signal returns early: ticket there, row not open, news, risk,
\* broker not connected, market closed, spread too wide.
RefuseTap ==
    \E u \in 1 .. Len(taps) : Take(u) /\ answered' = answered \cup {u} /\ UNCHANGED task

\* Wrong on purpose: the ticket is not looked at.
AcceptTap_Ticketed ==
    \E u \in 1 .. Len(taps) :
        /\ Take(u) /\ row[taps[u]].status = "open" /\ MayOpen
        /\ Submit(taps[u], u)
        /\ UNCHANGED answered

AcceptTap ==
    \E u \in 1 .. Len(taps) :
        /\ Take(u)
        /\ ~row[taps[u]].ticket /\ row[taps[u]].status = "open" /\ MayOpen
        /\ Submit(taps[u], u)
        /\ UNCHANGED answered

-----------------------------------------------------------------------------
(* ExecutionEngine.execute *)

Finish == /\ task' = NoTask
          /\ answered' = IF task.update = 0 THEN answered ELSE answered \cup {task.update}

Submitting == task.step = "submit" /\ UNCHANGED <<row, telegram, unwritten, crashes>>

FillOne == placed' = [placed EXCEPT ![task.sig] = @ + 1]

\* place_order answered: next attempt, or none left.
Retry == IF task.attempt < MaxRetries
         THEN task' = [task EXCEPT !.attempt = @ + 1] /\ UNCHANGED answered
         ELSE Finish

\* Wrong on purpose: the ticket is never journalled.
Fill_NotRecorded == Submitting /\ FillOne /\ Finish /\ UNCHANGED lost

Fill == /\ Submitting /\ FillOne
        /\ task' = [task EXCEPT !.step = "record"]
        /\ UNCHANGED <<answered, lost>>

\* order_send returns None or a retcode other than DONE (DONE_PARTIAL, TIMEOUT)
\* for an order that did fill: not ok, and tried again.  Or place_order raises,
\* which ends the scanner's handler at once.
FillUnheard == /\ Submitting /\ FillOne /\ lost' = lost + 1
               /\ Retry \/ (task.update = 0 /\ Finish)

\* A requote or another answer worth a second try.
Requote == Submitting /\ Retry /\ UNCHANGED <<placed, lost>>

\* _NON_RETRYABLE: the answer will not change.
Reject == Submitting /\ Finish /\ UNCHANGED <<placed, lost>>

\* Journal.record_execution
Record == /\ task.step = "record"
          /\ row' = [row EXCEPT ![task.sig].ticket = TRUE]
          /\ Finish
          /\ UNCHANGED <<placed, telegram, failures>>

\* record_execution raises and scan_once goes on to the next pair.
RecordFails == /\ task.step = "record" /\ task.update = 0
               /\ unwritten' = unwritten + 1
               /\ Finish
               /\ UNCHANGED <<row, placed, telegram, lost, crashes>>

\* The process ends, by a kill, a redeploy or an exception, and starts again.
Crash == /\ crashes < MaxCrashes
         /\ crashes' = crashes + 1
         /\ offset' = 0 /\ batch' = <<>> /\ task' = NoTask
         /\ UNCHANGED <<row, placed, taps, acked, answered, lost, unwritten>>

-----------------------------------------------------------------------------
Init == /\ row = [s \in Signals |->
                    [status |-> "none", ticket |-> FALSE, button |-> FALSE]]
        /\ placed = [s \in Signals |-> 0]
        /\ taps = <<>> /\ acked = 0 /\ offset = 0 /\ batch = <<>>
        /\ task = NoTask
        /\ answered = {} /\ lost = 0 /\ unwritten = 0 /\ crashes = 0

Next == \/ \E s \in Signals : \/ ScanSignals(s) \/ ScanExecutes(s)
                              \/ Resolve(s) \/ Tap(s)
        \/ Poll \/ PollFails \/ RefuseTap \/ AcceptTap
        \/ Fill \/ FillUnheard \/ Requote \/ Reject \/ Record \/ RecordFails
        \/ Crash

Spec == Init /\ [][Next]_vars

\* The loop polls every few seconds for ever, a batch is worked through, a
\* handler runs to its end: order_send and the requests have timeouts.
Handle == \/ RefuseTap \/ AcceptTap \/ Fill \/ FillUnheard \/ Requote \/ Reject
          \/ Record \/ RecordFails
FairSpec == Spec /\ WF_vars(Poll) /\ WF_vars(Handle)

-----------------------------------------------------------------------------
TypeOK == /\ row \in [Signals -> Rows]
          /\ placed \in [Signals -> Nat]
          /\ taps \in Seq(Signals)
          /\ acked \in 0 .. Len(taps) /\ offset \in 0 .. Len(taps)
          /\ \A i \in 1 .. Len(batch) : batch[i] \in 1 .. Len(taps)
          /\ task \in Tasks
          /\ task.step = "idle" => task = NoTask
          /\ answered \subseteq 1 .. Len(taps)
          /\ lost \in Nat /\ unwritten \in Nat /\ crashes \in 0 .. MaxCrashes

(* As long as the process stays up, the broker's answers arrive and the    *)
(* fill gets into the journal, a signal is ordered at most once, however   *)
(* often its button is tapped and whatever the scanner has done (the       *)
(* ticket check of execute_signal).                                        *)
OneOrderPerSignal ==
    (crashes = 0 /\ lost = 0 /\ unwritten = 0) => \A s \in Signals : placed[s] <= 1

\* Orders of a signal the journal has no ticket for: it keeps the last one only.
Strays(s) == IF row[s].ticket THEN placed[s] - 1 ELSE placed[s]
Unmanaged == UNION {{s} \X (1 .. Strays(s)) : s \in Signals}

(* A position that check_outcomes will never manage goes back to a failure *)
(* of its own: an answer that did not arrive, a ticket that could not be   *)
(* written, or a death of the process.  Taps, redeliveries and retries by  *)
(* themselves leave none, and one failure never leaves two.                *)
UnmanagedHasACause == Idle => Cardinality(Unmanaged) <= crashes + lost + unwritten

(* An order is sent only for a published row that is still open and has no *)
(* ticket, also for a tap that was delivered late, twice or after a        *)
(* restart.                                                                *)
OrdersOnlyForOpenRows ==
    [][\A s \in Signals : placed'[s] > placed[s] =>
         row[s].status = "open" /\ ~row[s].ticket /\ row[s].button]_vars

(* The number of open positions stays within maximum_open_trades: restarts *)
(* do not matter, since the gate asks the broker before every order.       *)
OpenCapHolds == lost = 0 => AllOpen <= MaxOpen

(* Telegram is told to forget an update only when its handler has run to   *)
(* its end, so no tap is lost in a restart.                                *)
NoTapForgotten == \A u \in 1 .. Len(taps) : u <= acked => u \in answered

(* Every tap is answered in the end, in spite of lost polls and restarts.  *)
EveryTapAnswered ==
    \A u \in 1 .. MaxTaps : (u <= Len(taps)) ~> (u \in answered)

(* "second tap is a no-op", and so should be a tap that is delivered again *)
(* after a restart.                                                        *)
RedeliveryIsNoOp == lost = 0 => \A s \in Signals : placed[s] <= 1

(* An attempt is repeated only for an answer that says nothing was done.   *)
RetryIsNoOp == crashes = 0 => \A s \in Signals : placed[s] <= 1

(* "check_outcomes then manages the 40/40/20 scale-out and breakeven on    *)
(* the live position": with the process up and every answer there, each    *)
(* position has its ticket in the journal when no handler runs.            *)
NoUnmanagedPosition ==
    (Idle /\ crashes = 0 /\ lost = 0) => \A s \in Signals : placed[s] > 0 => row[s].ticket
=============================================================================
