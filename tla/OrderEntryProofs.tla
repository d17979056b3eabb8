--------------------------- MODULE OrderEntryProofs ---------------------------
(***************************************************************************)
(* Proofs about OrderEntry, for every set of signals, number of attempts,  *)
(* cap and number of taps, in both modes: while the process stays up, the  *)
(* broker's answers arrive and the journal is written, a signal is ordered *)
(* at most once.  Whatever fails: each position without a ticket goes back *)
(* to a failure of its own, an order is only sent for a published open row *)
(* without a ticket, no tap is forgotten, and the cap on open positions    *)
(* holds as long as the broker says what it fills.                         *)
(***************************************************************************)
EXTENDS OrderEntry, FiniteSetTheorems, SequenceTheorems, TLAPS

(* The part of the types the proofs use.                                   *)
Typed == /\ row \in [Signals -> Rows]
         /\ placed \in [Signals -> Nat]
         /\ taps \in Seq(Signals)
         /\ task \in [step : Steps, sig : Signals \cup {0}, update : Nat, attempt : Nat]
         /\ crashes \in Nat /\ lost \in Nat /\ unwritten \in Nat

(* A row that has a ticket, or is being ordered, has been scanned.         *)
Scanned == /\ \A s \in Signals : row[s].ticket => row[s].status # "none"
           /\ ~Idle => task.sig \in Signals /\ row[task.sig].status # "none"

Quiet == crashes = 0 /\ lost = 0 /\ unwritten = 0

(* What no crash and no lost answer leave: an order that is not journalled *)
(* belongs to the handler that is about to journal it.                     *)
Accounted ==
    Quiet =>
      /\ \A s \in Signals :
           /\ placed[s] <= 1
           /\ placed[s] = 1 => row[s].ticket \/ (task.step = "record" /\ task.sig = s)
      /\ task.step = "submit" => placed[task.sig] = 0

EntryInv == Typed /\ Scanned /\ Accounted

LEMMA InitEntry == Init => EntryInv
<1> SUFFICES ASSUME Init PROVE EntryInv
  OBVIOUS
<1>1. Typed
  <2>1. [status |-> "none", ticket |-> FALSE, button |-> FALSE] \in Rows
    BY DEF Rows
  <2>2. row \in [Signals -> Rows] /\ placed \in [Signals -> Nat]
    BY <2>1 DEF Init
  <2>3. NoTask \in [step : Steps, sig : Signals \cup {0}, update : Nat, attempt : Nat]
    BY DEF NoTask, Steps
  <2>4. <<>> \in Seq(Signals)
    OBVIOUS
  <2> QED BY <2>2, <2>3, <2>4 DEF Init, Typed
<1>2. Scanned /\ Accounted
  BY DEF Init, Scanned, Accounted, Idle, NoTask
<1> QED BY <1>1, <1>2 DEF EntryInv

\* Only the journal row of one signal is written, by the scanner between two
\* handlers; it does not touch a ticket.
LEMMA ScanKeeps ==
    ASSUME EntryInv, Idle, NEW s \in Signals, NEW r \in Rows,
           row' = [row EXCEPT ![s] = r],
           r.ticket = row[s].ticket, r.status # "none",
           UNCHANGED <<placed, taps, failures>>,
           \/ UNCHANGED task
           \/ row[s].status = "none" /\ \E u \in Nat : Submit(s, u)
    PROVE  EntryInv'
<1> USE DEF EntryInv
<1>1. /\ row' \in [Signals -> Rows]
      /\ \A t \in Signals : row'[t].ticket = row[t].ticket
      /\ row'[s].status # "none"
      /\ \A t \in Signals : t # s => row'[t] = row[t]
  BY DEF Typed
<1>2. /\ task' \in [step : Steps, sig : Signals \cup {0}, update : Nat, attempt : Nat]
      /\ task'.step # "record"
      /\ task'.step # "idle" => task'.sig = s /\ row[s].status = "none"
  <2>1. CASE UNCHANGED task
    BY <2>1 DEF Typed, Idle
  <2>2. CASE row[s].status = "none" /\ \E u \in Nat : Submit(s, u)
    BY <2>2 DEF Submit, Steps
  <2> QED BY <2>1, <2>2
<1>3. Typed'
  BY <1>1, <1>2 DEF Typed, failures
<1>4. Scanned'
  BY <1>1, <1>2 DEF Scanned, Idle
<1>5. Accounted'
  BY <1>1, <1>2 DEF Accounted, Scanned, Quiet, Idle, Typed, failures
<1> QED BY <1>3, <1>4, <1>5

\* The button and Telegram's queue change no row, no order and no handler.
LEMMA TelegramKeeps ==
    ASSUME EntryInv,
           (\E s \in Signals : Tap(s)) \/ Poll \/ PollFails \/ RefuseTap \/ UNCHANGED vars
    PROVE  EntryInv'
<1>1. UNCHANGED <<row, placed, task, failures>>
  BY DEF Tap, Poll, PollFails, RefuseTap, Take, Ask, vars
<1>2. taps' \in Seq(Signals)
  <2>1. taps \in Seq(Signals)
    BY DEF EntryInv, Typed
  <2>2. ASSUME NEW s \in Signals, Tap(s) PROVE taps' \in Seq(Signals)
    BY <2>1, <2>2 DEF Tap
  <2>3. Poll \/ PollFails \/ RefuseTap \/ UNCHANGED vars => taps' = taps
    BY DEF Poll, PollFails, RefuseTap, Take, Ask, vars
  <2> QED BY <2>1, <2>2, <2>3
<1> QED BY <1>1, <1>2 DEF EntryInv, Typed, Scanned, Accounted, Quiet, Idle, failures

\* A tap is accepted for an open row without a ticket, when no handler runs: what
\* was ordered before has been journalled, so nothing was.
LEMMA TapKeeps == ASSUME EntryInv, AcceptTap PROVE EntryInv'
<1> USE DEF EntryInv
<1>1. PICK u \in 1 .. Len(taps) :
        /\ Idle /\ ~row[taps[u]].ticket /\ row[taps[u]].status = "open"
        /\ Submit(taps[u], u)
        /\ UNCHANGED <<row, placed, taps, failures>>
  BY DEF AcceptTap, Take
<1>2. taps[u] \in Signals /\ u \in Nat
  BY DEF Typed
<1>3. /\ task'.step = "submit" /\ task'.sig = taps[u]
      /\ task' \in [step : Steps, sig : Signals \cup {0}, update : Nat, attempt : Nat]
  BY <1>1, <1>2 DEF Submit, Steps
<1>4. Quiet => placed[taps[u]] = 0
  BY <1>1, <1>2 DEF Typed, Accounted, Idle
<1>5. Typed'
  BY <1>1, <1>3 DEF Typed, failures
<1>6. Scanned'
  BY <1>1, <1>2, <1>3 DEF Scanned, Idle
<1>7. Accounted'
  BY <1>1, <1>3, <1>4 DEF Accounted, Quiet, Idle, failures
<1> QED BY <1>5, <1>6, <1>7

\* An attempt that leaves no order, or one nobody was told of.
LEMMA AttemptKeeps ==
    ASSUME EntryInv, Fill \/ FillUnheard \/ Requote \/ Reject
    PROVE  EntryInv'
<1> USE DEF EntryInv
<1>1. /\ task.step = "submit" /\ task.sig \in Signals
      /\ UNCHANGED <<row, taps, unwritten, crashes>>
  BY DEF Fill, FillUnheard, Requote, Reject, Submitting, telegram, Scanned, Idle
<1>2. task = [step |-> task.step, sig |-> task.sig,
              update |-> task.update, attempt |-> task.attempt]
  BY DEF Typed
<1>3. CASE Fill
  <2>1. /\ placed' = [placed EXCEPT ![task.sig] = @ + 1]
        /\ task' = [task EXCEPT !.step = "record"] /\ lost' = lost
    BY <1>3 DEF Fill, FillOne
  <2>2. /\ task' \in [step : Steps, sig : Signals \cup {0}, update : Nat, attempt : Nat]
        /\ task'.step = "record" /\ task'.sig = task.sig
    BY <2>1 DEF Typed, Steps
  <2>3. Typed'
    BY <1>1, <2>1, <2>2 DEF Typed
  <2>4. Scanned'
    BY <1>1, <2>2 DEF Scanned, Idle
  <2>5. Quiet' => Quiet /\ placed[task.sig] = 0
    BY <1>1, <2>1 DEF Quiet, Accounted
  <2>6. Accounted'
    BY <1>1, <2>1, <2>2, <2>5 DEF Typed, Accounted
  <2> QED BY <2>3, <2>4, <2>6
<1>4. ASSUME task' \in [step : {"submit"}, sig : {task.sig}, update : Nat, attempt : Nat]
             \/ task' = NoTask,
             placed' \in [Signals -> Nat], lost' \in Nat,
             lost' > 0 \/ (UNCHANGED <<placed, lost>>)
      PROVE  EntryInv'
  <2>1. /\ task' \in [step : Steps, sig : Signals \cup {0}, update : Nat, attempt : Nat]
        /\ task'.step # "record"
        /\ task'.step # "idle" => task'.step = "submit" /\ task'.sig = task.sig
    BY <1>1, <1>4 DEF NoTask, Steps
  <2>2. Typed'
    BY <1>1, <1>4, <2>1 DEF Typed
  <2>3. Scanned'
    BY <1>1, <2>1 DEF Scanned, Idle
  <2>4. Accounted'
    BY <1>1, <1>4, <2>1 DEF Accounted, Quiet
  <2> QED BY <2>2, <2>3, <2>4
<1>5. Retry \/ Finish =>
        \/ task' \in [step : {"submit"}, sig : {task.sig}, update : Nat, attempt : Nat]
        \/ task' = NoTask
  <2>1. task.update \in Nat /\ task.attempt \in Nat
    BY DEF Typed
  <2>2. CASE Finish
    BY <2>2 DEF Finish
  <2>3. CASE Retry /\ ~Finish
    <3>1. task' = [task EXCEPT !.attempt = @ + 1]
      BY <2>3 DEF Retry
    <3>2. task' = [step |-> task.step, sig |-> task.sig,
                   update |-> task.update, attempt |-> task.attempt + 1]
      BY <1>2, <3>1
    <3> QED BY <1>1, <2>1, <3>2
  <2> QED BY <2>2, <2>3
<1>6. CASE FillUnheard
  <2>1. placed' = [placed EXCEPT ![task.sig] = @ + 1] /\ lost' = lost + 1 /\ (Retry \/ Finish)
    BY <1>6 DEF FillUnheard, FillOne
  <2>2. placed' \in [Signals -> Nat] /\ lost' \in Nat /\ lost' > 0
    BY <1>1, <2>1 DEF Typed
  <2> QED BY <1>4, <1>5, <2>1, <2>2
<1>7. CASE Requote \/ Reject
  <2>1. UNCHANGED <<placed, lost>> /\ (Retry \/ Finish)
    BY <1>7 DEF Requote, Reject
  <2>2. placed' \in [Signals -> Nat] /\ lost' \in Nat
    BY <2>1 DEF Typed
  <2> QED BY <1>4, <1>5, <2>1, <2>2
<1> QED BY <1>3, <1>6, <1>7

\* record_execution gives the row of the order its ticket.
LEMMA RecordKeeps == ASSUME EntryInv, Record PROVE EntryInv'
<1> USE DEF EntryInv
<1>1. /\ task.step = "record" /\ task.sig \in Signals /\ row[task.sig].status # "none"
      /\ row' = [row EXCEPT ![task.sig].ticket = TRUE] /\ task' = NoTask
      /\ UNCHANGED <<placed, taps, failures>>
  BY DEF Record, Finish, telegram, Scanned, Idle
<1>2. /\ row' \in [Signals -> Rows]
      /\ row'[task.sig].ticket
      /\ \A s \in Signals : /\ row'[s].status = row[s].status
                            /\ row[s].ticket => row'[s].ticket
                            /\ s # task.sig => row'[s] = row[s]
  BY <1>1 DEF Typed, Rows
<1>3. Typed'
  BY <1>1, <1>2 DEF Typed, NoTask, Steps, failures
<1>4. Scanned'
  BY <1>1, <1>2 DEF Scanned, Idle, NoTask
<1>5. Accounted'
  BY <1>1, <1>2 DEF Accounted, Quiet, NoTask, failures
<1> QED BY <1>3, <1>4, <1>5

LEMMA NextEntry == EntryInv /\ [Next]_vars => EntryInv'
<1> SUFFICES ASSUME EntryInv, [Next]_vars PROVE EntryInv'
  OBVIOUS
<1>1. ASSUME NEW s \in Signals, ScanSignals(s) \/ ScanExecutes(s) \/ Resolve(s)
      PROVE  EntryInv'
  <2> USE DEF EntryInv
  <2>1. /\ Idle /\ UNCHANGED <<placed, taps, failures>>
        /\ row[s] \in Rows
    BY <1>1 DEF ScanSignals, ScanExecutes, Resolve, Scanning, telegram, Typed
  <2>2. PICK r \in Rows :
          /\ row' = [row EXCEPT ![s] = r]
          /\ r.ticket = row[s].ticket /\ r.status # "none"
    <3>1. CASE ScanSignals(s) \/ ScanExecutes(s)
      <4>1. row[s].status = "none" /\ ~row[s].ticket
        BY <3>1 DEF ScanSignals, ScanExecutes, Scanned
      <4>2. row[s].ticket = FALSE
        BY <2>1, <4>1 DEF Rows
      <4>3. PICK b \in BOOLEAN :
              row' = [row EXCEPT ![s] = [status |-> "open", ticket |-> FALSE, button |-> b]]
        BY <3>1 DEF ScanSignals, ScanExecutes
      <4>4. [status |-> "open", ticket |-> FALSE, button |-> b] \in Rows
        BY DEF Rows
      <4> QED BY <4>2, <4>3, <4>4
    <3>2. CASE Resolve(s)
      <4>1. PICK c \in {"tp1", "closed"} : row' = [row EXCEPT ![s].status = c]
        BY <3>2 DEF Resolve
      <4>2. row' = [row EXCEPT ![s] = [row[s] EXCEPT !.status = c]]
        BY <4>1
      <4>3. /\ [row[s] EXCEPT !.status = c] \in Rows
            /\ [row[s] EXCEPT !.status = c].ticket = row[s].ticket
            /\ [row[s] EXCEPT !.status = c].status # "none"
        BY <2>1 DEF Rows
      <4> QED BY <4>2, <4>3
    <3> QED BY <1>1, <3>1, <3>2
  <2>3. \/ UNCHANGED task
        \/ row[s].status = "none" /\ \E u \in Nat : Submit(s, u)
    BY <1>1 DEF ScanSignals, ScanExecutes, Resolve
  <2> HIDE DEF EntryInv
  <2> QED BY <2>1, <2>2, <2>3, ScanKeeps
\* A restart is not quiet, and there is no handler after it.
<1>2. CASE Crash
  <2>1. /\ crashes' = crashes + 1 /\ task' = NoTask
        /\ UNCHANGED <<row, placed, taps, lost, unwritten>>
    BY <1>2 DEF Crash
  <2> QED BY <2>1 DEF EntryInv, Typed, Scanned, Accounted, Quiet, Idle, NoTask, Steps
\* Nor is a fill that could not be journalled.
<1>3. CASE RecordFails
  <2>1. /\ unwritten' = unwritten + 1 /\ task' = NoTask
        /\ UNCHANGED <<row, placed, taps, lost, crashes>>
    BY <1>3 DEF RecordFails, Finish, telegram
  <2> QED BY <2>1 DEF EntryInv, Typed, Scanned, Accounted, Quiet, Idle, NoTask, Steps
<1> QED BY <1>1, <1>2, <1>3, TelegramKeeps, TapKeeps, AttemptKeeps, RecordKeeps DEF Next

(* The invariant of rows, orders and handler holds in every state.         *)
THEOREM EntryInvHolds == Spec => []EntryInv
  BY InitEntry, NextEntry, PTL DEF Spec

-----------------------------------------------------------------------------
(* At most one order a signal while nothing fails.                         *)
THEOREM OneOrderPerSignalHolds == Spec => []OneOrderPerSignal
<1>1. EntryInv => OneOrderPerSignal
  BY DEF EntryInv, Accounted, Quiet, OneOrderPerSignal
<1> QED BY <1>1, EntryInvHolds, PTL

-----------------------------------------------------------------------------
(* Positions without a ticket.  A stack over f holds f[s] entries for each *)
(* signal; Unmanaged is one.                                               *)
Stack(f) == UNION {{s} \X (1 .. f[s]) : s \in Signals}

LEMMA StackBelow ==
    ASSUME NEW f \in [Signals -> Int], NEW g \in [Signals -> Int], IsFiniteSet(Stack(f)),
           \A s \in Signals : g[s] <= f[s]
    PROVE  IsFiniteSet(Stack(g)) /\ Cardinality(Stack(g)) <= Cardinality(Stack(f))
<1>1. Stack(g) \subseteq Stack(f)
  BY DEF Stack
<1> QED BY <1>1, FS_Subset

LEMMA StackPush ==
    ASSUME NEW f \in [Signals -> Int], NEW g \in [Signals -> Int], IsFiniteSet(Stack(f)),
           NEW q \in Signals,
           g[q] = f[q] + 1, \A s \in Signals : s # q => g[s] = f[s]
    PROVE  IsFiniteSet(Stack(g)) /\ Cardinality(Stack(g)) <= Cardinality(Stack(f)) + 1
<1> DEFINE new == <<q, f[q] + 1>>
           more == Stack(f) \cup {new}
<1>1. Stack(g) \subseteq more
  <2> SUFFICES ASSUME NEW p \in Stack(g) PROVE p \in more
    OBVIOUS
  <2>1. PICK s \in Signals : p \in {s} \X (1 .. g[s])
    BY DEF Stack
  <2>2. p = <<s, p[2]>> /\ p[2] \in 1 .. g[s]
    BY <2>1
  <2>3. CASE p[2] \in 1 .. f[s]
    BY <2>2, <2>3 DEF Stack
  <2>4. CASE p[2] \notin 1 .. f[s]
    BY <2>2, <2>4
  <2> QED BY <2>3, <2>4
<1>2. PICK N : N = Cardinality(Stack(f))
  OBVIOUS
<1>3. N \in Nat
  BY <1>2, FS_CardinalityType
<1>4. IsFiniteSet(more) /\ Cardinality(more) <= N + 1
  <2>1. /\ IsFiniteSet(more)
        /\ Cardinality(more) = IF new \in Stack(f) THEN Cardinality(Stack(f))
                                                   ELSE Cardinality(Stack(f)) + 1
    BY FS_AddElement
  <2> HIDE DEF more, new
  <2> QED BY <1>2, <1>3, <2>1
<1>5. IsFiniteSet(Stack(g)) /\ Cardinality(Stack(g)) <= Cardinality(more)
  BY <1>1, <1>4, FS_Subset
<1> HIDE DEF more
<1> QED BY <1>2, <1>3, <1>4, <1>5, FS_CardinalityType

LEMMA StackPop ==
    ASSUME NEW f \in [Signals -> Int], NEW g \in [Signals -> Int], IsFiniteSet(Stack(f)),
           NEW q \in Signals, f[q] >= 1,
           g[q] = f[q] - 1, \A s \in Signals : s # q => g[s] = f[s]
    PROVE  IsFiniteSet(Stack(g)) /\ Cardinality(Stack(g)) + 1 <= Cardinality(Stack(f))
<1> DEFINE top == <<q, f[q]>>
           less == Stack(f) \ {top}
<1>1. top \in Stack(f)
  BY DEF Stack
<1>2. Stack(g) \subseteq less
  <2> SUFFICES ASSUME NEW p \in Stack(g) PROVE p \in less
    OBVIOUS
  <2>1. PICK s \in Signals : p \in {s} \X (1 .. g[s])
    BY DEF Stack
  <2>2. p = <<s, p[2]>> /\ p[2] \in 1 .. g[s]
    BY <2>1
  <2>3. p[2] \in 1 .. f[s] /\ ~(s = q /\ p[2] = f[q])
    BY <2>2
  <2>4. p \in Stack(f)
    BY <2>2, <2>3 DEF Stack
  <2>5. p # top
    BY <2>2, <2>3
  <2> QED BY <2>4, <2>5
<1>3. PICK N : N = Cardinality(Stack(f))
  OBVIOUS
<1>4. N \in Nat
  BY <1>3, FS_CardinalityType
<1>5. IsFiniteSet(less) /\ Cardinality(less) = N - 1
  <2>1. /\ IsFiniteSet(less)
        /\ Cardinality(less) = IF top \in Stack(f) THEN Cardinality(Stack(f)) - 1
                                                   ELSE Cardinality(Stack(f))
    BY FS_RemoveElement
  <2> HIDE DEF less, top
  <2> QED BY <1>1, <1>3, <2>1
<1>6. IsFiniteSet(Stack(g)) /\ Cardinality(Stack(g)) <= Cardinality(less)
  BY <1>2, <1>5, FS_Subset
<1> HIDE DEF less
<1> QED BY <1>3, <1>4, <1>5, <1>6, FS_CardinalityType

(* A ticket that is missing was missed by a failure, or is about to be     *)
(* written by the handler that got the fill.                               *)
StrayOf == [s \in Signals |-> Strays(s)]
Excused(n) ==
    n <= crashes + lost + unwritten + (IF task.step = "record" THEN 1 ELSE 0)
Caused == /\ IsFiniteSet(Stack(StrayOf))
          /\ \E n \in Nat : n = Cardinality(Stack(StrayOf)) /\ Excused(n)
          /\ task.step # "idle" => ~row[task.sig].ticket
          /\ task.step = "record" => placed[task.sig] >= 1

LEMMA StackIsUnmanaged == Stack(StrayOf) = Unmanaged
  BY DEF Stack, StrayOf, Unmanaged

LEMMA StrayTypes == Typed => StrayOf \in [Signals -> Int]
  BY DEF Typed, StrayOf, Strays

LEMMA InitCaused == Init => Caused
<1> SUFFICES ASSUME Init PROVE Caused
  OBVIOUS
<1>1. \A s \in Signals : Strays(s) = 0
  BY DEF Init, Strays
<1>2. Stack(StrayOf) = {}
  BY <1>1 DEF Stack, StrayOf
<1>3. IsFiniteSet(Stack(StrayOf)) /\ Cardinality(Stack(StrayOf)) = 0
  BY <1>2, FS_EmptySet
<1>4. task.step = "idle" /\ crashes = 0 /\ lost = 0 /\ unwritten = 0
  BY DEF Init, NoTask
<1> QED BY <1>3, <1>4 DEF Caused, Excused

\* A handler that is told to try again stays with its signal.
LEMMA AnotherTry ==
    ASSUME NEW t, NEW u,
           t \in [step : Steps, sig : Signals \cup {0}, update : Nat, attempt : Nat],
           t.step = "submit", u = NoTask \/ u = [t EXCEPT !.attempt = @ + 1]
    PROVE  u.step # "record" /\ (u.step # "idle" => u.sig = t.sig)
<1>1. CASE u = NoTask
  BY <1>1 DEF NoTask
<1>2. CASE u = [t EXCEPT !.attempt = @ + 1]
  <2>1. u.step = t.step /\ u.sig = t.sig
    BY <1>2
  <2> QED BY <2>1
<1> QED BY <1>1, <1>2

LEMMA NextCaused == EntryInv /\ EntryInv' /\ Caused /\ [Next]_vars => Caused'
<1> SUFFICES ASSUME EntryInv, EntryInv', Caused, [Next]_vars PROVE Caused'
  OBVIOUS
<1>1. /\ Typed /\ Typed' /\ Scanned
      /\ \A s \in Signals : row[s] \in Rows /\ row'[s] \in Rows /\ placed[s] \in Nat
      /\ StrayOf \in [Signals -> Int] /\ StrayOf' \in [Signals -> Int]
      /\ crashes \in Nat /\ lost \in Nat /\ unwritten \in Nat
  BY StrayTypes DEF EntryInv, Typed, StrayOf, Strays
<1>2. PICK n \in Nat : n = Cardinality(Stack(StrayOf)) /\ Excused(n)
  BY DEF Caused
<1>3. IsFiniteSet(Stack(StrayOf))
  BY DEF Caused
\* No ticket is written and nothing is filled.
<1>4. ASSUME UNCHANGED placed, \A s \in Signals : row'[s].ticket = row[s].ticket,
             Excused(n)',
             task'.step # "idle" => ~row'[task'.sig].ticket,
             task'.step = "record" => placed'[task'.sig] >= 1
      PROVE  Caused'
  <2>1. StrayOf' = StrayOf
    BY <1>4 DEF StrayOf, Strays
  <2>2. Stack(StrayOf)' = Stack(StrayOf)
    BY <2>1 DEF Stack
  <2> QED BY <1>2, <1>3, <1>4, <2>2 DEF Caused
\* A fill, heard of or not.
<1>5. ASSUME task.step = "submit", FillOne, UNCHANGED row,
             \A m \in Nat : m <= n + 1 => Excused(m)',
             task'.step # "idle" => task'.sig = task.sig
      PROVE  Caused'
  <2>1. task.sig \in Signals /\ ~row[task.sig].ticket
    BY <1>1, <1>5 DEF Scanned, Idle, Caused
  <2>2. /\ placed'[task.sig] = placed[task.sig] + 1
        /\ \A s \in Signals : s # task.sig => placed'[s] = placed[s]
    BY <1>1, <1>5, <2>1 DEF FillOne, Typed
  <2>3. /\ StrayOf'[task.sig] = StrayOf[task.sig] + 1
        /\ \A s \in Signals : s # task.sig => StrayOf'[s] = StrayOf[s]
    BY <1>5, <2>1, <2>2 DEF StrayOf, Strays
  <2>4. /\ IsFiniteSet(Stack(StrayOf'))
        /\ Cardinality(Stack(StrayOf')) <= Cardinality(Stack(StrayOf)) + 1
    BY <1>1, <1>3, <2>1, <2>3, StackPush
  <2>5. PICK m : m = Cardinality(Stack(StrayOf'))
    OBVIOUS
  <2>6. m \in Nat
    BY <2>4, <2>5, FS_CardinalityType
  <2>7. Excused(m)'
    BY <1>2, <1>5, <2>4, <2>5, <2>6
  <2>8. Stack(StrayOf)' = Stack(StrayOf')
    BY DEF Stack
  <2>9. \E k \in Nat : k = Cardinality(Stack(StrayOf)') /\ Excused(k)'
    BY <2>5, <2>6, <2>7, <2>8
  <2>10. placed'[task.sig] >= 1
    BY <1>1, <2>1, <2>2
  <2> QED BY <1>5, <2>1, <2>4, <2>8, <2>9, <2>10 DEF Caused
<1>6. ASSUME NEW s \in Signals, ScanSignals(s) \/ ScanExecutes(s) \/ Resolve(s)
      PROVE  Caused'
  <2>1. Idle /\ UNCHANGED <<placed, failures>>
    BY <1>6 DEF ScanSignals, ScanExecutes, Resolve, Scanning
  <2>2. \A q \in Signals : row'[q].ticket = row[q].ticket
    <3>1. CASE ScanSignals(s) \/ ScanExecutes(s)
      <4>1. row[s].ticket = FALSE
        BY <1>1, <3>1 DEF ScanSignals, ScanExecutes, Scanned, Rows
      <4>2. row'[s].ticket = FALSE /\ \A q \in Signals : q # s => row'[q] = row[q]
        BY <1>1, <3>1 DEF ScanSignals, ScanExecutes, Typed
      <4> QED BY <4>1, <4>2
    <3>2. CASE Resolve(s)
      <4>1. PICK c \in {"tp1", "closed"} : row' = [row EXCEPT ![s].status = c]
        BY <3>2 DEF Resolve
      <4> QED BY <1>1, <4>1 DEF Typed, Rows
    <3> QED BY <1>6, <3>1, <3>2
  <2>3. \/ UNCHANGED task
        \/ /\ task'.step = "submit" /\ task'.sig = s
           /\ row[s].status = "none"
    BY <1>6 DEF ScanSignals, ScanExecutes, Resolve, Submit
  <2>4. row[s].status = "none" => ~row[s].ticket
    BY <1>1 DEF Scanned
  <2>5. task'.step # "record"
    BY <2>1, <2>3 DEF Idle
  <2>6. Excused(n)'
    BY <1>2, <2>1, <2>5 DEF Excused, Idle, failures
  <2>7. task'.step # "idle" => ~row'[task'.sig].ticket
    BY <2>1, <2>2, <2>3, <2>4 DEF Idle
  <2> QED BY <1>4, <2>1, <2>2, <2>5, <2>6, <2>7
<1>7. CASE Poll \/ PollFails \/ RefuseTap \/ (\E s \in Signals : Tap(s)) \/ UNCHANGED vars
  <2>1. UNCHANGED <<row, placed, task, failures>>
    BY <1>7 DEF Poll, PollFails, RefuseTap, Tap, Take, Ask, vars
  <2>2. Excused(n)'
    BY <1>2, <2>1 DEF Excused, failures
  <2> QED BY <1>4, <2>1, <2>2 DEF Caused
<1>8. CASE AcceptTap
  <2>1. PICK u \in 1 .. Len(taps) : /\ Idle /\ ~row[taps[u]].ticket /\ Submit(taps[u], u)
                                    /\ UNCHANGED <<row, placed, failures>>
    BY <1>8 DEF AcceptTap, Take
  <2>2. task'.step = "submit" /\ task'.sig = taps[u]
    BY <2>1 DEF Submit
  <2>3. Excused(n)'
    BY <1>2, <2>1, <2>2 DEF Excused, Idle, failures
  <2> QED BY <1>4, <2>1, <2>2, <2>3
<1>9. CASE Fill
  <2>1. /\ task.step = "submit" /\ FillOne /\ UNCHANGED <<row, failures>>
        /\ task'.step = "record" /\ task'.sig = task.sig
    BY <1>1, <1>9 DEF Fill, Submitting, Typed, failures
  <2>2. \A m \in Nat : m <= n + 1 => Excused(m)'
    BY <1>1, <1>2, <2>1 DEF Excused, failures
  <2> QED BY <1>5, <2>1, <2>2
<1>10. CASE FillUnheard
  <2>1. /\ task.step = "submit" /\ FillOne /\ UNCHANGED <<row, unwritten, crashes>>
        /\ lost' = lost + 1
        /\ \/ task' = NoTask
           \/ task' = [task EXCEPT !.attempt = @ + 1]
    BY <1>10 DEF FillUnheard, Submitting, Retry, Finish
  <2>2. /\ task'.step # "record"
        /\ task'.step # "idle" => task'.sig = task.sig
    BY <1>1, <2>1, AnotherTry DEF Typed
  <2>3. \A m \in Nat : m <= n + 1 => Excused(m)'
    BY <1>1, <1>2, <2>1, <2>2 DEF Excused
  <2> QED BY <1>5, <2>1, <2>2, <2>3
<1>11. CASE Requote \/ Reject
  <2>1. /\ task.step = "submit" /\ UNCHANGED <<row, placed, lost, unwritten, crashes>>
        /\ \/ task' = NoTask
           \/ task' = [task EXCEPT !.attempt = @ + 1]
    BY <1>11 DEF Requote, Reject, Submitting, Retry, Finish
  <2>2. /\ task'.step # "record"
        /\ task'.step # "idle" => task'.sig = task.sig
    BY <1>1, <2>1, AnotherTry DEF Typed
  <2>3. Excused(n)'
    BY <1>2, <2>1, <2>2 DEF Excused
  <2> QED BY <1>4, <2>1, <2>2, <2>3 DEF Caused
\* The ticket is written: one stray less, and no handler to write another.
<1>12. CASE Record
  <2>1. /\ task.step = "record" /\ row' = [row EXCEPT ![task.sig].ticket = TRUE]
        /\ task' = NoTask /\ UNCHANGED <<placed, failures>>
    BY <1>12 DEF Record, Finish
  <2>2. task.sig \in Signals /\ ~row[task.sig].ticket /\ placed[task.sig] >= 1
    BY <1>1, <2>1 DEF Scanned, Idle, Caused
  <2>3. /\ row'[task.sig].ticket
        /\ \A s \in Signals : s # task.sig => row'[s] = row[s]
    BY <1>1, <2>1, <2>2 DEF Typed, Rows
  <2>4. /\ StrayOf[task.sig] >= 1 /\ StrayOf'[task.sig] = StrayOf[task.sig] - 1
        /\ \A s \in Signals : s # task.sig => StrayOf'[s] = StrayOf[s]
    BY <1>1, <2>1, <2>2, <2>3 DEF StrayOf, Strays
  <2>5. /\ IsFiniteSet(Stack(StrayOf'))
        /\ Cardinality(Stack(StrayOf')) + 1 <= Cardinality(Stack(StrayOf))
    BY <1>1, <1>3, <2>2, <2>4, StackPop
  <2>6. PICK m : m = Cardinality(Stack(StrayOf'))
    OBVIOUS
  <2>7. m \in Nat
    BY <2>5, <2>6, FS_CardinalityType
  <2>8. Excused(m)'
    BY <1>1, <1>2, <2>1, <2>5, <2>6, <2>7 DEF Excused, failures, NoTask
  <2>9. Stack(StrayOf)' = Stack(StrayOf')
    BY DEF Stack
  <2>10. \E k \in Nat : k = Cardinality(Stack(StrayOf)') /\ Excused(k)'
    BY <2>6, <2>7, <2>8, <2>9
  <2> QED BY <2>1, <2>5, <2>9, <2>10 DEF Caused, NoTask
\* The ticket is not written, and that is one failure more.
<1>13. CASE RecordFails \/ Crash
  <2>1. /\ task' = NoTask /\ UNCHANGED <<row, placed, lost>>
        /\ \/ unwritten' = unwritten + 1 /\ crashes' = crashes
           \/ crashes' = crashes + 1 /\ unwritten' = unwritten
    BY <1>13 DEF RecordFails, Crash, Finish
  <2>2. Excused(n)'
    BY <1>1, <1>2, <2>1 DEF Excused, NoTask
  <2> QED BY <1>4, <2>1, <2>2 DEF NoTask
<1> QED BY <1>6, <1>7, <1>8, <1>9, <1>10, <1>11, <1>12, <1>13 DEF Next

(* Every position the journal has no ticket for goes back to a failure of  *)
(* its own, for any number of signals, taps, retries and restarts.         *)
THEOREM UnmanagedHasACauseHolds == Spec => []UnmanagedHasACause
<1>1. EntryInv /\ Caused => UnmanagedHasACause
  <2> SUFFICES ASSUME EntryInv, Caused, Idle
               PROVE  Cardinality(Unmanaged) <= crashes + lost + unwritten
    BY DEF UnmanagedHasACause
  <2>1. PICK n \in Nat : n = Cardinality(Unmanaged) /\ Excused(n)
    BY StackIsUnmanaged DEF Caused
  <2> QED BY <2>1 DEF Excused, Idle, EntryInv, Typed
<1> QED BY <1>1, EntryInvHolds, InitCaused, NextCaused, PTL DEF Spec

-----------------------------------------------------------------------------
(* The cap on open positions.  It survives restarts, because the gate asks *)
(* the broker; what it needs is that a handler which has passed the gate   *)
(* is the only one under way, so that its order is the next one filled.    *)
Capped ==
    /\ IsFiniteSet(Positions)
    /\ lost = 0 => /\ AllOpen <= MaxOpen
                   /\ task.step = "submit" => AllOpen < MaxOpen

\* Cardinalities of the broker's list: it can only get shorter ...
LEMMA FewerOpen ==
    ASSUME Typed, Typed', IsFiniteSet(Positions),
           \A s \in Signals : OpenPositions(s)' <= OpenPositions(s)
    PROVE  /\ IsFiniteSet(Positions')
           /\ AllOpen \in Nat /\ AllOpen' \in Nat /\ AllOpen' <= AllOpen
<1>1. \A s \in Signals : OpenPositions(s) \in Int /\ OpenPositions(s)' \in Int
  BY DEF Typed, OpenPositions
<1>2. Positions' \subseteq Positions
  BY <1>1 DEF Positions
<1>3. IsFiniteSet(Positions') /\ Cardinality(Positions') <= Cardinality(Positions)
  BY <1>2, FS_Subset
<1> QED BY <1>3, FS_CardinalityType DEF AllOpen

\* ... except for a fill, which adds one position.
LEMMA OneMoreOpen ==
    ASSUME Typed, IsFiniteSet(Positions), task.sig \in Signals, FillOne, UNCHANGED row
    PROVE  /\ IsFiniteSet(Positions')
           /\ AllOpen \in Nat /\ AllOpen' \in Nat /\ AllOpen' <= AllOpen + 1
<1> DEFINE q == task.sig
           new == <<q, OpenPositions(q) + 1>>
           more == Positions \cup {new}
<1>1. placed' = [placed EXCEPT ![q] = placed[q] + 1]
  BY DEF FillOne
<1>2. \A s \in Signals :
        /\ OpenPositions(s) \in Int
        /\ OpenPositions(s)' = IF s = q THEN OpenPositions(s) + 1 ELSE OpenPositions(s)
  BY <1>1 DEF Typed, OpenPositions
<1>3. Positions' \subseteq more
  <2> SUFFICES ASSUME NEW p \in Positions' PROVE p \in more
    OBVIOUS
  <2>1. PICK s \in Signals : p \in {s} \X (1 .. OpenPositions(s)')
    BY DEF Positions
  <2>2. p = <<s, p[2]>> /\ p[2] \in 1 .. OpenPositions(s)'
    BY <2>1
  <2>3. CASE p[2] \in 1 .. OpenPositions(s)
    BY <2>2, <2>3 DEF Positions
  <2>4. CASE p[2] \notin 1 .. OpenPositions(s)
    BY <1>2, <2>2, <2>4
  <2> QED BY <2>3, <2>4
<1>4. IsFiniteSet(more) /\ Cardinality(more) <= Cardinality(Positions) + 1
  <2>1. /\ IsFiniteSet(more)
        /\ Cardinality(more) = IF new \in Positions THEN Cardinality(Positions)
                                                   ELSE Cardinality(Positions) + 1
    BY FS_AddElement
  <2> HIDE DEF more, new
  <2> QED BY <2>1, FS_CardinalityType
<1>5. IsFiniteSet(Positions') /\ Cardinality(Positions') <= Cardinality(more)
  BY <1>3, <1>4, FS_Subset
<1> HIDE DEF more
<1> QED BY <1>4, <1>5, FS_CardinalityType DEF AllOpen

LEMMA InitCapped == Init => Capped
<1> SUFFICES ASSUME Init PROVE Capped
  OBVIOUS
<1>1. \A s \in Signals : OpenPositions(s) = 0
  BY DEF Init, OpenPositions
<1>2. Positions = {}
  BY <1>1 DEF Positions
<1>3. IsFiniteSet(Positions) /\ AllOpen = 0
  BY <1>2, FS_EmptySet DEF AllOpen
<1> QED BY <1>3, LimitsAssumption DEF Capped

LEMMA NextCapped == EntryInv /\ EntryInv' /\ Capped /\ [Next]_vars => Capped'
<1> SUFFICES ASSUME EntryInv, EntryInv', Capped, [Next]_vars PROVE Capped'
  OBVIOUS
<1>1. Typed /\ Typed' /\ Scanned /\ IsFiniteSet(Positions) /\ MaxOpen \in Nat
  BY LimitsAssumption DEF EntryInv, Capped
\* The list does not grow, and the gate was open for a handler that starts.
<1>2. ASSUME \A s \in Signals : OpenPositions(s)' <= OpenPositions(s),
             lost' = lost,
             task'.step = "submit" => task.step = "submit" \/ MayOpen
      PROVE  Capped'
  <2>1. /\ IsFiniteSet(Positions')
        /\ AllOpen \in Nat /\ AllOpen' \in Nat /\ AllOpen' <= AllOpen
    BY <1>1, <1>2, FewerOpen
  <2> QED BY <1>1, <1>2, <2>1 DEF Capped, MayOpen
<1>3. \A s \in Signals : row[s] \in Rows /\ placed[s] \in Nat /\ OpenPositions(s) \in Int
  BY <1>1 DEF Typed, OpenPositions
<1>4. CASE UNCHANGED <<row, placed, lost>>
             /\ (task'.step = "submit" => task.step = "submit" \/ MayOpen)
  BY <1>2, <1>3, <1>4 DEF OpenPositions
<1>5. ASSUME NEW s \in Signals, ScanSignals(s) \/ ScanExecutes(s) \/ Resolve(s)
      PROVE  Capped'
  <2>1. /\ \A q \in Signals : q # s => row'[q] = row[q]
        /\ UNCHANGED <<placed, lost>>
        /\ task'.step = "submit" => task.step = "submit" \/ MayOpen
    BY <1>1, <1>5 DEF ScanSignals, ScanExecutes, Resolve, Typed, failures
  <2>2. row[s].status = "closed" /\ row[s].ticket =>
          row'[s].status = "closed" /\ row'[s].ticket
    BY <1>1, <1>5 DEF ScanSignals, ScanExecutes, Resolve, Typed
  <2>3. \A q \in Signals : OpenPositions(q)' <= OpenPositions(q)
    BY <1>3, <2>1, <2>2 DEF OpenPositions
  <2> QED BY <1>2, <2>1, <2>3
<1>6. CASE Poll \/ PollFails \/ RefuseTap \/ (\E s \in Signals : Tap(s))
  BY <1>4, <1>6 DEF Poll, PollFails, RefuseTap, Tap, Take, Ask, failures
<1>7. CASE AcceptTap
  BY <1>4, <1>7 DEF AcceptTap, Take, failures
<1>8. CASE Requote \/ Reject
  BY <1>4, <1>8 DEF Requote, Reject, Submitting, telegram
\* The order the gate has left room for.
<1>9. CASE Fill
  <2>1. /\ task.step = "submit" /\ task.sig \in Signals /\ FillOne
        /\ UNCHANGED <<row, lost>> /\ task' = [task EXCEPT !.step = "record"]
    BY <1>1, <1>9 DEF Fill, Submitting, Scanned, Idle
  <2>2. /\ IsFiniteSet(Positions')
        /\ AllOpen \in Nat /\ AllOpen' \in Nat /\ AllOpen' <= AllOpen + 1
    BY <1>1, <2>1, OneMoreOpen
  <2>3. task'.step = "record"
    BY <1>1, <2>1 DEF Typed
  <2> QED BY <1>1, <2>1, <2>2, <2>3 DEF Capped
<1>10. CASE FillUnheard
  <2>1. /\ task.sig \in Signals /\ FillOne /\ UNCHANGED row /\ lost' = lost + 1
    BY <1>1, <1>10 DEF FillUnheard, Submitting, Scanned, Idle
  <2>2. IsFiniteSet(Positions') /\ lost' # 0
    BY <1>1, <2>1, OneMoreOpen DEF Typed
  <2> QED BY <2>2 DEF Capped
<1>11. CASE Record
  <2>1. /\ row' = [row EXCEPT ![task.sig].ticket = TRUE] /\ task' = NoTask
        /\ UNCHANGED <<placed, lost>>
    BY <1>11 DEF Record, Finish, failures
  <2>2. \A s \in Signals : /\ row'[s].status = row[s].status
                           /\ row[s].ticket => row'[s].ticket
    BY <1>1, <1>3, <2>1 DEF Typed, Rows
  <2>3. \A s \in Signals : OpenPositions(s)' <= OpenPositions(s)
    BY <1>3, <2>1, <2>2 DEF OpenPositions
  <2> QED BY <1>2, <2>1, <2>3 DEF NoTask
<1>12. CASE Crash \/ RecordFails
  BY <1>4, <1>12 DEF Crash, RecordFails, Finish, NoTask
<1>13. CASE UNCHANGED vars
  BY <1>4, <1>13 DEF vars, failures
<1> QED BY <1>5, <1>6, <1>7, <1>8, <1>9, <1>10, <1>11, <1>12, <1>13 DEF Next

(* The cap is never exceeded, whatever crashes and however often a button  *)
(* is tapped, as long as the broker says what it has filled.               *)
THEOREM OpenCapAlwaysHolds == Spec => []OpenCapHolds
<1>1. Capped => OpenCapHolds
  BY DEF Capped, OpenCapHolds
<1> QED BY <1>1, EntryInvHolds, InitCapped, NextCapped, PTL DEF Spec

-----------------------------------------------------------------------------
(* What the checks of execute_signal rest on when the order is sent, some  *)
(* answers of the broker later: nobody else writes the row meanwhile, and  *)
(* only a row that was published has a button to tap.                      *)
Offered == /\ \A s \in Signals : row[s].status = "none" => ~row[s].button
           /\ \A i \in 1 .. Len(taps) : row[taps[i]].button
           /\ task.step = "submit" => /\ row[task.sig].status = "open"
                                      /\ ~row[task.sig].ticket
                                      /\ row[task.sig].button

LEMMA NextOffered == EntryInv /\ EntryInv' /\ Offered /\ [Next]_vars => Offered'
<1> SUFFICES ASSUME EntryInv, EntryInv', Offered, [Next]_vars PROVE Offered'
  OBVIOUS
<1>1. Typed /\ Typed' /\ Scanned
  BY DEF EntryInv
<1>2. /\ \A i \in 1 .. Len(taps) : taps[i] \in Signals
      /\ \A s \in Signals : row[s] \in Rows
      /\ ~Idle => task.sig \in Signals
  BY <1>1 DEF Typed, Scanned
\* The row and the taps are left alone, and so is what the handler submits.
<1>3. ASSUME UNCHANGED <<row, taps>>,
             task'.step = "submit" => task.step = "submit" /\ task'.sig = task.sig
      PROVE  Offered'
  BY <1>3 DEF Offered
<1>4. ASSUME NEW s \in Signals, ScanSignals(s) \/ ScanExecutes(s) \/ Resolve(s)
      PROVE  Offered'
  <2>1. /\ Idle /\ UNCHANGED taps
        /\ \A q \in Signals : q # s => row'[q] = row[q]
    BY <1>1, <1>4 DEF ScanSignals, ScanExecutes, Resolve, Scanning, telegram, Typed
  <2>2. CASE ScanSignals(s) \/ ScanExecutes(s)
    <3>1. ~row[s].button /\ row'[s].status = "open"
      BY <1>1, <2>2 DEF ScanSignals, ScanExecutes, Offered, Typed
    <3>2. \A i \in 1 .. Len(taps) : taps[i] # s
      BY <3>1 DEF Offered
    <3>3. task'.step = "submit" =>
            /\ task'.sig = s
            /\ row'[s] = [status |-> "open", ticket |-> FALSE, button |-> TRUE]
      BY <1>1, <2>1, <2>2 DEF ScanSignals, ScanExecutes, Submit, Idle, Typed
    <3> QED BY <1>2, <2>1, <3>1, <3>2, <3>3 DEF Offered
  <2>3. CASE Resolve(s)
    <3>1. PICK c \in {"tp1", "closed"} : row' = [row EXCEPT ![s].status = c]
      BY <2>3 DEF Resolve
    <3>2. row'[s].button = row[s].button /\ row'[s].status # "none"
      BY <1>1, <1>2, <3>1 DEF Typed, Rows
    <3>3. task' = task
      BY <2>3 DEF Resolve
    <3> QED BY <1>2, <2>1, <3>2, <3>3 DEF Offered, Idle
  <2> QED BY <1>4, <2>2, <2>3
<1>5. ASSUME NEW s \in Signals, Tap(s) PROVE Offered'
  <2>1. /\ taps' = Append(taps, s) /\ row[s].button /\ UNCHANGED <<row, task>>
    BY <1>5 DEF Tap
  <2>2. \A i \in 1 .. Len(taps') : \/ taps'[i] = s
                                   \/ i \in 1 .. Len(taps) /\ taps'[i] = taps[i]
    <3>1. taps \in Seq(Signals)
      BY <1>1 DEF Typed
    <3> QED BY <2>1, <3>1
  <2> QED BY <2>1, <2>2 DEF Offered
<1>6. CASE AcceptTap
  <2>1. PICK u \in 1 .. Len(taps) : /\ ~row[taps[u]].ticket /\ row[taps[u]].status = "open"
                                    /\ Submit(taps[u], u)
                                    /\ UNCHANGED <<row, taps>>
    BY <1>6 DEF AcceptTap, Take
  <2>2. task'.sig = taps[u]
    BY <2>1 DEF Submit
  <2> QED BY <2>1, <2>2 DEF Offered
<1>7. CASE Fill \/ FillUnheard \/ Requote \/ Reject
  <2>1. UNCHANGED <<row, taps>>
    BY <1>7 DEF Fill, FillUnheard, Requote, Reject, Submitting, telegram
  <2>2. \/ task' = NoTask
        \/ task' = [task EXCEPT !.step = "record"]
        \/ task.step = "submit" /\ task' = [task EXCEPT !.attempt = @ + 1]
    BY <1>7 DEF Fill, FillUnheard, Requote, Reject, Submitting, Retry, Finish
  <2>3. task'.step = "submit" => task.step = "submit" /\ task'.sig = task.sig
    BY <1>1, <2>2 DEF Typed, NoTask
  <2> QED BY <1>3, <2>1, <2>3
<1>8. CASE Record
  <2>1. /\ task.step = "record" /\ row' = [row EXCEPT ![task.sig].ticket = TRUE]
        /\ task' = NoTask /\ UNCHANGED taps
    BY <1>8 DEF Record, Finish, telegram
  <2>2. \A s \in Signals : row'[s].status = row[s].status /\ row'[s].button = row[s].button
    BY <1>1, <1>2, <2>1 DEF Typed, Rows
  <2> QED BY <1>2, <2>1, <2>2 DEF Offered, NoTask
<1>9. CASE Poll \/ PollFails \/ RefuseTap \/ RecordFails \/ Crash \/ UNCHANGED vars
  BY <1>3, <1>9 DEF Poll, PollFails, RefuseTap, RecordFails, Finish, telegram, Crash, Take,
                    Ask, NoTask, vars
<1> QED BY <1>4, <1>5, <1>6, <1>7, <1>8, <1>9 DEF Next

(* An order is only ever sent for a published row that is still open and   *)
(* has no ticket, in particular for a tap that comes late or twice.        *)
THEOREM OrdersOnlyForOpenRowsHolds == Spec => OrdersOnlyForOpenRows
<1> DEFINE Orders == \A s \in Signals : placed'[s] > placed[s] =>
                       row[s].status = "open" /\ ~row[s].ticket /\ row[s].button
<1>1. Init => Offered
  BY DEF Init, Offered, NoTask
<1>2. EntryInv /\ Offered /\ [Next]_vars => [Orders]_vars
  <2> SUFFICES ASSUME EntryInv, Offered, Next, NEW s \in Signals, placed'[s] > placed[s]
               PROVE  row[s].status = "open" /\ ~row[s].ticket /\ row[s].button
    OBVIOUS
  <2>1. placed[s] \in Nat /\ placed \in [Signals -> Nat]
    BY DEF EntryInv, Typed
  <2>2. CASE Fill \/ FillUnheard
    <3>1. task.step = "submit" /\ placed' = [placed EXCEPT ![task.sig] = @ + 1]
      BY <2>2 DEF Fill, FillUnheard, FillOne, Submitting
    <3>2. s = task.sig
      BY <2>1, <3>1
    <3> QED BY <3>1, <3>2 DEF Offered
  <2>3. CASE UNCHANGED placed
    BY <2>1, <2>3
  <2> QED BY <2>2, <2>3 DEF Next, ScanSignals, ScanExecutes, Resolve, Tap, Poll, PollFails,
       RefuseTap, AcceptTap, Take, Ask, Requote, Reject, Record, RecordFails, Crash
<1> QED BY <1>1, <1>2, EntryInvHolds, NextOffered, PTL DEF Spec, OrdersOnlyForOpenRows

-----------------------------------------------------------------------------
(* Every update up to the offset has been handled, or is being handled;    *)
(* the batch goes on where the offset, or after a restart the              *)
(* acknowledgement, left off.                                              *)
Delivered ==
    /\ acked \in 0 .. Len(taps) /\ offset \in 0 .. Len(taps)
    /\ batch \in Seq(Nat)
    /\ \A i \in 1 .. Len(batch) : batch[i] = Larger(acked, offset) + i
    /\ \A u \in 1 .. acked : u \in answered
    /\ \A u \in 1 .. offset : u \in answered \/ (~Idle /\ task.update = u)

\* poll_commands takes up the next update when no handler runs.
LEMMA TakeDelivers ==
    ASSUME Typed, Delivered, NEW u \in 1 .. Len(taps), Take(u),
           \/ answered' = answered \cup {u} /\ UNCHANGED task
           \/ UNCHANGED answered /\ \E s : Submit(s, u)
    PROVE  Delivered'
<1>1. /\ Idle /\ batch # <<>> /\ u = Head(batch)
      /\ offset' = u /\ batch' = Tail(batch) /\ UNCHANGED <<taps, acked>>
  BY DEF Take
<1>2. acked \in Nat /\ offset \in Nat /\ Len(taps) \in Nat
  BY DEF Delivered, Typed
<1>3. Len(batch) >= 1 /\ u = batch[1]
  BY <1>1 DEF Delivered
<1>4. u = Larger(acked, offset) + 1
  BY <1>3 DEF Delivered
<1>5. Larger(acked', offset') = u
  BY <1>1, <1>2, <1>4 DEF Larger
<1>6. /\ batch' \in Seq(Nat)
      /\ \A i \in 1 .. Len(batch') : batch'[i] = u + i
  <2>1. /\ batch' \in Seq(Nat) /\ Len(batch') = Len(batch) - 1
        /\ \A i \in 1 .. Len(batch') : batch'[i] = batch[i + 1]
    BY <1>1 DEF Delivered
  <2>2. \A i \in 1 .. Len(batch') : batch[i + 1] = Larger(acked, offset) + (i + 1)
    BY <1>3, <2>1 DEF Delivered
  <2>3. Larger(acked, offset) \in Nat
    BY <1>2 DEF Larger
  <2> QED BY <1>4, <2>1, <2>2, <2>3
<1>7. answered \subseteq answered' /\ (u \in answered' \/ (~Idle' /\ task'.update = u))
  <2>1. CASE answered' = answered \cup {u} /\ UNCHANGED task
    BY <2>1
  <2>2. ASSUME UNCHANGED answered, NEW s, Submit(s, u)
        PROVE  ~Idle' /\ task'.update = u
    BY <2>2 DEF Submit, Idle
  <2> QED BY <2>1, <2>2
<1>8. \A v \in 1 .. u : v = u \/ v \in answered
  BY <1>1, <1>2, <1>4 DEF Larger, Delivered
<1> QED BY <1>1, <1>2, <1>5, <1>6, <1>7, <1>8 DEF Delivered

\* A handler that ends, or a scanner's that begins, forgets no update.
LEMMA HandlerDelivers ==
    ASSUME Typed, Delivered, UNCHANGED telegram,
           \/ UNCHANGED answered /\ Idle
           \/ UNCHANGED answered /\ ~Idle' /\ task'.update = task.update
           \/ Finish
    PROVE  Delivered'
<1>1. UNCHANGED <<taps, acked, offset, batch>>
  BY DEF telegram
<1>2. /\ answered \subseteq answered'
      /\ \A u \in 1 .. offset : u \in answered' \/ (~Idle' /\ task'.update = u)
  <2>1. CASE Finish
    BY <2>1 DEF Finish, Delivered
  <2>2. CASE ~Finish
    BY <2>2 DEF Delivered
  <2> QED BY <2>1, <2>2
<1> QED BY <1>1, <1>2 DEF Delivered

LEMMA NextDelivered == EntryInv /\ Delivered /\ [Next]_vars => Delivered'
<1> SUFFICES ASSUME EntryInv, Delivered, [Next]_vars PROVE Delivered'
  OBVIOUS
<1>1. Typed
  BY DEF EntryInv
<1>2. acked \in Nat /\ offset \in Nat /\ Len(taps) \in Nat
  BY <1>1 DEF Delivered, Typed
<1>3. ASSUME NEW s \in Signals, ScanSignals(s) \/ ScanExecutes(s) \/ Resolve(s)
      PROVE  Delivered'
  BY <1>1, <1>3, HandlerDelivers DEF ScanSignals, ScanExecutes, Resolve, Scanning
<1>4. ASSUME NEW s \in Signals, Tap(s) PROVE Delivered'
  <2>1. taps' = Append(taps, s) /\ UNCHANGED <<acked, offset, batch, task, answered>>
    BY <1>4 DEF Tap
  <2>2. Len(taps') = Len(taps) + 1
    BY <1>1, <2>1 DEF Typed
  <2> QED BY <1>2, <2>1, <2>2 DEF Delivered, Idle
<1>5. CASE Poll \/ PollFails
  <2>1. /\ Idle /\ batch = <<>> /\ UNCHANGED <<taps, offset, task, answered>>
        /\ acked' = Larger(acked, offset)
        /\ batch' = After(acked') \/ batch' = <<>>
    BY <1>5 DEF Poll, PollFails, Ask, Scanning
  <2>2. /\ acked' \in 0 .. Len(taps) /\ Larger(acked', offset') = acked'
        /\ \A u \in 1 .. acked' : u \in answered
    BY <1>2, <2>1 DEF Larger, Delivered
  <2>3. /\ batch' \in Seq(Nat)
        /\ \A i \in 1 .. Len(batch') : batch'[i] = acked' + i
    <3>1. CASE batch' = <<>>
      BY <3>1
    <3>2. CASE batch' = After(acked')
      <4> DEFINE n == Len(taps) - acked'
      <4>1. n \in Nat
        BY <1>2, <2>2
      <4>2. batch' = [i \in 1 .. n |-> acked' + i]
        BY <2>1, <3>2 DEF After
      <4> HIDE DEF n
      <4>3. acked' \in Nat
        BY <1>2, <2>2
      <4>4. [i \in 1 .. n |-> acked' + i] \in Seq(Nat)
        <5>1. [i \in 1 .. n |-> acked' + i] \in [1 .. n -> Nat]
          BY <4>3
        <5> QED BY <4>1, <5>1, SeqDef, Zenon
      <4>5. Len([i \in 1 .. n |-> acked' + i]) = n
        BY <4>1
      <4> QED BY <4>2, <4>4, <4>5
    <3> QED BY <2>1, <3>1, <3>2
  <2> QED BY <2>1, <2>2, <2>3 DEF Delivered, Idle
<1>6. CASE RefuseTap
  BY <1>1, <1>6, TakeDelivers DEF RefuseTap
<1>7. CASE AcceptTap
  <2>1. PICK u \in 1 .. Len(taps) : Take(u) /\ UNCHANGED answered /\ \E s : Submit(s, u)
    BY <1>7 DEF AcceptTap
  <2> QED BY <1>1, <2>1, TakeDelivers
<1>8. CASE Fill \/ FillUnheard \/ Requote \/ Reject
  <2>1. /\ UNCHANGED telegram /\ task.step = "submit"
        /\ \/ Finish
           \/ UNCHANGED answered /\ task' = [task EXCEPT !.step = "record"]
           \/ UNCHANGED answered /\ task' = [task EXCEPT !.attempt = @ + 1]
    BY <1>8 DEF Fill, FillUnheard, Requote, Reject, Submitting, Retry
  <2>2. Finish \/ (UNCHANGED answered /\ ~Idle' /\ task'.update = task.update)
    BY <1>1, <2>1 DEF Typed, Idle
  <2> QED BY <1>1, <2>1, <2>2, HandlerDelivers
<1>9. CASE Record \/ RecordFails
  BY <1>1, <1>9, HandlerDelivers DEF Record, RecordFails
<1>10. CASE Crash
  BY <1>2, <1>10 DEF Crash, Delivered, Larger
<1>11. CASE UNCHANGED vars
  BY <1>11 DEF vars, Delivered, Idle
<1> QED BY <1>3, <1>4, <1>5, <1>6, <1>7, <1>8, <1>9, <1>10, <1>11 DEF Next

(* A tap that Telegram has been told to forget was answered: the offset    *)
(* runs ahead of the handler, the acknowledgement never does.              *)
THEOREM NoTapForgottenHolds == Spec => []NoTapForgotten
<1>1. Init => Delivered
  BY DEF Init, Delivered, Larger
<1>2. EntryInv /\ Delivered => NoTapForgotten
  BY DEF EntryInv, Typed, Delivered, NoTapForgotten
<1> QED BY <1>1, <1>2, EntryInvHolds, NextDelivered, PTL DEF Spec
=============================================================================
