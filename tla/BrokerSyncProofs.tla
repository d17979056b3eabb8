--------------------------- MODULE BrokerSyncProofs ---------------------------
(***************************************************************************)
(* Proofs about BrokerSync, for every set of lots and every trail: what    *)
(* the broker holds follows the stage of the journal row, whatever bar,    *)
(* failed call, restart or fall-back comes between.                        *)
(***************************************************************************)
EXTENDS BrokerSync, SequenceTheorems, TLAPS

(* The calls q a handler still has to make, by what the row r has become.  *)
Pending(r, q) ==
    \/ q = <<>>
    \/ r = "tp1" /\ \E l \in Nat : q = <<PartialClose(4000), ModifyStop(l)>>
    \/ r = "tp2" /\ q = <<PartialClose(6667)>>
    \/ r \in {"tp1", "tp2"} /\ \E l \in Nat : q = <<ModifyStop(l)>>
    \/ r = "closed" /\ q = <<Close>>
    \/ r = "closed" /\ \E l \in Nat : q = <<ModifyStop(l), Close>>

(* The part of the types the proofs use.                                   *)
Typed == /\ row \in Rows /\ adapter \in {"mt5", "paper"}
         /\ price \in Int /\ bar.hi \in Int /\ bar.lo \in Int
         /\ lot \in Lots
         /\ pos = [vol |-> pos.vol, stop |-> pos.stop]
         /\ pos.vol \in Nat /\ pos.stop \in Int

\* Whether the next call is the partial close of this fraction.
Awaits(fraction) == ~Idle /\ Head(calls) = PartialClose(fraction)

\* What is left of v after a partial close.
Left(v, fraction) == v - RoundLots(v, fraction)

(* The volumes a live row can have: the partial closes made are those of   *)
(* the stages reached, each at most once; a missed one leaves more.        *)
Volumes ==
    pos.vol > 0 =>
      /\ row = "open" => pos.vol = lot
      /\ row = "tp1" => \/ pos.vol = lot
                        \/ pos.vol = Left(lot, 4000) /\ ~Awaits(4000)
      /\ row = "tp2" => \/ pos.vol = lot
                        \/ pos.vol = Left(lot, 4000)
                        \/ pos.vol = Left(lot, 6667) /\ ~Awaits(6667)
                        \/ pos.vol = Left(Left(lot, 4000), 6667) /\ ~Awaits(6667)

(* With no call missed the volume is the stage's own.                      *)
Exact ==
    (missed = {} /\ pos.vol > 0) =>
      /\ row = "tp1" /\ ~Awaits(4000) => pos.vol = Left(lot, 4000)
      /\ row = "tp2" /\ Awaits(6667) => pos.vol = Left(lot, 4000)
      /\ row = "tp2" /\ ~Awaits(6667) => pos.vol = Left(Left(lot, 4000), 6667)

(* A lot that can be split is never taken whole by a partial close.        *)
NotByTheBot == (lot >= 3 /\ row # "closed") => ended.by # "bot"

(* A closed row has no position, or its close is on the way.               *)
Closing == (row = "closed" /\ missed = {}) => pos.vol = 0 \/ ~Idle

SyncInv == Typed /\ Pending(row, calls) /\ Volumes /\ Exact /\ NotByTheBot /\ Closing

-----------------------------------------------------------------------------
(* Rounding *)

\* A partial close takes no more than there is, and of three steps or more it
\* takes some and leaves some.
LEMMA RoundFacts ==
    ASSUME NEW v \in Nat, NEW f \in {4000, 6667}
    PROVE  /\ RoundLots(v, f) \in 0 .. v
           /\ v >= 3 => RoundLots(v, f) \in 1 .. v - 1
           /\ v >= 2 => Left(v, f) >= 1
           /\ v >= 3 => Left(v, 4000) >= 2
<1>1. CASE f = 4000
  BY <1>1 DEF RoundLots, Left
<1>2. CASE f = 6667
  BY <1>2 DEF RoundLots, Left
<1> QED BY <1>1, <1>2

\* The shares the stages leave, to within one step, up to 100 lots: for more the
\* fractions 0.4 and 0.6667 drift away from 20%.
LEMMA ShareFacts ==
    ASSUME NEW v \in 1 .. 10000
    PROVE  /\ 100 * Left(v, 4000) - 60 * v \in -100 .. 100
           /\ 100 * Left(Left(v, 4000), 6667) - 20 * v \in -100 .. 100
           /\ 20 * v - 100 * Left(v, 6667) <= 100
  BY DEF RoundLots, Left

\* What the broker is left with when the first call is a close.
LEMMA ClosedFacts ==
    ASSUME NEW v \in Nat, NEW q \in 0 .. v, adapter \in {"mt5", "paper"}
    PROVE  /\ ClosedVolume(v, q) \in 0 .. v
           /\ q > 0 => ClosedVolume(v, q) = q
           /\ q = 0 => ClosedVolume(v, q) \in {0, v}
           /\ q = v => ClosedVolume(v, q) = v
  BY DEF ClosedVolume

\* One call after another.
LEMMA PairFacts == ASSUME NEW a, NEW b PROVE <<a>> \o <<b>> = <<a, b>>
<1> DEFINE S == {a, b}
           s == <<a>> \o <<b>>
<1>1. s \in Seq(S) /\ Len(s) = 2 /\ s[1] = a /\ s[2] = b
  OBVIOUS
<1>2. <<a, b>> \in Seq(S) /\ Len(<<a, b>>) = 2
  OBVIOUS
<1> HIDE DEF s, S
<1>3. s = <<a, b>>
  BY <1>1, <1>2, SeqEqual
<1> QED BY <1>3 DEF s

LEMMA TwoCalls ==
    ASSUME NEW a, NEW b, NEW q, q = <<a, b>>
    PROVE  Head(q) = a /\ Tail(q) = <<b>> /\ Head(Tail(q)) = b
  OBVIOUS

LEMMA Different ==
    \A f, l : PartialClose(f) # Close /\ PartialClose(f) # ModifyStop(l)
  BY DEF PartialClose, ModifyStop, Close

\* The first call, and the rest once it is out of the way.
LEMMA TailPending ==
    ASSUME NEW r, NEW q, Pending(r, q), q # <<>>
    PROVE  /\ Pending(r, Tail(q))
           /\ \A f : Head(Tail(q)) = PartialClose(f) => Tail(q) = <<>>
           /\ \/ Head(q) = PartialClose(4000) /\ r = "tp1"
              \/ Head(q) = PartialClose(6667) /\ r = "tp2"
              \/ Head(q) = Close /\ r = "closed" /\ Tail(q) = <<>>
              \/ \E l \in Nat : /\ Head(q) = ModifyStop(l)
                                /\ r = "closed" => Tail(q) # <<>>
<1> USE DEF Pending
<1>1. CASE r = "tp1" /\ \E l \in Nat : q = <<PartialClose(4000), ModifyStop(l)>>
  <2>1. PICK l \in Nat : q = <<PartialClose(4000), ModifyStop(l)>>
    BY <1>1
  <2>2. /\ Head(q) = PartialClose(4000) /\ Tail(q) = <<ModifyStop(l)>>
        /\ Head(Tail(q)) = ModifyStop(l)
    BY <2>1, TwoCalls
  <2> QED BY <1>1, <2>2, Different
<1>2. CASE r = "tp2" /\ q = <<PartialClose(6667)>>
  BY <1>2
<1>3. CASE r \in {"tp1", "tp2"} /\ \E l \in Nat : q = <<ModifyStop(l)>>
  BY <1>3
<1>4. CASE r = "closed" /\ q = <<Close>>
  BY <1>4
<1>5. CASE r = "closed" /\ \E l \in Nat : q = <<ModifyStop(l), Close>>
  <2>1. PICK l \in Nat : q = <<ModifyStop(l), Close>>
    BY <1>5
  <2>2. Head(q) = ModifyStop(l) /\ Tail(q) = <<Close>> /\ Head(Tail(q)) = Close
    BY <2>1, TwoCalls
  <2>3. Tail(q) # <<>>
    BY <2>1
  <2> QED BY <1>5, <2>2, <2>3, Different
<1> QED BY <1>1, <1>2, <1>3, <1>4, <1>5

-----------------------------------------------------------------------------
(* The invariant *)

LEMMA InitSync == Init => SyncInv
<1> SUFFICES ASSUME Init PROVE SyncInv
  OBVIOUS
<1>1. lot \in Nat /\ lot > 0 /\ adapter \in {"mt5", "paper"}
  BY LotsAssumption, AdapterAssumption DEF Init
<1>2. Typed
  BY <1>1 DEF Init, Typed, Rows
<1> QED BY <1>1, <1>2 DEF Init, SyncInv, Pending, Volumes, Exact, NotByTheBot, Closing

\* The market moves: the terminal may end the position, the rest is unchanged.
LEMMA MoveKeeps ==
    ASSUME SyncInv, NEW p \in Levels, MoveTo(p), bar'.hi \in Int, bar'.lo \in Int
    PROVE  SyncInv'
<1>1. UNCHANGED <<row, adapter, lot, linked, calls, missed>> /\ price' \in Int
  BY DEF MoveTo, order, Levels
<1>2. /\ pos' = [vol |-> pos'.vol, stop |-> pos'.stop]
      /\ pos'.stop = pos.stop
      /\ pos'.vol \in {0, pos.vol}
  BY DEF MoveTo, SyncInv, Typed
<1>3. ended'.by \in {"stop", "tp", ended.by}
  BY DEF MoveTo, AfterTick
<1>4. pos'.vol \in Nat /\ (pos'.vol > 0 => pos'.vol = pos.vol)
  BY <1>2 DEF SyncInv, Typed
<1>5. Typed'
  BY <1>1, <1>2, <1>4 DEF SyncInv, Typed
<1>6. Pending(row', calls')
  BY <1>1 DEF SyncInv, Pending
<1>7. Volumes' /\ Exact'
  BY <1>1, <1>4 DEF SyncInv, Volumes, Exact, Awaits, Idle, Left, RoundLots
<1>8. NotByTheBot' /\ Closing'
  BY <1>1, <1>2, <1>3 DEF SyncInv, NotByTheBot, Closing, Idle
<1> QED BY <1>5, <1>6, <1>7, <1>8 DEF SyncInv

\* A poll of the row moves it and queues the calls of the new stage.
LEMMA PollKeeps ==
    ASSUME SyncInv,
           PollStop \/ PollTp3 \/ PollTrail \/ PollTp2 \/ PollTp1 \/ PollCut
    PROVE  SyncInv'
<1>1. /\ Idle /\ UNCHANGED <<price, bar, adapter, lot, pos, linked, ended, missed>>
      /\ row # "closed"
  BY DEF PollStop, PollTp3, PollTrail, PollTp2, PollTp1, PollCut, Poll, order
<1>2. TrailStop \in Nat
  BY OrderAssumption DEF SyncInv, Typed, TrailStop
<1>3. \/ row' = "closed" /\ (\/ calls' = <<Close>>
                             \/ \E l \in Nat : calls' = <<ModifyStop(l), Close>>)
      \/ row = "tp2" /\ row' = "tp2" /\ \E l \in Nat : calls' = <<ModifyStop(l)>>
      \/ row = "tp1" /\ row' = "tp2" /\ calls' = <<PartialClose(6667)>>
      \/ row = "open" /\ row' = "tp1" /\ calls' = <<PartialClose(4000), ModifyStop(0)>>
  <2>1. CASE PollStop \/ PollTp3
    <3>1. row' = "closed" /\ calls' = TrailCalls \o <<Close>>
      BY <2>1 DEF PollStop, PollTp3
    <3>2. CASE Trailing
      <4>1. TrailCalls = <<ModifyStop(TrailStop)>>
        BY <3>2 DEF TrailCalls
      <4>3. calls' = <<ModifyStop(TrailStop), Close>>
        BY <3>1, <4>1, PairFacts
      <4>4. \E l \in Nat : calls' = <<ModifyStop(l), Close>>
        BY <1>2, <4>3
      <4> QED BY <3>1, <4>4
    <3>3. CASE ~Trailing
      <4>1. calls' = <<Close>>
        BY <3>1, <3>3 DEF TrailCalls
      <4> QED BY <3>1, <4>1
    <3> QED BY <3>2, <3>3
  <2>2. CASE PollTrail
    <3>1. row = "tp2" /\ row' = "tp2" /\ calls' = <<ModifyStop(TrailStop)>>
      BY <2>2 DEF PollTrail, TrailCalls
    <3> QED BY <1>2, <3>1
  <2>3. CASE PollTp2 \/ PollTp1 \/ PollCut
    BY <2>3 DEF PollTp2, PollTp1, PollCut
  <2> QED BY <2>1, <2>2, <2>3
<1>4. Typed'
  BY <1>1, <1>3 DEF SyncInv, Typed, Rows
<1>5. Pending(row', calls')
  BY <1>3 DEF Pending
<1>6. calls' # <<>>
  BY <1>3
<1>7. /\ row' = "tp1" => Head(calls') = PartialClose(4000)
      /\ row = "tp1" /\ row' = "tp2" => Head(calls') = PartialClose(6667)
      /\ row = "tp2" /\ row' = "tp2" => Head(calls').op = "stop"
  BY <1>3 DEF ModifyStop
<1>8. Volumes' /\ Exact'
  BY <1>1, <1>3, <1>6, <1>7 DEF SyncInv, Volumes, Exact, Awaits, Idle, Left, RoundLots,
     PartialClose
<1>9. NotByTheBot' /\ Closing'
  BY <1>1, <1>6 DEF SyncInv, NotByTheBot, Closing, Idle
<1> QED BY <1>4, <1>5, <1>8, <1>9 DEF SyncInv

\* The handler goes on to its next call.
LEMMA StepFacts ==
    ASSUME SyncInv, ~Idle, calls' = Tail(calls), row' = row
    PROVE  /\ Pending(row', calls')
           /\ \A f : ~Awaits(f)'
           /\ \/ \E f \in {4000, 6667} :
                    /\ Awaits(f) /\ Head(calls) = PartialClose(f)
                    /\ row = IF f = 4000 THEN "tp1" ELSE "tp2"
              \/ Head(calls) = Close /\ row = "closed"
              \/ /\ \E l \in Nat : Head(calls) = ModifyStop(l)
                 /\ \A f : ~Awaits(f)
                 /\ row = "closed" => ~Idle'
<1>1. Pending(row, calls) /\ calls # <<>>
  BY DEF SyncInv, Idle
<1>2. Pending(row', calls')
  BY <1>1, TailPending
<1>3. \A f : ~Awaits(f)'
  BY <1>1, TailPending DEF Awaits, Idle
<1>4. CASE Head(calls) = PartialClose(4000) /\ row = "tp1"
  BY <1>1, <1>2, <1>3, <1>4 DEF Awaits, Idle
<1>5. CASE Head(calls) = PartialClose(6667) /\ row = "tp2"
  BY <1>1, <1>2, <1>3, <1>5 DEF Awaits, Idle
<1>6. CASE Head(calls) = Close /\ row = "closed"
  BY <1>2, <1>3, <1>6
<1>7. CASE \E l \in Nat : /\ Head(calls) = ModifyStop(l)
                          /\ row = "closed" => Tail(calls) # <<>>
  <2>1. PICK l \in Nat : /\ Head(calls) = ModifyStop(l)
                         /\ row = "closed" => Tail(calls) # <<>>
    BY <1>7
  <2>2. \A f : ~Awaits(f)
    BY <2>1, Different DEF Awaits
  <2>3. row = "closed" => ~Idle'
    BY <2>1 DEF Idle
  <2> QED BY <1>2, <1>3, <1>7, <2>2, <2>3
<1>8. \/ Head(calls) = PartialClose(4000) /\ row = "tp1"
      \/ Head(calls) = PartialClose(6667) /\ row = "tp2"
      \/ Head(calls) = Close /\ row = "closed"
      \/ \E l \in Nat : /\ Head(calls) = ModifyStop(l)
                        /\ row = "closed" => Tail(calls) # <<>>
  BY <1>1, TailPending
<1> QED BY <1>4, <1>5, <1>6, <1>7, <1>8

\* A stop is never sent below entry, a partial close is one of two.
LEMMA CallArguments ==
    ASSUME SyncInv, ~Idle
    PROVE  /\ Head(calls).op = "stop" => Head(calls).arg \in Nat
           /\ Head(calls).op = "partial" => Head(calls).arg \in {4000, 6667}
<1>1. Pending(row, calls) /\ calls # <<>>
  BY DEF SyncInv, Idle
<1>2. \/ Head(calls) = PartialClose(4000) /\ row = "tp1"
      \/ Head(calls) = PartialClose(6667) /\ row = "tp2"
      \/ Head(calls) = Close /\ row = "closed"
      \/ \E l \in Nat : /\ Head(calls) = ModifyStop(l)
                        /\ row = "closed" => Tail(calls) # <<>>
  BY <1>1, TailPending
<1>3. ASSUME NEW l \in Nat, Head(calls) = ModifyStop(l)
      PROVE  Head(calls).arg \in Nat /\ Head(calls).op = "stop"
  BY <1>3 DEF ModifyStop
<1>4. CASE Head(calls) \in {PartialClose(4000), PartialClose(6667), Close}
  BY <1>4 DEF PartialClose, Close
<1> QED BY <1>2, <1>3, <1>4

\* The broker carries out the first call.
LEMMA CallKeeps == ASSUME SyncInv, CallBroker PROVE SyncInv'
<1>1. /\ ~Idle /\ calls' = Tail(calls) /\ Carried(Head(calls))
      /\ UNCHANGED <<row, price, bar, adapter, lot, linked>>
  BY DEF CallBroker, order
<1>2. pos = [vol |-> pos.vol, stop |-> pos.stop] /\ pos.vol \in Nat /\ pos.stop \in Int
      /\ lot \in Nat /\ adapter \in {"mt5", "paper"}
  BY LotsAssumption DEF SyncInv, Typed
<1>3. Pending(row', calls') /\ \A f : ~Awaits(f)'
  BY <1>1, StepFacts
<1>4. ASSUME NEW l \in Nat, Head(calls) = ModifyStop(l),
             \A f : ~Awaits(f), row = "closed" => ~Idle'
      PROVE  SyncInv'
  <2>1. SetStop(l)
    BY <1>1, <1>4 DEF Carried, ModifyStop
  <2>2. /\ pos' = [vol |-> pos'.vol, stop |-> pos'.stop]
        /\ pos'.vol = pos.vol /\ pos'.stop \in Int /\ ended' = ended
        /\ missed' = {} => missed = {}
    BY <1>2, <2>1 DEF SetStop
  <2>3. Typed' /\ NotByTheBot' /\ Closing'
    BY <1>1, <1>2, <1>4, <2>2 DEF SyncInv, Typed, NotByTheBot, Closing
  <2>4. Volumes' /\ Exact'
    BY <1>1, <1>3, <1>4, <2>2 DEF SyncInv, Volumes, Exact, Left, RoundLots
  <2> QED BY <1>3, <2>3, <2>4 DEF SyncInv
<1>5. CASE Head(calls) = Close /\ row = "closed"
  <2>1. CloseSome(pos.vol)
    BY <1>1, <1>5 DEF Carried, Close
  <2>2. /\ pos' = [vol |-> 0, stop |-> pos.stop] /\ missed' = missed
    BY <1>2, <2>1, ClosedFacts DEF CloseSome
  <2> QED BY <1>1, <1>2, <1>3, <1>5, <2>1, <2>2
       DEF SyncInv, Typed, Volumes, Exact, NotByTheBot, Closing
<1>6. ASSUME NEW f \in {4000, 6667}, Awaits(f), Head(calls) = PartialClose(f),
             row = IF f = 4000 THEN "tp1" ELSE "tp2"
      PROVE  SyncInv'
  <2> DEFINE q == RoundLots(pos.vol, f)
             v == pos.vol - ClosedVolume(pos.vol, q)
  <2>1. CloseSome(q)
    BY <1>1, <1>6 DEF Carried, PartialClose
  <2>2. q \in 0 .. pos.vol /\ (pos.vol >= 3 => q \in 1 .. pos.vol - 1)
        /\ (pos.vol = 2 => q = 1)
    BY <1>2, <1>6, RoundFacts DEF RoundLots
  <2>3. /\ pos' = [vol |-> v, stop |-> pos.stop] /\ missed' = missed
        /\ ended' = IF pos.vol > 0 /\ v = 0 THEN [by |-> "bot", at |-> price] ELSE ended
    BY <1>2, <2>1 DEF CloseSome
  <2> HIDE DEF q
  <2>4. /\ v \in Nat
        /\ v # 0 => v = pos.vol - q
        /\ pos.vol >= 2 => v # 0
    BY <1>2, <2>2, ClosedFacts
  <2>6. lot >= 3 /\ pos.vol > 0 => pos.vol >= 2
    BY <1>2, <1>6, RoundFacts DEF SyncInv, Volumes, Left
  <2>7. v # 0 => v = Left(pos.vol, f)
    BY <2>4 DEF Left, q
  <2> HIDE DEF v
  <2>8. Volumes' /\ Exact'
    BY <1>1, <1>2, <1>3, <1>6, <2>3, <2>4, <2>7
    DEF SyncInv, Volumes, Exact, Left, RoundLots
  <2> QED BY <1>1, <1>2, <1>3, <1>6, <2>3, <2>4, <2>6, <2>8
       DEF SyncInv, Typed, NotByTheBot, Closing
<1> QED BY <1>1, <1>4, <1>5, <1>6, StepFacts

\* A call that fails, a row that expires, a restart: what is missed is noted, and
\* no volume is taken that the journal has not counted.
LEMMA FaultKeeps == ASSUME SyncInv, CallFails \/ Expire \/ Restart PROVE SyncInv'
<1> USE DEF SyncInv
<1>1. CASE CallFails
  <2>1. /\ ~Idle /\ calls' = Tail(calls) /\ missed' # {}
        /\ UNCHANGED <<row, price, bar, adapter, lot, pos, ended>>
    BY <1>1 DEF CallFails, order
  <2>2. Pending(row', calls') /\ \A f : ~Awaits(f)'
    BY <2>1, StepFacts
  <2>3. Volumes'
    BY <2>1, <2>2 DEF Volumes, Left, RoundLots
  <2> QED BY <2>1, <2>2, <2>3 DEF Typed, Exact, NotByTheBot, Closing
<1>2. CASE Expire
  <2>1. /\ row' = "closed" /\ missed' # {} /\ Idle
        /\ UNCHANGED <<price, bar, adapter, lot, pos, calls, ended>>
    BY <1>2 DEF Expire, order
  <2> QED BY <2>1 DEF Typed, Rows, Pending, Volumes, Exact, NotByTheBot, Closing, Idle
<1>3. CASE Restart
  <2>1. /\ calls' = <<>> /\ UNCHANGED <<row, price, bar, adapter, lot>>
        /\ pos' = [vol |-> pos'.vol, stop |-> pos.stop]
        /\ pos'.vol \in {0, pos.vol}
        /\ ended'.by \in {"lost", ended.by}
        /\ missed' = {} => missed = {} /\ Idle
    BY <1>3 DEF Restart, order, Typed
  <2>2. \A f : ~Awaits(f)'
    BY <2>1 DEF Awaits, Idle
  <2>3. Typed' /\ Pending(row', calls') /\ NotByTheBot' /\ Closing'
    BY <2>1 DEF Typed, Pending, NotByTheBot, Closing
  <2>4. pos'.vol > 0 => pos'.vol = pos.vol
    BY <2>1 DEF Typed
  <2>5. missed' = {} => \A f : ~Awaits(f)
    BY <2>1 DEF Awaits
  <2> QED BY <2>1, <2>2, <2>3, <2>4, <2>5 DEF Volumes, Exact, Left, RoundLots
<1> QED BY <1>1, <1>2, <1>3

LEMMA NextSync == SyncInv /\ [Next]_vars => SyncInv'
<1> SUFFICES ASSUME SyncInv, [Next]_vars PROVE SyncInv'
  OBVIOUS
<1>1. CASE Tick
  <2>1. PICK p \in Levels :
          /\ MoveTo(p)
          /\ bar' = [hi |-> IF p > bar.hi THEN p ELSE bar.hi,
                     lo |-> IF p < bar.lo THEN p ELSE bar.lo]
    BY <1>1 DEF Tick
  <2>2. bar'.hi \in Int /\ bar'.lo \in Int
    BY <2>1 DEF SyncInv, Typed, Levels
  <2> QED BY <2>1, <2>2, MoveKeeps
<1>2. CASE NewBar
  <2>1. PICK p \in Levels : MoveTo(p) /\ bar' = [hi |-> p, lo |-> p]
    BY <1>2 DEF NewBar
  <2>2. bar'.hi \in Int /\ bar'.lo \in Int
    BY <2>1 DEF Levels
  <2> QED BY <2>1, <2>2, MoveKeeps
<1>3. CASE UNCHANGED vars
  BY <1>3 DEF vars, order, SyncInv, Typed, Volumes, Exact, NotByTheBot, Closing,
     Awaits, Idle, Left, RoundLots
<1> QED BY <1>1, <1>2, <1>3, PollKeeps, CallKeeps, FaultKeeps DEF Next

(* The invariant of journal and position holds in every reachable state.   *)
THEOREM SyncInvHolds == Spec => []SyncInv
  BY InitSync, NextSync, PTL DEF Spec

-----------------------------------------------------------------------------
(* A row that is closed leaves no position behind when no call is missed.  *)
THEOREM ClosedRowIsFlatHolds == Spec => []ClosedRowIsFlat
<1>1. SyncInv => ClosedRowIsFlat
  BY DEF SyncInv, Closing, ClosedRowIsFlat
<1> QED BY <1>1, SyncInvHolds, PTL

(* Up to 100 lots the position holds the stage's share to within a step.   *)
THEOREM VolumeMatchesStageHolds ==
    ASSUME \A l \in Lots : l <= 10000
    PROVE  Spec => []VolumeMatchesStage
<1>1. SyncInv => VolumeMatchesStage
  <2> SUFFICES ASSUME SyncInv, Idle, missed = {}, row # "closed", pos.vol > 0
               PROVE  /\ 100 * pos.vol - Share * lot <= 100
                      /\ Share * lot - 100 * pos.vol <= 100
    BY DEF VolumeMatchesStage
  <2>1. lot \in 1 .. 10000
    <3>1. lot \in Lots
      BY DEF SyncInv, Typed
    <3> QED BY <3>1, LotsAssumption
  <2>2. \A f : ~Awaits(f)
    BY DEF Awaits
  <2>3. /\ row = "open" => pos.vol = lot
        /\ row = "tp1" => pos.vol = Left(lot, 4000)
        /\ row = "tp2" => pos.vol = Left(Left(lot, 4000), 6667)
    BY <2>2 DEF SyncInv, Volumes, Exact
  <2>4. row \in {"open", "tp1", "tp2"}
    BY DEF SyncInv, Typed, Rows
  <2>5. /\ 100 * Left(lot, 4000) - 60 * lot \in -100 .. 100
        /\ 100 * Left(Left(lot, 4000), 6667) - 20 * lot \in -100 .. 100
        /\ Left(lot, 4000) \in Int /\ Left(Left(lot, 4000), 6667) \in Int
    BY <2>1, ShareFacts DEF Left, RoundLots
  <2>6. CASE row = "open"
    BY <2>1, <2>3, <2>6 DEF Share
  <2>7. CASE row = "tp1"
    BY <2>1, <2>3, <2>5, <2>7 DEF Share
  <2>8. CASE row = "tp2"
    BY <2>1, <2>3, <2>5, <2>8 DEF Share
  <2> QED BY <2>4, <2>6, <2>7, <2>8
<1> QED BY <1>1, SyncInvHolds, PTL

(* The bot never takes more than its stages, whatever is missed: for every *)
(* lot that both partial closes can split, up to 100 lots.                 *)
THEOREM NeverOverclosedHolds ==
    ASSUME \A l \in Lots : l >= 3 /\ l <= 10000
    PROVE  Spec => []NeverOverclosed
<1>1. SyncInv => NeverOverclosed
  <2> SUFFICES ASSUME SyncInv, row # "closed"
               PROVE  /\ ended.by # "bot"
                      /\ pos.vol > 0 => Share * lot - 100 * pos.vol <= 100
    BY DEF NeverOverclosed
  <2>1. lot \in 1 .. 10000 /\ lot >= 3
    <3>1. lot \in Lots
      BY DEF SyncInv, Typed
    <3> QED BY <3>1, LotsAssumption
  <2>2. pos.vol > 0 =>
          /\ row = "open" => pos.vol = lot
          /\ row = "tp1" => pos.vol \in {lot, Left(lot, 4000)}
          /\ pos.vol \in {lot, Left(lot, 4000), Left(lot, 6667), Left(Left(lot, 4000), 6667)}
    BY DEF SyncInv, Typed, Rows, Volumes
  <2>3. ended.by # "bot"
    BY <2>1 DEF SyncInv, NotByTheBot
  <2>4. ASSUME NEW v \in {lot, Left(lot, 4000), Left(lot, 6667), Left(Left(lot, 4000), 6667)}
        PROVE  v \in Int /\ 20 * lot - 100 * v <= 100
    BY <2>1, ShareFacts DEF Left, RoundLots
  <2>5. ASSUME NEW v \in {lot, Left(lot, 4000)}
        PROVE  v \in Int /\ 60 * lot - 100 * v <= 100
    BY <2>1, ShareFacts DEF Left, RoundLots
  <2>6. CASE row = "open"
    BY <2>1, <2>2, <2>3, <2>6 DEF Share
  <2>7. CASE row = "tp1"
    BY <2>2, <2>3, <2>5, <2>7 DEF Share
  <2>8. CASE row \notin {"open", "tp1"}
    BY <2>2, <2>3, <2>4, <2>8 DEF Share
  <2> QED BY <2>6, <2>7, <2>8
<1> QED BY <1>1, SyncInvHolds, PTL

(* A stop that has reached entry never goes back below it.                 *)
THEOREM StopKeepsEntryHolds == Spec => StopKeepsEntry
<1>1. SyncInv /\ [Next]_vars => (pos.stop >= 0 => pos'.stop >= 0)
  <2> SUFFICES ASSUME SyncInv, [Next]_vars, pos.stop >= 0 PROVE pos'.stop >= 0
    OBVIOUS
  <2>1. pos = [vol |-> pos.vol, stop |-> pos.stop]
    BY DEF SyncInv, Typed
  <2>2. CASE CallBroker
    <3>1. ~Idle /\ Carried(Head(calls))
      BY <2>2 DEF CallBroker
    <3>2. Head(calls).op = "stop" => Head(calls).arg \in Nat
      BY <3>1, CallArguments
    <3>3. CASE Head(calls).op = "stop" /\ SetStop(Head(calls).arg)
      BY <2>1, <3>2, <3>3 DEF SetStop
    <3>4. ASSUME NEW q, CloseSome(q) PROVE pos'.stop = pos.stop
      BY <2>1, <3>4 DEF CloseSome
    <3> QED BY <3>1, <3>3, <3>4 DEF Carried
  <2>3. CASE Tick \/ NewBar
    BY <2>1, <2>3 DEF Tick, NewBar, MoveTo
  <2>4. CASE Restart
    BY <2>1, <2>4 DEF Restart
  <2>5. CASE UNCHANGED pos
    BY <2>5
  <2>6. PollStop \/ PollTp3 \/ PollTrail \/ PollTp2 \/ PollTp1 \/ PollCut
        \/ Expire \/ CallFails \/ UNCHANGED vars => UNCHANGED pos
    BY DEF PollStop, PollTp3, PollTrail, PollTp2, PollTp1, PollCut, Poll, Expire,
       CallFails, vars
  <2> QED BY <2>2, <2>3, <2>4, <2>5, <2>6 DEF Next
<1> QED BY <1>1, SyncInvHolds, PTL DEF Spec, StopKeepsEntry

-----------------------------------------------------------------------------
(* Who ends a position is recorded: the terminal ends it at the order's    *)
(* own take-profit, a restart that loses it is a missed call.              *)
Ended == /\ ended.by \in {"nobody", "bot", "stop", "tp", "lost"}
         /\ ended.by = "nobody" <=> pos.vol > 0
         /\ ended.by = "tp" => ended.at = BrokerTp
         /\ ended.by = "lost" => "restart" \in missed

\* The market moves: a position that is left is ended by nobody, so the terminal
\* records what it does.
LEMMA MoveEnds ==
    ASSUME SyncInv, Ended, NEW p \in Levels, MoveTo(p)
    PROVE  Ended'
<1>1. missed' = missed /\ ended' = AfterTick(p)
  BY DEF MoveTo
<1>2. pos.vol \in Nat /\ pos = [vol |-> pos.vol, stop |-> pos.stop]
  BY DEF SyncInv, Typed
<1>3. CASE Fills /\ (p <= pos.stop \/ p >= BrokerTp)
  <2>1. /\ ended'.by \in {"stop", "tp"}
        /\ ended'.by = "tp" => ended'.at = BrokerTp
    BY <1>1, <1>3 DEF AfterTick
  <2>2. ended' # ended
    BY <1>3, <2>1 DEF Fills, Ended
  <2>3. pos'.vol = 0
    BY <1>2, <2>2 DEF MoveTo
  <2> QED BY <1>1, <2>1, <2>3 DEF Ended
<1>4. CASE ~(Fills /\ (p <= pos.stop \/ p >= BrokerTp))
  <2>1. ended' = ended
    BY <1>1, <1>4 DEF AfterTick
  <2>2. pos' = pos
    BY <2>1 DEF MoveTo
  <2> QED BY <1>1, <2>1, <2>2 DEF Ended
<1> QED BY <1>3, <1>4

\* A call that takes the rest is the bot's.
LEMMA CloseEnds ==
    ASSUME SyncInv, Ended, NEW q \in 0 .. pos.vol, CloseSome(q)
    PROVE  Ended'
<1>1. /\ pos.vol \in Nat /\ pos = [vol |-> pos.vol, stop |-> pos.stop]
      /\ adapter \in {"mt5", "paper"}
  BY DEF SyncInv, Typed
<1>2. ClosedVolume(pos.vol, q) \in 0 .. pos.vol
  BY <1>1, ClosedFacts
<1>3. pos'.vol = pos.vol - ClosedVolume(pos.vol, q)
  BY <1>1 DEF CloseSome
<1>4. pos'.vol \in 0 .. pos.vol
  BY <1>1, <1>2, <1>3
<1>5. missed' = missed
  BY DEF CloseSome
<1>6. CASE pos.vol > 0 /\ pos'.vol = 0
  <2>1. ended' = [by |-> "bot", at |-> price]
    BY <1>6 DEF CloseSome
  <2>2. ended'.by = "bot"
    BY <2>1
  <2> QED BY <1>6, <2>2 DEF Ended
<1>7. CASE ~(pos.vol > 0 /\ pos'.vol = 0)
  <2>1. ended' = ended
    BY <1>7 DEF CloseSome
  <2>2. pos'.vol > 0 <=> pos.vol > 0
    BY <1>1, <1>4, <1>7
  <2> QED BY <1>5, <2>1, <2>2 DEF Ended
<1> QED BY <1>6, <1>7

LEMMA CallEnds == SyncInv /\ Ended /\ CallBroker => Ended'
<1> SUFFICES ASSUME SyncInv, Ended, CallBroker PROVE Ended'
  OBVIOUS
<1>1. pos.vol \in Nat /\ Carried(Head(calls))
  BY DEF SyncInv, Typed, CallBroker
<1>2. CASE CloseSome(pos.vol)
  BY <1>1, <1>2, CloseEnds
<1>3. ASSUME NEW f \in {4000, 6667}, CloseSome(RoundLots(pos.vol, f)) PROVE Ended'
  BY <1>1, <1>3, RoundFacts, CloseEnds
<1>4. ASSUME NEW l, SetStop(l) PROVE Ended'
  <2>1. ended' = ended /\ missed \subseteq missed'
    BY <1>4 DEF SetStop
  <2>2. pos = [vol |-> pos.vol, stop |-> pos.stop]
    BY DEF SyncInv, Typed
  <2>3. pos'.vol = pos.vol
    BY <1>4, <2>2 DEF SetStop
  <2> QED BY <2>1, <2>3 DEF Ended
<1>5. Head(calls).op = "partial" => Head(calls).arg \in {4000, 6667}
  BY CallArguments DEF CallBroker
<1> QED BY <1>1, <1>2, <1>3, <1>4, <1>5 DEF Carried

LEMMA NextEnds == SyncInv /\ Ended /\ [Next]_vars => Ended'
<1> SUFFICES ASSUME SyncInv, Ended, [Next]_vars PROVE Ended'
  OBVIOUS
<1>1. CASE Tick \/ NewBar
  BY <1>1, MoveEnds DEF Tick, NewBar
<1>2. CASE CallBroker
  BY <1>2, CallEnds
<1>3. CASE Restart
  <2>1. pos.vol \in Nat /\ pos = [vol |-> pos.vol, stop |-> pos.stop]
    BY DEF SyncInv, Typed
  <2>2. CASE pos'.vol = pos.vol
    <3>1. ended' = ended /\ missed \subseteq missed'
      BY <1>3, <2>2 DEF Restart
    <3> QED BY <2>2, <3>1 DEF Ended
  <2>3. CASE pos'.vol # pos.vol
    <3>1. pos'.vol = 0 /\ pos' # pos
      BY <1>3, <2>1, <2>3 DEF Restart
    <3>2. ended'.by = "lost" /\ "restart" \in missed'
      BY <1>3, <2>3, <3>1 DEF Restart
    <3> QED BY <3>1, <3>2 DEF Ended
  <2> QED BY <2>2, <2>3
<1>4. CASE UNCHANGED <<pos, ended>> /\ missed \subseteq missed'
  BY <1>4 DEF Ended
<1>5. PollStop \/ PollTp3 \/ PollTrail \/ PollTp2 \/ PollTp1 \/ PollCut
      \/ Expire \/ CallFails \/ UNCHANGED vars
      => UNCHANGED <<pos, ended>> /\ missed \subseteq missed'
  BY DEF PollStop, PollTp3, PollTrail, PollTp2, PollTp1, PollCut, Poll, Expire,
     CallFails, vars
<1> QED BY <1>1, <1>2, <1>3, <1>4, <1>5 DEF Next

(* For every lot both partial closes can split and an order that carries   *)
(* TP3: while the journal has a runner only a stop or TP3 took the         *)
(* position, unless a call was missed.                                     *)
THEOREM RunnerRidesToTp3Holds ==
    ASSUME BrokerTp = 3, \A l \in Lots : l >= 3
    PROVE  Spec => []RunnerRidesToTp3
<1>1. Init => Ended
  <2> SUFFICES ASSUME Init PROVE Ended
    OBVIOUS
  <2>1. lot \in Nat /\ lot > 0 /\ pos.vol = lot /\ ended.by = "nobody"
    BY LotsAssumption DEF Init
  <2> QED BY <2>1 DEF Ended
<1>2. SyncInv /\ Ended => RunnerRidesToTp3
  BY DEF SyncInv, Typed, NotByTheBot, Ended, RunnerRidesToTp3
<1>3. Spec => []Ended
  BY <1>1, NextEnds, SyncInvHolds, PTL DEF Spec
<1> QED BY <1>2, <1>3, SyncInvHolds, PTL
=============================================================================
