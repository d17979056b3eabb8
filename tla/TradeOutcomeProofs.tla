-------------------------- MODULE TradeOutcomeProofs --------------------------
(***************************************************************************)
(* Proofs about TradeOutcome, for every set of rows, signals, prices and   *)
(* trails: the running result equals what the scale-outs booked, no exit   *)
(* gives a booked profit back, and the module implements TradeStages; and  *)
(* about Replay, for every signal and market: the backtester and the live  *)
(* side give a trade the same end and the same R.                          *)
(***************************************************************************)
EXTENDS Replay, TLAPS

\* The inductive invariant: BookedMatchesStage needs the types of the rows.
IInv == TypeOK /\ BookedMatchesStage

\* Every distance used by the results is an integer, the targets are ordered.
LEMMA PlanFacts ==
    ASSUME TypeOK, NEW t \in Trades
    PROVE  /\ plan[t] \in PlanType
           /\ plan[t] \in Plans
           /\ Risk(t) \in Int /\ Risk(t) > 0
           /\ Gain(t, plan[t].tp1) \in Int /\ Gain(t, plan[t].tp1) > 0
           /\ Gain(t, plan[t].tp2) \in Int
           /\ Gain(t, plan[t].tp3) \in Int
           /\ Gain(t, plan[t].tp2) >= Gain(t, plan[t].tp1)
           /\ Gain(t, plan[t].tp3) >= Gain(t, plan[t].tp2)
           /\ Best(t) \in Int /\ Worst(t) \in Int
           /\ Gain(t, bar.close) \in Int
<1>1. plan[t] \in Plans /\ plan[t] \in PlanType /\ WellFormed(plan[t])
  BY PlansAssumption DEF TypeOK
<1>2. bar \in BarType
  BY DEF TypeOK
<1> QED
  BY <1>1, <1>2 DEF PlanType, BarType, WellFormed, Directions, Risk, Gain,
     SignedGain, Best, Worst

\* The effective stop of a scaled trade is never below entry.
LEMMA StopFacts ==
    ASSUME TypeOK, NEW t \in Trades
    PROVE  /\ EffStop(t) \in Int
           /\ status[t] \in {"tp1", "tp2"} => EffStop(t) >= 0
<1>1. bar.trail \in Nat
  BY DEF TypeOK, BarType
<1> QED
  BY <1>1, PlanFacts DEF EffStop, Larger

\* What the branches of _resolve write is an integer.
LEMMA ResultFacts ==
    ASSUME TypeOK, NEW t \in Trades
    PROVE  /\ BookedAt(t, "tp1") \in Int /\ BookedAt(t, "tp1") > 0
           /\ BookedAt(t, "tp2") \in Int /\ BookedAt(t, "tp2") > BookedAt(t, "tp1")
           /\ FullR(t) \in Int /\ FullR(t) >= BookedAt(t, "tp2")
           /\ Unrealised(t) \in Int
  BY PlanFacts DEF BookedAt, FullR, Unrealised, Larger

LEMMA InitInv == Init => IInv
<1> SUFFICES ASSUME Init PROVE IInv
  OBVIOUS
<1>1. (CHOOSE pl \in Plans : TRUE) \in Plans
  BY PlansAssumption
<1>2. plan \in [Trades -> Plans]
  BY <1>1 DEF Init
<1>3. bar \in BarType
  BY MarketAssumption DEF Init, BarType, Chochs
<1> QED
  BY <1>2, <1>3 DEF Init, IInv, TypeOK, BookedMatchesStage, Statuses

\* One fact for all branches: how a write to row t changes the invariant.
LEMMA WriteRow ==
    ASSUME IInv, NEW t \in Trades, NEW s \in Statuses, NEW r \in Int,
           status' = [status EXCEPT ![t] = s],
           result' = [result EXCEPT ![t] = r],
           UNCHANGED plan,
           s \in {"none", "open"} => r = 0,
           s \in {"tp1", "tp2"} => r = BookedAt(t, s)
    PROVE  /\ status' \in [Trades -> Statuses]
           /\ result' \in [Trades -> Int]
           /\ BookedMatchesStage'
<1>1. status \in [Trades -> Statuses] /\ result \in [Trades -> Int]
  BY DEF IInv, TypeOK
<1>2. \A u \in Trades : \A x : BookedAt(u, x)' = BookedAt(u, x)
  BY DEF BookedAt, Gain
<1> QED
  BY <1>1, <1>2 DEF IInv, BookedMatchesStage

\* A row that closes, on whatever path.
LEMMA CloseInv ==
    ASSUME IInv, NEW t \in Trades, NEW s \in Closed, NEW r \in Int, CloseRow(t, s, r),
           moved' \subseteq Trades, brokerStop' \in [Trades -> Int]
    PROVE  IInv'
<1>1. s \in Statuses /\ s \notin {"none", "open", "tp1", "tp2"}
  BY DEF Closed, Statuses
<1>2. /\ status' \in [Trades -> Statuses] /\ result' \in [Trades -> Int]
      /\ BookedMatchesStage'
  BY <1>1, WriteRow DEF CloseRow, SetRow
<1> QED
  BY <1>2 DEF IInv, TypeOK, CloseRow, market

LEMMA ResolveInv == ASSUME IInv, NEW t \in Trades, Resolve(t) PROVE IInv'
<1>1. TypeOK
  BY DEF IInv
<1>2. EffStop(t) \in Int
  BY <1>1, StopFacts
<1>3. Risk(t) \in Int
  BY <1>1, PlanFacts
<1>4. /\ BookedAt(t, "tp1") \in Int /\ BookedAt(t, "tp2") \in Int
      /\ FullR(t) \in Int /\ Unrealised(t) \in Int
  BY <1>1, ResultFacts
<1>5. "tp1" \in Statuses /\ "tp2" \in Statuses
  BY DEF Statuses, Live
<1>7. CASE StopOutUnscaled(t)
  BY <1>1, <1>3, CloseInv, <1>7 DEF StopOutUnscaled, TypeOK, Closed
<1>8. CASE StopOutScaled(t)
  <2>1. status[t] \in {"tp1", "tp2"}
    BY <1>8 DEF StopOutScaled
  <2>2. BookedAt(t, status[t]) + RunnerWeight(status[t]) * EffStop(t) \in Int
    BY <1>2, <1>4, <2>1 DEF RunnerWeight
  <2>3. brokerStop' \in [Trades -> Int] /\ moved' \subseteq Trades
    BY <1>1, <1>2, <1>8 DEF StopOutScaled, TypeOK
  <2> QED
    BY CloseInv, <1>8, <2>2, <2>3 DEF StopOutScaled, Closed
<1>9. CASE TrailRunner(t)
  BY <1>1, <1>2, <1>9 DEF IInv, TrailRunner, TypeOK, BookedMatchesStage, BookedAt, Gain, market
<1>10. CASE FinishTp3(t)
  <2>1. brokerStop' \in [Trades -> Int] /\ moved' \subseteq Trades
    BY <1>1, <1>2, <1>10 DEF FinishTp3, TypeOK
  <2> QED
    BY <1>4, CloseInv, <1>10, <2>1 DEF FinishTp3, Closed
<1>11. CASE ReachTp2(t)
  <2>1. /\ status' \in [Trades -> Statuses] /\ result' \in [Trades -> Int]
        /\ BookedMatchesStage'
    BY <1>4, <1>5, <1>11, WriteRow DEF ReachTp2, SetRow
  <2> QED
    BY <1>1, <1>11, <2>1 DEF IInv, ReachTp2, TypeOK, market
<1>12. CASE ReachTp1(t)
  <2>1. /\ status' \in [Trades -> Statuses] /\ result' \in [Trades -> Int]
        /\ BookedMatchesStage'
    BY <1>4, <1>5, <1>12, WriteRow DEF ReachTp1, SetRow
  <2>2. brokerStop' \in [Trades -> Int]
    BY <1>1, <1>12 DEF ReachTp1, TypeOK
  <2> QED
    BY <1>1, <1>12, <2>1, <2>2 DEF IInv, ReachTp1, TypeOK, market
<1>13. CASE CutInvalidated(t)
  BY <1>1, <1>4, CloseInv, <1>13 DEF CutInvalidated, TypeOK, Closed
<1>14. CASE CutStale(t)
  BY <1>1, <1>4, CloseInv, <1>14 DEF CutStale, TypeOK, Closed
<1> QED
  BY <1>7, <1>8, <1>9, <1>10, <1>11, <1>12, <1>13, <1>14 DEF Resolve

LEMMA RecordInv == ASSUME IInv, NEW t \in Trades, RecordSignal(t) PROVE IInv'
<1>1. PICK pl \in Plans : /\ plan' = [plan EXCEPT ![t] = pl]
                          /\ brokerStop' = [brokerStop EXCEPT ![t] = SignedGain(pl, pl.stop)]
  BY DEF RecordSignal
<1>2. SignedGain(pl, pl.stop) \in Int
  BY PlansAssumption DEF SignedGain, PlanType
<1>3. TypeOK'
  BY <1>1, <1>2 DEF IInv, TypeOK, RecordSignal, Statuses, Live, market
<1>4. \A u \in Trades : u # t => \A x : BookedAt(u, x)' = BookedAt(u, x)
  BY <1>1 DEF BookedAt, Gain, IInv, TypeOK
<1>5. \A u \in Trades : u # t => status'[u] = status[u]
  BY DEF RecordSignal, IInv, TypeOK
<1>6. status'[t] = "open" /\ result' = result /\ result[t] = 0
  BY DEF RecordSignal, IInv, TypeOK, BookedMatchesStage
<1> QED
  BY <1>3, <1>4, <1>5, <1>6 DEF IInv, BookedMatchesStage

LEMMA MarketInv ==
    ASSUME IInv, bar' \in BarType, aged' \subseteq Trades, offList' \subseteq Trades,
           moved' \subseteq Trades, UNCHANGED <<status, plan, result, brokerStop>>
    PROVE  IInv'
  BY DEF IInv, TypeOK, BookedMatchesStage, BookedAt, Gain

LEMMA StepInv == IInv /\ [Next]_vars => IInv'
<1> SUFFICES ASSUME IInv, [Next]_vars PROVE IInv'
  OBVIOUS
<1>1. TypeOK
  BY DEF IInv
<1>2. CASE UNCHANGED vars
  BY <1>1, <1>2, MarketInv DEF vars, TypeOK
<1>3. CASE Tick
  <2>1. bar' \in BarType
    BY <1>1, <1>3, MarketAssumption DEF Tick, TypeOK, BarType, Larger
  <2> QED
    BY <1>1, <1>3, <2>1, MarketInv DEF Tick, TypeOK
<1>4. CASE NewBar
  <2>1. bar' \in BarType
    BY <1>4, MarketAssumption DEF NewBar, BarType
  <2> QED
    BY <1>1, <1>4, <2>1, MarketInv DEF NewBar, TypeOK
<1>5. ASSUME NEW t \in Trades, RecordSignal(t) PROVE IInv'
  BY <1>5, RecordInv
<1>6. ASSUME NEW t \in Trades, Resolve(t) PROVE IInv'
  BY <1>6, ResolveInv
<1>7. ASSUME NEW t \in Trades, Expire(t) PROVE IInv'
  BY <1>1, <1>7, CloseInv DEF Expire, TypeOK, Closed
<1>8. ASSUME NEW t \in Trades, GrowOld(t) PROVE IInv'
  BY <1>1, <1>8, MarketInv DEF GrowOld, TypeOK
<1>9. ASSUME NEW t \in Trades, DropSymbol(t) PROVE IInv'
  BY <1>1, <1>9, MarketInv DEF DropSymbol, TypeOK
<1> QED
  BY <1>2, <1>3, <1>4, <1>5, <1>6, <1>7, <1>8, <1>9 DEF Next

(* In every reachable state the rows have their types and the running R of *)
(* a live row is what its scale-outs booked (Journal.advance).             *)
THEOREM BookedIsExact == Spec => [](TypeOK /\ BookedMatchesStage)
<1>1. Spec => []IInv
  BY InitInv, StepInv, PTL DEF Spec
<1> QED
  BY <1>1, PTL DEF IInv

(* The rows keep their types on every branch: in particular no path writes *)
(* a status that open_trades and the statistics do not know.               *)
THEOREM TypesAlwaysHold == Spec => []TypeOK
  BY BookedIsExact, PTL

(* No exit path, on whatever bar, gives back what TP1 and TP2 have booked. *)
THEOREM BookedProfitIsKept == Spec => KeepsBookedProfit
<1> DEFINE Keeps == \A t \in Trades :
        status[t] \in {"tp1", "tp2"} /\ status'[t] # "expired"
        => result'[t] >= result[t]
<1>1. ASSUME IInv, [Next]_vars PROVE [Keeps]_vars
  <2> SUFFICES ASSUME ~UNCHANGED vars, NEW t \in Trades,
                      status[t] \in {"tp1", "tp2"}, status'[t] # "expired"
               PROVE  result'[t] >= result[t]
    OBVIOUS
  <2>1. TypeOK /\ BookedMatchesStage
    BY <1>1 DEF IInv
  <2>2. result[t] \in Int /\ result[t] = BookedAt(t, status[t])
    BY <2>1 DEF TypeOK, BookedMatchesStage
  <2>3. CASE result'[t] = result[t]
    BY <2>2, <2>3
  <2>4. CASE Resolve(t)
    <3>1. EffStop(t) \in Int /\ EffStop(t) >= 0
      BY <2>1, StopFacts
    <3>2. /\ BookedAt(t, "tp1") \in Int /\ BookedAt(t, "tp2") \in Int
          /\ BookedAt(t, "tp2") > BookedAt(t, "tp1")
          /\ FullR(t) \in Int /\ FullR(t) >= BookedAt(t, "tp2")
      BY <2>1, ResultFacts
    <3>3. CASE StopOutScaled(t)
      <4>1. result'[t] = BookedAt(t, status[t]) + RunnerWeight(status[t]) * EffStop(t)
        BY <2>1, <3>3 DEF StopOutScaled, CloseRow, SetRow, TypeOK
      <4>2. RunnerWeight(status[t]) = 60 \/ RunnerWeight(status[t]) = 20
        BY DEF RunnerWeight
      <4>3. RunnerWeight(status[t]) * EffStop(t) >= 0
        BY <3>1, <4>2
      <4>4. BookedAt(t, status[t]) \in Int /\ RunnerWeight(status[t]) * EffStop(t) \in Int
        BY <2>2, <3>1, <4>2
      <4> QED
        BY <2>2, <4>1, <4>3, <4>4
    <3>4. CASE FinishTp3(t)
      BY <2>1, <2>2, <3>2, <3>4 DEF FinishTp3, CloseRow, SetRow, TypeOK
    <3>5. CASE ReachTp2(t)
      BY <2>1, <2>2, <3>2, <3>5 DEF ReachTp2, SetRow, TypeOK
    <3>6. CASE TrailRunner(t)
      BY <2>2, <3>6 DEF TrailRunner
    <3>7. ~StopOutUnscaled(t) /\ ~ReachTp1(t) /\ ~CutInvalidated(t) /\ ~CutStale(t)
      BY DEF StopOutUnscaled, ReachTp1, CutInvalidated, CutStale, Quiet
    <3> QED
      BY <2>4, <3>3, <3>4, <3>5, <3>6, <3>7 DEF Resolve
  <2>5. CASE Expire(t)
    BY <2>1, <2>5 DEF Expire, CloseRow, SetRow, TypeOK
  <2>6. CASE RecordSignal(t)
    BY <2>6 DEF RecordSignal
  <2>7. ASSUME NEW u \in Trades, u # t,
               RecordSignal(u) \/ Resolve(u) \/ Expire(u) \/ GrowOld(u) \/ DropSymbol(u)
        PROVE  result'[t] = result[t]
    BY <2>1, <2>7 DEF TypeOK, RecordSignal, Resolve, Expire, GrowOld, DropSymbol,
       StopOutUnscaled, StopOutScaled, TrailRunner, FinishTp3, ReachTp2, ReachTp1,
       CutInvalidated, CutStale, CloseRow, SetRow
  <2>8. CASE Tick \/ NewBar
    BY <2>3, <2>8 DEF Tick, NewBar
  <2>9. CASE GrowOld(t) \/ DropSymbol(t)
    BY <2>3, <2>9 DEF GrowOld, DropSymbol
  <2> QED
    BY <1>1, <2>3, <2>4, <2>5, <2>6, <2>7, <2>8, <2>9 DEF Next
<1>2. Spec => []IInv
  BY InitInv, StepInv, PTL DEF Spec
<1> QED
  BY <1>1, <1>2, PTL DEF Spec, KeepsBookedProfit

\* The mapped stage of every row, named so that the steps below can cite it.
StageOf == [t \in Trades |-> IF status[t] \in Closed THEN "closed" ELSE status[t]]

\* A write to one row is a Move of TradeStages.
LEMMA MapWrite ==
    ASSUME IInv, NEW t \in Trades, NEW s \in Statuses, NEW r \in Int,
           status' = [status EXCEPT ![t] = s],
           result' = [result EXCEPT ![t] = r]
    PROVE  /\ StageOf' = [StageOf EXCEPT ![t] = IF s \in Closed THEN "closed" ELSE s]
           /\ result' = [result EXCEPT ![t] = result'[t]]
           /\ result'[t] = r
           /\ StageOf[t] = IF status[t] \in Closed THEN "closed" ELSE status[t]
<1>1. status \in [Trades -> Statuses] /\ result \in [Trades -> Int]
  BY DEF IInv, TypeOK
<1>2. \A u \in Trades : status'[u] = IF u = t THEN s ELSE status[u]
  BY <1>1
<1>3. StageOf' = [StageOf EXCEPT ![t] = IF s \in Closed THEN "closed" ELSE s]
  BY <1>1, <1>2 DEF StageOf
<1> QED
  BY <1>1, <1>3 DEF StageOf

(* TradeOutcome implements TradeStages: stages in order, none skipped,     *)
(* booked profit kept, closed rows final (except the write-off at 0R).     *)
THEOREM OutcomeImplementsStages == Spec => ImplementsStages
<1>1. Init => Stages!Init
  BY DEF Init, Stages!Init, Closed
<1>2. ASSUME IInv, [Next]_vars PROVE [Stages!Next]_(Stages!vars)
  <2> SUFFICES ASSUME Next PROVE Stages!Next \/ UNCHANGED Stages!vars
    BY <1>2 DEF vars, Stages!vars
  <2>1. TypeOK /\ BookedMatchesStage
    BY <1>2 DEF IInv
  <2>2. CASE Tick \/ NewBar
    BY <2>2 DEF Tick, NewBar, Stages!vars
  <2>3. ASSUME NEW t \in Trades, GrowOld(t) \/ DropSymbol(t) \/ TrailRunner(t)
        PROVE  UNCHANGED Stages!vars
    BY <2>3 DEF GrowOld, DropSymbol, TrailRunner, Stages!vars
  <2>4. ASSUME NEW t \in Trades, RecordSignal(t) PROVE Stages!Next
    <3>1. status[t] = "none" /\ result[t] = 0 /\ result' = result
      BY <2>1, <2>4 DEF RecordSignal, BookedMatchesStage
    <3>2. status' = [status EXCEPT ![t] = "open"]
      BY <2>4 DEF RecordSignal
    <3>3. PICK r \in Int : r = 0 /\ result' = [result EXCEPT ![t] = r]
      BY <2>1, <3>1 DEF TypeOK
    <3>4. "open" \in Statuses /\ "open" \notin Closed /\ "none" \notin Closed
      BY DEF Statuses, Live, Closed
    <3>5. /\ StageOf' = [StageOf EXCEPT ![t] = "open"]
          /\ result' = [result EXCEPT ![t] = result'[t]]
          /\ result'[t] = 0 /\ StageOf[t] = "none"
      BY <1>2, <3>1, <3>2, <3>3, <3>4, MapWrite
    <3>6. Stages!Record(t)
      BY <3>5 DEF StageOf, Stages!Record, Stages!Move
    <3> QED
      BY <3>6 DEF Stages!Next
  <2>5. ASSUME NEW t \in Trades, NEW s \in Statuses, NEW r \in Int, SetRow(t, s, r),
               \/ s \in Closed /\ status[t] = "open"
               \/ s \in Closed /\ status[t] \in {"tp1", "tp2"} /\ r >= result[t]
               \/ s \in Closed /\ status[t] \in Live /\ r = 0
               \/ s = "tp1" /\ status[t] = "open" /\ r > result[t]
               \/ s = "tp2" /\ status[t] = "tp1" /\ r > result[t]
        PROVE  Stages!Next
    <3>1. /\ StageOf' = [StageOf EXCEPT ![t] = IF s \in Closed THEN "closed" ELSE s]
          /\ result' = [result EXCEPT ![t] = result'[t]]
          /\ result'[t] = r
          /\ StageOf[t] = IF status[t] \in Closed THEN "closed" ELSE status[t]
      BY <1>2, <2>5, MapWrite DEF SetRow
    <3>2. \A x \in Live : x \notin Closed
      BY DEF Live, Closed
    <3>3. CASE s \in Closed /\ status[t] = "open"
      <4>1. Stages!CloseUnscaled(t)
        BY <3>1, <3>2, <3>3 DEF Live, StageOf, Stages!CloseUnscaled, Stages!Move
      <4> QED
        BY <4>1 DEF Stages!Next
    <3>4. CASE s \in Closed /\ status[t] \in {"tp1", "tp2"} /\ r >= result[t]
      <4>1. Stages!CloseScaled(t)
        BY <3>1, <3>2, <3>4 DEF Live, StageOf, Stages!CloseScaled, Stages!Move
      <4> QED
        BY <4>1 DEF Stages!Next
    <3>5. CASE s \in Closed /\ status[t] \in Live /\ r = 0
      <4>1. Stages!WriteOff(t)
        BY <3>1, <3>2, <3>5 DEF Live, StageOf, Stages!WriteOff, Stages!Move
      <4> QED
        BY <4>1 DEF Stages!Next
    <3>6. CASE s = "tp1" /\ status[t] = "open" /\ r > result[t]
      <4>1. Stages!ScaleOut(t)
        BY <3>1, <3>2, <3>6 DEF Live, StageOf, Stages!ScaleOut, Stages!Move
      <4> QED
        BY <4>1 DEF Stages!Next
    <3>7. CASE s = "tp2" /\ status[t] = "tp1" /\ r > result[t]
      <4>1. Stages!ScaleOut(t)
        BY <3>1, <3>2, <3>7 DEF Live, StageOf, Stages!ScaleOut, Stages!Move
      <4> QED
        BY <4>1 DEF Stages!Next
    <3> QED
      BY <2>5, <3>3, <3>4, <3>5, <3>6, <3>7
  <2>6. ASSUME NEW t \in Trades, Resolve(t), ~TrailRunner(t) PROVE Stages!Next
    <3>1. /\ BookedAt(t, "tp1") \in Int /\ BookedAt(t, "tp1") > 0
          /\ BookedAt(t, "tp2") \in Int /\ BookedAt(t, "tp2") > BookedAt(t, "tp1")
          /\ FullR(t) \in Int /\ FullR(t) >= BookedAt(t, "tp2")
          /\ Unrealised(t) \in Int
      BY <2>1, ResultFacts
    <3>2. /\ EffStop(t) \in Int
          /\ status[t] \in {"tp1", "tp2"} => EffStop(t) >= 0
      BY <2>1, StopFacts
    <3>3. /\ status[t] = "open" => result[t] = 0
          /\ status[t] \in {"tp1", "tp2"} => result[t] = BookedAt(t, status[t])
      BY <2>1 DEF BookedMatchesStage
    <3>4. \A s \in Closed \cup {"tp1", "tp2"} : s \in Statuses
      BY DEF Closed, Statuses, Live
    <3>5. CASE StopOutUnscaled(t)
      <4>1. -100 * Risk(t) \in Int
        BY <2>1, PlanFacts
      <4> QED
        BY <2>5, <3>4, <3>5, <4>1 DEF StopOutUnscaled, CloseRow, Closed
    <3>6. CASE StopOutScaled(t)
      <4> DEFINE r == BookedAt(t, status[t]) + RunnerWeight(status[t]) * EffStop(t)
                 s == IF EffStop(t) > 0 THEN "trailed" ELSE "breakeven"
      <4>1. status[t] \in {"tp1", "tp2"} /\ SetRow(t, s, r)
        BY <3>6 DEF StopOutScaled, CloseRow
      <4>2. r \in Int /\ r >= BookedAt(t, status[t])
        BY <3>1, <3>2, <4>1 DEF RunnerWeight
      <4>3. s \in Closed
        BY DEF Closed
      <4> HIDE DEF r, s
      <4> QED
        BY <2>5, <3>3, <3>4, <4>1, <4>2, <4>3
    <3>7. CASE FinishTp3(t)
      BY <2>5, <3>1, <3>3, <3>4, <3>7 DEF FinishTp3, CloseRow, Closed
    <3>8. CASE ReachTp2(t)
      BY <2>5, <3>1, <3>3, <3>4, <3>8 DEF ReachTp2
    <3>9. CASE ReachTp1(t)
      BY <2>5, <3>1, <3>3, <3>4, <3>9 DEF ReachTp1
    <3>10. CASE CutInvalidated(t)
      BY <2>5, <3>1, <3>4, <3>10 DEF CutInvalidated, Quiet, CloseRow, Closed
    <3>11. CASE CutStale(t)
      BY <2>5, <3>1, <3>4, <3>11 DEF CutStale, Quiet, CloseRow, Closed
    <3> QED
      BY <2>6, <3>5, <3>6, <3>7, <3>8, <3>9, <3>10, <3>11 DEF Resolve
  <2>7. ASSUME NEW t \in Trades, Expire(t) PROVE Stages!Next
    BY <2>5, <2>7 DEF Expire, CloseRow, Closed, Statuses
  <2> QED
    BY <2>2, <2>3, <2>4, <2>6, <2>7 DEF Next
<1>3. Spec => []IInv
  BY InitInv, StepInv, PTL DEF Spec
<1> QED
  BY <1>1, <1>2, <1>3, PTL DEF Spec, ImplementsStages, Stages!Spec

-----------------------------------------------------------------------------
(* The replay next to the live side                                        *)

\* Both sides are in the same stage after every step, not only between bars, or a
\* live exit has closed the row; a trade that has timed out is not entered again.
Agree(t) == SameEnd(t) \/ CutEarly(t) \/ CutByTrail(t)
InStep(t) ==
    /\ sim = [status |-> sim.status, result |-> sim.result, held |-> sim.held]
    /\ sim.status # "timeout" => Agree(t)
    /\ sim.status = "timeout" => status[t] # "none"
    /\ sim.status = "none" => sim.held = 0

\* The close is a price of the bar.
WholeBar == bar.lo <= bar.close /\ bar.close <= bar.hi

\* A bar that did not stop the trade out closed above the stop.
Survived(t) ==
    /\ ~unread /\ sim.status \in SimLive /\ sim.held > 0 =>
         Gain(t, bar.close) > -Risk(t)
    /\ sim.status = "timeout" => sim.result > -100 * Risk(t)

ReplayInv == IInv /\ WholeBar /\ \A t \in Trades : InStep(t) /\ Survived(t)

\* What a closed bar makes of stage s: stopped where the replay stops, or on.
After(t, s) ==
    IF Worst(t) <= (IF s = "open" THEN -Risk(t) ELSE 0)
    THEN IF s = "open" THEN "stopped" ELSE "breakeven"
    ELSE IF s = "open" /\ Reached(t, plan[t].tp1) THEN "tp1"
    ELSE IF s = "tp1" /\ Reached(t, plan[t].tp2) THEN "tp2"
    ELSE IF s = "tp2" /\ Reached(t, plan[t].tp3) THEN "tp3"
    ELSE s

\* The R of the ends both sides have.
EndsWith(t, s, next, r) ==
    /\ next = "stopped" => r = -100 * Risk(t)
    /\ next = "breakeven" => r = BookedAt(t, s)
    /\ next = "tp3" => r = FullR(t)

\* What a bar does to a trade, once for the replay ...
LEMMA SimReads ==
    ASSUME IInv, NEW t \in Trades, sim.status \in SimLive, SimBar(t)
    PROVE  /\ sim' = [status |-> sim'.status, result |-> sim'.result, held |-> sim'.held]
           /\ sim'.status = After(t, sim.status)
           /\ EndsWith(t, sim.status, sim'.status, sim'.result)
<1>1. TypeOK
  BY DEF IInv
<1>2. /\ SimStopHit(t) <=> Worst(t) <= (IF sim.status = "open" THEN -Risk(t) ELSE 0)
      /\ sim.status # "open" => SimStop(t) = 0
  BY DEF SimStop, SimStopHit
<1>3. BookedAt(t, "tp1") \in Int /\ BookedAt(t, "tp2") \in Int
  BY <1>1, ResultFacts
<1>4. CASE SimStopHit(t)
  <2>1. SimStopped(t) \/ SimBreakeven(t)
    BY <1>4 DEF SimBar
  <2>2. CASE SimStopped(t)
    BY <1>2, <1>4, <2>2 DEF SimStopped, SimEnd, After, EndsWith
  <2>3. CASE SimBreakeven(t)
    <3>1. /\ sim.status \in {"tp1", "tp2"}
          /\ sim' = [status |-> "breakeven",
                     result |-> SimBooked(t) + (IF sim.status = "tp1" THEN 60 ELSE 20) * SimStop(t),
                     held |-> sim.held + 1]
      BY <2>3 DEF SimBreakeven, SimEnd
    <3>2. SimBooked(t) = BookedAt(t, sim.status)
      <4>1. Gain(t, plan[t].tp1) \in Int /\ Gain(t, plan[t].tp2) \in Int
        BY <1>1, PlanFacts
      <4> QED BY <3>1, <4>1 DEF SimBooked, BookedAt
    <3>3. SimStop(t) = 0
      BY <1>2, <3>1
    <3>4. SimBooked(t) + (IF sim.status = "tp1" THEN 60 ELSE 20) * SimStop(t)
            = BookedAt(t, sim.status)
      BY <1>3, <3>1, <3>2, <3>3
    <3> QED BY <1>2, <1>4, <3>1, <3>4 DEF After, EndsWith
  <2> QED BY <2>1, <2>2, <2>3
<1>5. CASE ~SimStopHit(t)
  <2>1. SimAdvance(t)
    BY <1>5 DEF SimBar
  <2> DEFINE next == CASE sim.status = "tp2" /\ Reached(t, plan[t].tp3) -> "tp3"
                       [] sim.status = "tp1" /\ Reached(t, plan[t].tp2) -> "tp2"
                       [] sim.status = "open" /\ Reached(t, plan[t].tp1) -> "tp1"
                       [] OTHER -> sim.status
  <2>2. sim' = [status |-> next,
                result |-> IF next = "tp3" THEN SimBooked(t) + 20 * Gain(t, plan[t].tp3) ELSE 0,
                held |-> sim.held + 1]
    BY <2>1 DEF SimAdvance, SimEnd
  <2>3. next = IF sim.status = "open" /\ Reached(t, plan[t].tp1) THEN "tp1"
               ELSE IF sim.status = "tp1" /\ Reached(t, plan[t].tp2) THEN "tp2"
               ELSE IF sim.status = "tp2" /\ Reached(t, plan[t].tp3) THEN "tp3"
               ELSE sim.status
    BY DEF SimLive
  <2>4. next = "tp3" => sim.status = "tp2"
    BY <2>3 DEF SimLive
  <2>5. sim.status = "tp2" => SimBooked(t) = BookedAt(t, "tp2")
    BY DEF SimBooked, BookedAt
  <2>6. next \notin {"stopped", "breakeven"}
    BY <2>3 DEF SimLive
  <2> HIDE DEF next
  <2>7. next = After(t, sim.status)
    BY <1>2, <1>5, <2>3 DEF After
  <2> QED BY <2>2, <2>4, <2>5, <2>6, <2>7 DEF FullR, EndsWith
<1> QED BY <1>4, <1>5

\* The live stop is the replay's or, for a trailed runner, above entry.
LEMMA LiveStop ==
    ASSUME IInv, NEW t \in Trades, status[t] \in SimLive
    PROVE  LET base == IF status[t] = "open" THEN -Risk(t) ELSE 0
           IN  /\ EffStop(t) = base \/ (status[t] = "tp2" /\ EffStop(t) > 0)
               /\ Worst(t) <= base => StopHit(t)
<1>1. TypeOK
  BY DEF IInv
<1>2. PICK base : base = IF status[t] = "open" THEN -Risk(t) ELSE 0
  OBVIOUS
<1>3. PICK e, w, b : e = EffStop(t) /\ w = Worst(t) /\ b = Best(t) - bar.trail
  OBVIOUS
<1>4. /\ base \in Int /\ w \in Int /\ b \in Int
  <2>1. Risk(t) \in Int /\ Worst(t) \in Int /\ Best(t) \in Int
    BY <1>1, PlanFacts, StopFacts
  <2>2. bar.trail \in Int
    BY <1>1 DEF TypeOK, BarType
  <2> QED BY <1>2, <1>3, <2>1, <2>2
<1>5. e = base \/ (status[t] = "tp2" /\ e > 0 /\ base = 0 /\ e \in Int)
  BY <1>2, <1>3, <1>4 DEF EffStop, Larger
<1>6. w <= base => w <= e
  BY <1>4, <1>5
<1> QED BY <1>2, <1>3, <1>5, <1>6 DEF StopHit

\* ... and once for check_outcomes, which may cut the trade by its own exits.
LEMMA LiveReads ==
    ASSUME IInv, NEW t \in Trades, status[t] \in SimLive, Resolve(t) \/ LiveIdle(t)
    PROVE  \/ /\ status'[t] = After(t, status[t])
              /\ EndsWith(t, status[t], status'[t], result'[t])
           \/ status'[t] \in {"invalidated", "stale"} /\ result'[t] >= -100 * Risk(t)
           \/ /\ status'[t] = "trailed" /\ status[t] = "tp2"
              /\ result'[t] > BookedAt(t, "tp2")
<1>1. status \in [Trades -> Statuses] /\ result \in [Trades -> Int] /\ TypeOK
  BY DEF IInv, TypeOK
<1> DEFINE base == IF status[t] = "open" THEN -Risk(t) ELSE 0
<1>2. /\ EffStop(t) = base \/ (status[t] = "tp2" /\ EffStop(t) > 0)
      /\ Worst(t) <= base => StopHit(t)
  BY LiveStop
<1>3. /\ BookedAt(t, "tp1") \in Int /\ BookedAt(t, "tp2") \in Int
      /\ EffStop(t) \in Int /\ Risk(t) \in Int /\ Gain(t, bar.close) \in Int
  BY <1>1, ResultFacts, StopFacts, PlanFacts
<1>4. ASSUME NEW s, NEW r, SetRow(t, s, r) PROVE status'[t] = s /\ result'[t] = r
  BY <1>1, <1>4 DEF SetRow
<1>5. CASE StopOutUnscaled(t)
  <2>1. SetRow(t, "stopped", -100 * Risk(t)) /\ status[t] = "open" /\ StopHit(t)
    BY <1>5 DEF StopOutUnscaled, CloseRow
  <2>2. Worst(t) <= base
    BY <1>2, <2>1 DEF StopHit
  <2> QED BY <1>4, <2>1, <2>2 DEF After, EndsWith
<1>6. CASE StopOutScaled(t)
  <2>1. /\ status[t] \in {"tp1", "tp2"} /\ StopHit(t)
        /\ SetRow(t, IF EffStop(t) > 0 THEN "trailed" ELSE "breakeven",
                  BookedAt(t, status[t]) + RunnerWeight(status[t]) * EffStop(t))
    BY <1>6 DEF StopOutScaled, CloseRow
  <2>2. CASE EffStop(t) > 0
    <3>1. status[t] = "tp2"
      BY <1>2, <2>1, <2>2
    <3>2. status'[t] = "trailed" /\ result'[t] = BookedAt(t, "tp2") + 20 * EffStop(t)
      BY <1>4, <2>1, <2>2, <3>1 DEF RunnerWeight
    <3>3. BookedAt(t, "tp2") + 20 * EffStop(t) > BookedAt(t, "tp2")
      BY <1>3, <2>2
    <3> QED BY <3>1, <3>2, <3>3
  <2>3. CASE ~(EffStop(t) > 0)
    <3>1. EffStop(t) = 0 /\ Worst(t) <= base
      BY <1>2, <2>1, <2>3 DEF StopHit
    <3>2. BookedAt(t, status[t]) + RunnerWeight(status[t]) * EffStop(t) = BookedAt(t, status[t])
      BY <1>3, <2>1, <3>1 DEF RunnerWeight
    <3>3. status'[t] = "breakeven" /\ result'[t] = BookedAt(t, status[t])
      BY <1>4, <2>1, <2>3, <3>2
    <3> QED BY <2>1, <3>1, <3>3 DEF After, EndsWith
  <2> QED BY <2>2, <2>3
<1>7. CASE FinishTp3(t)
  <2>1. /\ SetRow(t, "tp3", FullR(t)) /\ status[t] = "tp2"
        /\ ~StopHit(t) /\ Reached(t, plan[t].tp3)
    BY <1>7 DEF FinishTp3, CloseRow
  <2> QED BY <1>2, <1>4, <2>1 DEF After, EndsWith
<1>8. CASE ReachTp2(t)
  <2>1. /\ SetRow(t, "tp2", BookedAt(t, "tp2")) /\ status[t] = "tp1"
        /\ ~StopHit(t) /\ Reached(t, plan[t].tp2)
    BY <1>8 DEF ReachTp2
  <2> QED BY <1>2, <1>4, <2>1 DEF After, EndsWith
<1>9. CASE ReachTp1(t)
  <2>1. /\ SetRow(t, "tp1", BookedAt(t, "tp1")) /\ status[t] = "open"
        /\ ~StopHit(t) /\ Reached(t, plan[t].tp1)
    BY <1>9 DEF ReachTp1
  <2> QED BY <1>2, <1>4, <2>1 DEF After, EndsWith
<1>10. CASE TrailRunner(t)
  <2>1. /\ status' = status /\ status[t] = "tp2" /\ ~StopHit(t) /\ ~Reached(t, plan[t].tp3)
    BY <1>10 DEF TrailRunner
  <2> QED BY <1>2, <2>1 DEF After, EndsWith
<1>11. CASE CutInvalidated(t) \/ CutStale(t)
  <2>1. PICK s \in {"invalidated", "stale"} : SetRow(t, s, Unrealised(t))
    BY <1>11 DEF CutInvalidated, CutStale, CloseRow
  <2>2. Unrealised(t) >= -100 * Risk(t)
    BY <1>3 DEF Unrealised, Larger
  <2> QED BY <1>4, <2>1, <2>2
<1>12. CASE LiveIdle(t)
  <2>1. ~BarMoves(t) /\ status' = status
    BY <1>12 DEF LiveIdle, vars
  <2>2. /\ ~StopHit(t)
        /\ ~(status[t] = "open" /\ Reached(t, plan[t].tp1))
        /\ ~(status[t] = "tp1" /\ Reached(t, plan[t].tp2))
        /\ ~(status[t] = "tp2" /\ Reached(t, plan[t].tp3))
    BY <2>1 DEF BarMoves, SimLive, Live
  <2> QED BY <1>2, <2>1, <2>2 DEF After, EndsWith, SimLive
<1> QED BY <1>5, <1>6, <1>7, <1>8, <1>9, <1>10, <1>11, <1>12 DEF Resolve

\* A row that is not live is left alone.
LEMMA OverIsOver ==
    ASSUME NEW t \in Trades, status[t] \notin SimLive, Resolve(t) \/ LiveIdle(t)
    PROVE  UNCHANGED vars
  BY DEF SimLive, Live, Resolve, LiveIdle, StopOutUnscaled, StopOutScaled, TrailRunner,
     FinishTp3, ReachTp2, ReachTp1, CutInvalidated, CutStale, Quiet

LEMMA InitReplay == ReplayInit => ReplayInv
<1> SUFFICES ASSUME ReplayInit PROVE ReplayInv
  OBVIOUS
<1>1. IInv
  BY InitInv DEF ReplayInit
<1>2. PICK p \in Prices, d \in Trails :
        bar = [hi |-> p, lo |-> p, close |-> p, trail |-> d, choch |-> "none"]
  BY DEF ReplayInit, Init
<1>3. WholeBar
  BY <1>2, MarketAssumption DEF WholeBar
<1>4. /\ sim = [status |-> "none", result |-> 0, held |-> 0]
      /\ \A t \in Trades : status[t] = "none"
  BY DEF ReplayInit, Init
<1>5. \A t \in Trades : InStep(t) /\ Survived(t)
  BY <1>4 DEF InStep, Agree, SameEnd, Survived, SimOutcomes, SimLive
<1> QED BY <1>1, <1>3, <1>5 DEF ReplayInv

\* What the replay survives, the live side saw above the stop.
LEMMA AboveStop ==
    ASSUME IInv, WholeBar, NEW t \in Trades, NEW s \in SimLive, After(t, s) \in SimLive
    PROVE  Gain(t, bar.close) > -Risk(t)
<1>1. TypeOK
  BY DEF IInv
<1>2. /\ Risk(t) \in Int /\ Risk(t) > 0 /\ Worst(t) \in Int /\ Gain(t, bar.close) \in Int
  BY <1>1, PlanFacts
<1>3. ~(Worst(t) <= (IF s = "open" THEN -Risk(t) ELSE 0))
  BY DEF After, SimLive
<1>4. Worst(t) > -Risk(t)
  BY <1>2, <1>3
<1>5. Worst(t) <= Gain(t, bar.close)
  <2>1. bar \in BarType /\ plan[t] \in PlanType
    BY <1>1, PlanFacts DEF TypeOK
  <2> QED BY <2>1 DEF WholeBar, Worst, Gain, SignedGain, BarType, PlanType
<1> QED BY <1>2, <1>4, <1>5

\* Both sides read the bar: in step again, or cut by a live exit.
LEMMA ReadKeeps ==
    ASSUME ReplayInv, ReplayAssumption, NEW t \in Trades, ReadBar(t)
    PROVE  ReplayInv'
<1>1. /\ IInv /\ TypeOK /\ InStep(t) /\ Survived(t) /\ WholeBar /\ Trades = {t}
      /\ SimBar(t) /\ (Resolve(t) \/ LiveIdle(t))
  BY DEF ReplayInv, IInv, ReplayAssumption, ReadBar
<1>2. IInv'
  <2>1. CASE Resolve(t)
    BY <1>1, <2>1, ResolveInv
  <2>2. CASE LiveIdle(t)
    BY <1>1, <2>2, MarketInv DEF LiveIdle, vars, TypeOK
  <2> QED BY <1>1, <2>1, <2>2
<1>3. UNCHANGED <<bar, plan>>
  BY <1>1 DEF Resolve, LiveIdle, StopOutUnscaled, StopOutScaled, TrailRunner, FinishTp3,
     ReachTp2, ReachTp1, CutInvalidated, CutStale, CloseRow, market, vars
<1>4. /\ WholeBar' /\ Risk(t)' = Risk(t) /\ Gain(t, bar.close)' = Gain(t, bar.close)
      /\ BookedAt(t, "tp2")' = BookedAt(t, "tp2")
  BY <1>1, <1>3 DEF WholeBar, Risk, Gain, BookedAt
<1>5. CASE sim.status \in SimLive
  <2>1. sim.status # "timeout" /\ sim.status # "none" /\ Agree(t)
    BY <1>1, <1>5 DEF InStep, SimLive
  <2>2. /\ sim' = [status |-> sim'.status, result |-> sim'.result, held |-> sim'.held]
        /\ sim'.status = After(t, sim.status)
        /\ EndsWith(t, sim.status, sim'.status, sim'.result)
    BY <1>1, <1>5, SimReads
  <2>3. /\ sim'.status \in {"stopped", "breakeven", "tp1", "tp2", "tp3", "open"}
        /\ sim.status = "tp2" => sim'.status \in {"breakeven", "tp2", "tp3"}
    BY <1>5, <2>2 DEF After, SimLive
  <2>4. ASSUME SameEnd(t) PROVE Agree(t)'
    <3>1. status[t] = sim.status /\ status[t] \in SimLive
      BY <1>5, <2>4 DEF SameEnd
    <3>2. CASE /\ status'[t] = After(t, status[t])
               /\ EndsWith(t, status[t], status'[t], result'[t])
      BY <2>2, <2>3, <3>1, <3>2 DEF Agree, SameEnd, EndsWith, SimOutcomes
    <3>3. CASE status'[t] \in {"invalidated", "stale"} /\ result'[t] >= -100 * Risk(t)
      BY <1>4, <2>3, <3>3 DEF Agree, CutEarly
    <3>4. CASE /\ status'[t] = "trailed" /\ status[t] = "tp2"
               /\ result'[t] > BookedAt(t, "tp2")
      <4>1. sim'.status \in {"breakeven", "tp2", "tp3"}
        BY <2>3, <3>1, <3>4
      <4>2. sim'.status = "breakeven" => sim'.result = BookedAt(t, "tp2")
        BY <2>2, <3>1, <3>4 DEF EndsWith
      <4>3. CutByTrail(t)'
        BY <1>4, <3>4, <4>1, <4>2 DEF CutByTrail
      <4> QED BY <4>3 DEF Agree
    <3> QED BY <1>1, <3>1, <3>2, <3>3, <3>4, LiveReads
  <2>5. ASSUME ~SameEnd(t) PROVE Agree(t)'
    <3>1. status[t] \notin SimLive
      BY <2>1, <2>5 DEF Agree, CutEarly, CutByTrail, SimLive
    <3>2. status' = status /\ result' = result
      BY <1>1, <3>1, OverIsOver DEF vars
    <3>3. CASE CutEarly(t)
      BY <1>4, <2>3, <3>2, <3>3 DEF Agree, CutEarly
    <3>4. CASE CutByTrail(t)
      <4>1. sim.status = "tp2"
        BY <1>5, <3>4 DEF CutByTrail, SimLive
      <4>2. sim'.status = "breakeven" => sim'.result = BookedAt(t, "tp2")
        BY <2>2, <4>1 DEF EndsWith
      <4>3. sim'.status \in {"breakeven", "tp2", "tp3"}
        BY <2>3, <4>1
      <4>4. CutByTrail(t)'
        BY <1>4, <3>2, <3>4, <4>2, <4>3 DEF CutByTrail
      <4> QED BY <4>4 DEF Agree
    <3> QED BY <2>1, <2>5, <3>3, <3>4 DEF Agree
  <2>6. InStep(t)'
    BY <2>2, <2>3, <2>4, <2>5 DEF InStep
  <2>7. sim'.status \in SimLive => Gain(t, bar.close) > -Risk(t)
    BY <1>1, <1>5, <2>2, AboveStop
  <2>8. Survived(t)'
    BY <1>4, <2>3, <2>7 DEF Survived
  <2> QED BY <1>1, <1>2, <1>4, <2>6, <2>8 DEF ReplayInv
<1>6. CASE sim.status \notin SimLive
  <2>1. sim' = sim
    BY <1>1, <1>6 DEF SimBar
  <2>2. CASE sim.status = "timeout"
    <3>1. status'[t] # "none"
      <4>1. status[t] # "none" /\ status \in [Trades -> Statuses]
        BY <1>1, <2>2 DEF InStep, TypeOK
      <4>2. \/ UNCHANGED status
            \/ \E s \in Closed \cup {"tp1", "tp2"} : status' = [status EXCEPT ![t] = s]
        BY <1>1 DEF Resolve, LiveIdle, StopOutUnscaled, StopOutScaled, TrailRunner,
           FinishTp3, ReachTp2, ReachTp1, CutInvalidated, CutStale, CloseRow, SetRow,
           vars, Closed
      <4> QED BY <4>1, <4>2 DEF Closed
    <3>2. InStep(t)' /\ Survived(t)'
      BY <1>1, <1>4, <2>1, <2>2, <3>1 DEF InStep, Survived, SimLive
    <3> QED BY <1>1, <1>2, <1>4, <3>2 DEF ReplayInv
  <2>3. CASE sim.status # "timeout"
    <3>1. Agree(t) /\ status[t] \notin SimLive
      BY <1>1, <1>6, <2>3 DEF InStep, Agree, SameEnd, CutEarly, CutByTrail, SimLive
    <3>2. status' = status /\ result' = result
      BY <1>1, <3>1, OverIsOver DEF vars
    <3>3. Agree(t)'
      BY <1>4, <2>1, <3>1, <3>2 DEF Agree, SameEnd, CutEarly, CutByTrail
    <3>4. InStep(t)' /\ Survived(t)'
      BY <1>1, <1>6, <2>1, <2>3, <3>3 DEF InStep, Survived
    <3> QED BY <1>1, <1>2, <1>4, <3>4 DEF ReplayInv
  <2> QED BY <2>2, <2>3
<1> QED BY <1>5, <1>6

LEMMA NextReplay ==
    ReplayAssumption /\ ReplayInv /\ [ReplayNext]_replayVars => ReplayInv'
<1> SUFFICES ASSUME ReplayAssumption, ReplayInv, [ReplayNext]_replayVars
             PROVE  ReplayInv'
  OBVIOUS
<1>1. IInv /\ TypeOK /\ WholeBar
  BY DEF ReplayInv, IInv
<1>2. PICK q : Trades = {q}
  BY DEF ReplayAssumption
<1>3. InStep(q) /\ Survived(q)
  BY <1>2 DEF ReplayInv
<1>4. ASSUME UNCHANGED <<status, plan, result, sim>>
      PROVE  /\ InStep(q)' /\ Risk(q)' = Risk(q)
             /\ bar' = bar /\ unread' = unread => Survived(q)'
             /\ unread' = TRUE => Survived(q)'
  <2>1. /\ Risk(q)' = Risk(q) /\ BookedAt(q, "tp2")' = BookedAt(q, "tp2")
        /\ bar' = bar => Gain(q, bar.close)' = Gain(q, bar.close)
    BY <1>4 DEF Risk, Gain, BookedAt
  <2>2. Agree(q) => Agree(q)'
    BY <1>4, <2>1 DEF Agree, SameEnd, CutEarly, CutByTrail
  <2>3. InStep(q)'
    BY <1>3, <1>4, <2>2 DEF InStep
  <2> QED BY <1>3, <1>4, <2>1, <2>3 DEF Survived
<1>5. CASE CloseBar
  <2>1. PICK hi \in Prices, lo \in Prices, close \in Prices, d \in Trails, c \in Chochs :
          /\ lo <= close /\ close <= hi
          /\ bar' = [hi |-> hi, lo |-> lo, close |-> close, trail |-> d, choch |-> c]
    BY <1>5 DEF CloseBar
  <2>2. /\ UNCHANGED <<status, plan, result, aged, brokerStop, offList, sim>>
        /\ moved' = {} /\ unread' = TRUE
    BY <1>5 DEF CloseBar
  <2>3. bar' \in BarType /\ WholeBar'
    BY <2>1, MarketAssumption DEF BarType, WholeBar
  <2>4. IInv'
    BY <1>1, <2>2, <2>3, MarketInv DEF TypeOK
  <2> QED BY <1>2, <1>4, <2>2, <2>3, <2>4 DEF ReplayInv
<1>6. ASSUME Enter(q) PROVE ReplayInv'
  <2>1. /\ RecordSignal(q) /\ sim' = [sim EXCEPT !.status = "open"] /\ status[q] = "none"
    BY <1>6 DEF Enter, RecordSignal
  <2>2. IInv'
    BY <1>1, <1>2, <2>1, RecordInv
  <2>3. sim.status = "none" \/ sim.status = "timeout"
    BY <1>3, <2>1 DEF InStep, Agree, SameEnd, CutEarly, CutByTrail
  <2>4. sim.status = "none" /\ sim.held = 0
    BY <1>3, <2>1, <2>3 DEF InStep
  <2>5. /\ sim' = [status |-> "open", result |-> sim.result, held |-> sim.held]
    BY <1>3, <2>1 DEF InStep
  <2>6. status'[q] = "open" /\ UNCHANGED bar
    BY <1>1, <1>2, <2>1 DEF RecordSignal, TypeOK, market
  <2>7. InStep(q)' /\ Survived(q)'
    BY <2>4, <2>5, <2>6 DEF InStep, Agree, SameEnd, Survived, SimOutcomes
  <2> QED BY <1>1, <1>2, <2>2, <2>6, <2>7 DEF ReplayInv, WholeBar
<1>7. ASSUME SimTimeout(q) PROVE ReplayInv'
  <2>1. /\ sim' = [sim EXCEPT !.status = "timeout", !.result = 100 * Gain(q, bar.close)]
        /\ ~unread /\ sim.status \in SimLive /\ sim.held > 0 /\ UNCHANGED vars
    BY <1>7 DEF SimTimeout
  <2>2. sim' = [status |-> "timeout", result |-> 100 * Gain(q, bar.close), held |-> sim.held]
    BY <1>3, <2>1 DEF InStep
  <2>3. status[q] # "none"
    BY <1>3, <2>1 DEF InStep, Agree, SameEnd, CutEarly, CutByTrail, SimLive
  <2>4. 100 * Gain(q, bar.close) > -100 * Risk(q)
    <3>1. Gain(q, bar.close) \in Int /\ Risk(q) \in Int
      BY <1>1, <1>2, PlanFacts
    <3>2. Gain(q, bar.close) > -Risk(q)
      BY <1>3, <2>1 DEF Survived
    <3> QED BY <3>1, <3>2
  <2>5. /\ UNCHANGED <<status, plan, result, aged, brokerStop, bar, offList, moved>>
        /\ Risk(q)' = Risk(q) /\ WholeBar'
    BY <1>1, <2>1 DEF vars, Risk, Gain, WholeBar
  <2>6. IInv'
    BY <1>1, <2>5, MarketInv DEF TypeOK
  <2>7. InStep(q)' /\ Survived(q)'
    BY <2>2, <2>3, <2>4, <2>5 DEF InStep, Survived, SimLive
  <2> QED BY <1>2, <2>5, <2>6, <2>7 DEF ReplayInv
<1>8. CASE UNCHANGED replayVars
  <2>1. /\ UNCHANGED <<status, plan, result, aged, brokerStop, bar, offList, moved>>
        /\ UNCHANGED <<sim, unread>>
    BY <1>8 DEF replayVars, vars
  <2>2. IInv' /\ WholeBar'
    BY <1>1, <2>1, MarketInv DEF TypeOK, WholeBar
  <2> QED BY <1>2, <1>4, <2>1, <2>2 DEF ReplayInv
<1>9. ASSUME Age(q) PROVE ReplayInv'
  <2>1. /\ aged' = aged \cup {q}
        /\ UNCHANGED <<status, plan, result, brokerStop, bar, offList, moved>>
        /\ UNCHANGED <<sim, unread>>
    BY <1>9 DEF Age, GrowOld
  <2>2. IInv' /\ WholeBar'
    BY <1>1, <1>2, <2>1, MarketInv DEF TypeOK, WholeBar
  <2> QED BY <1>2, <1>4, <2>1, <2>2 DEF ReplayInv
<1>10. ASSUME ReadBar(q) PROVE ReplayInv'
  BY <1>2, <1>10, ReadKeeps
<1> QED BY <1>2, <1>5, <1>6, <1>7, <1>8, <1>9, <1>10 DEF ReplayNext

(* The replay and the journal agree on stage, outcome and R of every trade *)
(* the replay does not run out of bars for, whatever the plan and the bars,*)
(* the trail and the early exits: they part only where a live exit that    *)
(* _simulate does not have closes the row, and there the row says which;   *)
(* a trailed runner has made more than the replay's breakeven.             *)
THEOREM DifferByLiveExitsOnlyHolds ==
    ASSUME ReplayAssumption PROVE ReplaySpec => []DifferByLiveExitsOnly
<1>1. ReplayInv => DifferByLiveExitsOnly
  BY DEF ReplayInv, InStep, Agree, DifferByLiveExitsOnly
<1>2. ReplayInit => ReplayInv
  BY InitReplay
<1>3. ReplayInv /\ [ReplayNext]_replayVars => ReplayInv'
  BY NextReplay
<1> QED BY <1>1, <1>2, <1>3, PTL DEF ReplaySpec

(* A trade that runs out of bars loses less than the stop would have cost, *)
(* whatever the bars it lived through.                                     *)
THEOREM TimeoutIsNoFullLossHolds ==
    ASSUME ReplayAssumption PROVE ReplaySpec => []TimeoutIsNoFullLoss
<1>1. ReplayInv => TimeoutIsNoFullLoss
  BY DEF ReplayInv, Survived, TimeoutIsNoFullLoss
<1>2. ReplayInit => ReplayInv
  BY InitReplay
<1>3. ReplayInv /\ [ReplayNext]_replayVars => ReplayInv'
  BY NextReplay
<1> QED BY <1>1, <1>2, <1>3, PTL DEF ReplaySpec
=============================================================================
