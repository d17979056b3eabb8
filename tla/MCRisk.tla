------------------------------- MODULE MCRisk -------------------------------
(***************************************************************************)
(* The two halves of RiskEngine.evaluate for TLC: the caps and locks       *)
(* (extended) and the size of a trade.  They share no variable; the        *)
(* instance runs one of them at a time (part), the other one rests in its  *)
(* initial state.                                                          *)
(***************************************************************************)
EXTENDS RiskGate

CONSTANTS Tradable, Contract, Configured, Default, QuoteValue,   \* PositionSizing
          Balances, BL_BALANCE, Stops, Rewards, MaxRiskPct, MinRR

VARIABLES ask, lot, verdict, part

sizeVars == <<ask, lot, verdict>>

Size == INSTANCE PositionSizing WITH Symbols <- Tradable

ASSUME RiskAssumption ==
    Size!ContractsAssumption /\ Size!MoneyAssumption /\ Size!PolicyAssumption

-----------------------------------------------------------------------------
RiskInit == /\ Init /\ Size!Init
            /\ part \in {"gate", "size"}

GateStep == part = "gate" /\ Next /\ UNCHANGED <<part, sizeVars>>
SizeStep == part = "size" /\ Size!Next /\ UNCHANGED <<part, vars>>

RiskSpec == /\ RiskInit /\ [][GateStep \/ SizeStep]_<<part, vars, sizeVars>>
            /\ part = "gate" => Fairness

-----------------------------------------------------------------------------
(* The states of gate and size have their types.                           *)
RiskTypeOK == TypeOK /\ Size!TypeOK

(* The properties of the instance, stated in its module.                   *)
RiskWithinMax == Size!RiskWithinMax
RiskWithinPolicy == Size!RiskWithinPolicy
SizedWhenSizeable == Size!SizedWhenSizeable
StopOutLosesRiskPct == Size!StopOutLosesRiskPct

-----------------------------------------------------------------------------
(* The gate: two correlated pairs and a metal, each market with one place  *)
(* less than the risk limit alone would give, so that every cap can bind.  *)
ThreeSymbols == {"EURUSD", "GBPUSD", "XAUUSD"}
ThreeMarkets == [s \in Symbols |-> IF s = "XAUUSD" THEN "commodity" ELSE "forex"]
OnePair == {{"EURUSD", "GBPUSD"}}
Exposure == [m \in Markets |-> IF m = "commodity" THEN 1 ELSE 2]
ThreeTickets == 1 .. 3
AnyResult == {-1, 0, 2}

(* The size, with the contracts and digits of configs/symbols.yaml: one    *)
(* lot per point is 100000 * 0.00001 for EURUSD, 100 * 0.01 for XAUUSD,    *)
(* 5000 * 0.001 for XAGUSD, 100000 * 0.001 for USDJPY.  A yen is worth     *)
(* 0.006 dollars, a pound 1.27, a franc 1.12.  OLDGOLD is a metal that has *)
(* left the watchlist.                                                     *)
Quoted == {"EURUSD", "XAUUSD", "XAGUSD", "USDJPY", "EURGBP", "USDCHF", "OLDGOLD"}
Watchlist == Quoted \ {"OLDGOLD"}

PerPoint(s) == IF s = "XAGUSD" THEN 5 ELSE IF s = "USDJPY" THEN 100 ELSE 1
PerPointDefault(s) ==
    IF s \in {"XAUUSD", "OLDGOLD"} THEN 1000 ELSE IF s \in {"XAGUSD", "USDJPY"} THEN 100 ELSE 1
Rate(s) == IF s = "USDJPY" THEN 6
           ELSE IF s = "EURGBP" THEN 1270 ELSE IF s = "USDCHF" THEN 1120 ELSE 1000
MCContract == [s \in Tradable |-> PerPoint(s)]
MCDefault == [s \in Tradable |-> PerPointDefault(s)]
MCQuoteValue == [s \in Tradable |-> Rate(s)]

MCBalances == {100, 150, 1000, 10000}
MCStops == {0, 100, 150, 200, 1000, 2500, 20000}
MCRewards == {199, 200, 300, 5000, 40000}
=============================================================================
