--------------------------- MODULE MCTradeOutcome ---------------------------
(***************************************************************************)
(* Instances of TradeOutcome for TLC.                                      *)
(***************************************************************************)
EXTENDS TradeOutcome

\* Stop 1 tick away, targets at 2, 3 and 4 ticks: every order of stop, entry and
\* the three targets within a bar is possible with eight prices.
BuyPlan == [dir |-> "BUY", entry |-> 0, stop |-> -1, tp1 |-> 2, tp2 |-> 3, tp3 |-> 4]
SellPlan == [dir |-> "SELL", entry |-> 3, stop |-> 4, tp1 |-> 1, tp2 |-> 0, tp3 |-> -1]
MCPlans == {BuyPlan, SellPlan}
BuyOnly == {BuyPlan}
MCPrices == -2..5
\* One tick beyond, so that a bar can overshoot TP3 by more than the trail.
WidePrices == -1..6
=============================================================================
