--------------------------- MODULE PositionSizing ---------------------------
(***************************************************************************)
(* How many lots RiskEngine.evaluate gives a trade: the contract size from *)
(* the broker, the configuration or the default of 100000, the balance     *)
(* from the broker or BL_BALANCE, the rounding to the volume step and the  *)
(* floor of MIN_LOT.  The caps and locks of evaluate are in RiskGate.      *)
(*                                                                         *)
(* Distances are in points of the symbol.  A contract is given by what one *)
(* lot gains per point in the QUOTE currency, lots are in hundredths       *)
(* (MIN_LOT is 1), so that the computed size is                            *)
(*     balance * RiskPct / (stop * contract)  hundredths of a lot.         *)
(* QuoteValue is the worth of the quote currency in the account's, 1/1000. *)
(***************************************************************************)
EXTENDS Integers

CONSTANTS Symbols,       \* symbols a row may have
          Contract,      \* [Symbols -> Nat]: what the broker's contract is
          Configured,    \* symbols still in configs/symbols.yaml
          Default,       \* [Symbols -> Nat]: the same for contract_size 100000
          QuoteValue,    \* [Symbols -> Nat]
          Balances,      \* balances an account may have
          BL_BALANCE,    \* the configured balance
          Stops,         \* distances of the stop, in points
          Rewards,       \* distances of TP2, in points
          RiskPct, MaxRiskPct, MinRR

ContractsAssumption ==
    /\ Configured \subseteq Symbols
    /\ Contract \in [Symbols -> Nat \ {0}] /\ Default \in [Symbols -> Nat \ {0}]
    /\ \A s \in Symbols : Contract[s] <= Default[s]
    /\ QuoteValue \in [Symbols -> Nat]
MoneyAssumption ==
    /\ Balances \subseteq Nat \ {0} /\ BL_BALANCE \in Nat \ {0}
    /\ Stops \subseteq Nat /\ Rewards \subseteq Nat
PolicyAssumption ==
    RiskPct \in Nat \ {0} /\ MaxRiskPct >= 2 * RiskPct /\ MaxRiskPct \in Nat /\ MinRR \in Nat

VARIABLES
  ask,       \* the trade to be sized and what the broker tells of the account
  lot,       \* RiskDecision.lot_size
  verdict    \* "none" before, then "approved" or "vetoed"

vars == <<ask, lot, verdict>>

Asks == [sym : Symbols, stop : Stops, reward : Rewards, balance : Balances,
         balanceRead : BOOLEAN,    \* account_info answered
         contractRead : BOOLEAN]   \* contract_size answered with a value > 0

Planned(a) == (IF a.balanceRead THEN a.balance ELSE BL_BALANCE) * RiskPct

\* contract_sizes.get(symbol) or contract_size
ContractFor(a) ==
    IF a.contractRead \/ a.sym \in Configured THEN Contract[a.sym] ELSE Default[a.sym]

\* round(x, 2): a tie goes either way, as the float that stands for it falls.
Nearest(num, den) == {n \in {num \div den, num \div den + 1} :
                        2 * (n * den - num) <= den /\ 2 * (num - n * den) <= den}

\* Wrong on purpose: at least the smallest lot.
Lots_AtLeastMin(a) ==
    IF a.stop = 0 THEN {0}
    ELSE {IF n = 0 THEN 1 ELSE n : n \in Nearest(Planned(a), a.stop * ContractFor(a))}

Lots(a) == IF a.stop = 0 THEN {0} ELSE Nearest(Planned(a), a.stop * ContractFor(a))

Approves(a, n) == a.stop > 0 /\ a.reward >= MinRR * a.stop /\ n >= 1

NoAsk == [sym |-> "nothing asked"]

Init == ask = NoAsk /\ lot = 0 /\ verdict = "none"

Ask == /\ ask = NoAsk
       /\ ask' \in Asks
       /\ UNCHANGED <<lot, verdict>>

Unsized == ask # NoAsk /\ verdict = "none"

\* RiskEngine.evaluate; a rejected decision keeps lot_size 0.
Evaluate == /\ Unsized
            /\ \E n \in Lots(ask) :
                 /\ verdict' = IF Approves(ask, n) THEN "approved" ELSE "vetoed"
                 /\ lot' = IF Approves(ask, n) THEN n ELSE 0
            /\ UNCHANGED ask

\* The account and the market have moved on when the next trade is sized.
NextAsk == /\ verdict # "none"
           /\ ask' = NoAsk
           /\ verdict' = "none" /\ lot' = 0

Next == Ask \/ Evaluate \/ NextAsk

Spec == Init /\ [][Next]_vars

-----------------------------------------------------------------------------
TypeOK == ask \in Asks \cup {NoAsk} /\ lot \in Nat /\ verdict \in {"none", "approved", "vetoed"}

Approved == verdict = "approved"

\* What a full stop-out costs in the account's currency, times 100 * 1000:
\* evaluate has no exchange rate, this does.
Loss == lot * ask.stop * Contract[ask.sym] * QuoteValue[ask.sym]

\* evaluate knows the balance, or takes a configured one that is no larger.
BalanceCovered == ask.balanceRead \/ BL_BALANCE <= ask.balance

\* A unit of the quote currency, as evaluate counts it: never less than it is
\* worth, unless it is worth more than one of the account's.
Worth(s) == IF QuoteValue[s] > 1000 THEN QuoteValue[s] ELSE 1000

(* An approved trade loses at most max_risk_per_trade_pct of the balance   *)
(* at its stop, and where the quote currency is worth more than the        *)
(* account's (EURGBP, USDCHF in dollars) at most as much more.  No line of *)
(* the code tests that limit: it holds because a size that rounds up to    *)
(* MIN_LOT was at least half of it, and because the default contract is    *)
(* never smaller than the true one.                                        *)
RiskWithinMax ==
    Approved /\ BalanceCovered => Loss <= MaxRiskPct * ask.balance * Worth(ask.sym)

(* max_risk_per_trade_pct as the policy states it, whatever the symbol is  *)
(* quoted in.                                                              *)
RiskWithinPolicy ==
    Approved /\ BalanceCovered => Loss <= MaxRiskPct * ask.balance * 1000

(* No metal trade is vetoed for its size because its contract was taken    *)
(* for a currency's: a watchlist symbol that could be sized is approved.   *)
SizedWhenSizeable ==
    verdict = "vetoed" /\ ask.sym \in Configured /\ ask.stop > 0 /\ ask.reward >= MinRR * ask.stop
        => 2 * Planned(ask) <= ask.stop * Contract[ask.sym]

(* "Lot size so a full stop-out loses ~risk_pct of balance": in the        *)
(* account's currency, within a factor of two either way.                  *)
StopOutLosesRiskPct ==
    Approved /\ ask.balanceRead /\ ask.sym \in Configured =>
        LET plan == Planned(ask) * 1000
        IN  Loss <= 2 * plan /\ plan <= 2 * Loss
=============================================================================
