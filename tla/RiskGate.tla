------------------------------ MODULE RiskGate ------------------------------
(***************************************************************************)
(* RiskEngine.evaluate as the gate before every order of trade mode, with  *)
(* the account state _live_account_state hands it: the broker's positions, *)
(* each counted as one risk unit, and the realised R of executed trades.   *)
(*                                                                         *)
(* The book and the journal are not in step.  The terminal ends a position *)
(* at its stop or target at once; the row is closed by the next            *)
(* check_outcomes, up to 300 s later, and buttons are served in between.   *)
(* _close writes the row first, and its call to the broker may fail.       *)
(*                                                                         *)
(* Time is what ages the closed trades: the windows of realized_r (24 h,   *)
(* 7 days) slide over the results, newest first.  consecutive_losses has   *)
(* no window.  Lots, stops and RR are in PositionSizing.                   *)
(***************************************************************************)
EXTENDS Integers, Sequences, FiniteSets

CONSTANTS Symbols,      \* the watchlist
          Market,       \* [Symbols -> Markets]: configs/symbols.yaml
          Groups,       \* correlation_groups: sets of symbols
          Tickets,      \* ids of broker positions
          RiskPct,      \* risk_per_trade_pct
          MaxOpen,      \* maximum_open_trades
          MaxHeat,      \* maximum_portfolio_heat_pct
          MaxExposure,  \* [Markets -> Nat]: max_exposure_pct
          DailyLimit,   \* daily_loss_limit_pct
          WeeklyLimit,  \* weekly_loss_limit_pct
          MaxStreak,    \* max_consecutive_losses, > 0
          Results,      \* result_r of closed trades
          MaxWeek,      \* bound: executed trades closed within a week
          MaxUnbooked   \* bound: trades that ended and are not yet journalled

Markets == {"forex", "commodity"}
Directions == {"BUY", "SELL"}
Position == [ticket : Tickets, sym : Symbols, dir : Directions]

ASSUME MarketsAssumption ==
    Market \in [Symbols -> Markets] /\ Groups \subseteq SUBSET Symbols
ASSUME CapsAssumption ==
    /\ RiskPct \in Nat \ {0} /\ MaxOpen \in Nat \ {0} /\ MaxHeat \in Nat
    /\ MaxExposure \in [Markets -> Nat]
ASSUME LocksAssumption ==
    DailyLimit \in Nat /\ WeeklyLimit \in Nat /\ MaxStreak \in Nat \ {0}
ASSUME BoundsAssumption ==
    Results \subseteq Int /\ MaxWeek \in Nat /\ MaxUnbooked \in Nat

VARIABLES
  open,     \* set of Position: what broker.positions() holds
  booked,   \* those of open whose row is closed: broker.close has failed
  unbooked, \* trades that ended at the terminal and whose row is not closed yet
  closed,   \* results of executed trades closed within the week, newest first
  inDay,    \* how many of them closed within the last 24 h
  streak,   \* what consecutive_losses(executed_only=True) counts
  blind,    \* history: an order passed while positions() could not be read
  behind    \* history: the most trades unbooked when an order was approved

book == <<open, booked, unbooked>>
journal == <<closed, inDay, streak>>
vars == <<book, journal, blind, behind>>

-----------------------------------------------------------------------------
(* RiskEngine.evaluate *)

SumR(n) == LET sum[i \in 0 .. n] == IF i = 0 THEN 0 ELSE sum[i - 1] + closed[i]
           IN  sum[n]
TodayPct == SumR(inDay) * RiskPct
WeekPct == SumR(Len(closed)) * RiskPct

Unlocked == /\ TodayPct > -DailyLimit
            /\ WeekPct > -WeeklyLimit
            /\ streak < MaxStreak

InMarket(m, ps) == {p \in ps : Market[p.sym] = m}
Peers(s) == (UNION {g \in Groups : s \in g}) \ {s}

\* Wrong on purpose: the market of the symbol has no cap of its own.
WithinCaps_AnyMarket(s, ps) ==
    /\ Cardinality(ps) < MaxOpen
    /\ (Cardinality(ps) + 1) * RiskPct <= MaxHeat

WithinCaps(s, ps) ==
    /\ Cardinality(ps) < MaxOpen
    /\ (Cardinality(ps) + 1) * RiskPct <= MaxHeat
    /\ (Cardinality(InMarket(Market[s], ps)) + 1) * RiskPct <= MaxExposure[Market[s]]

Uncorrelated(s, d, ps) == \A p \in ps : ~(p.sym \in Peers(s) /\ p.dir = d)

\* Wrong on purpose: the streak is not looked at.
Approved_NoStreak(s, d, ps) ==
    /\ TodayPct > -DailyLimit /\ WeekPct > -WeeklyLimit
    /\ WithinCaps(s, ps) /\ Uncorrelated(s, d, ps)

Approved(s, d, ps) == Unlocked /\ WithinCaps(s, ps) /\ Uncorrelated(s, d, ps)

-----------------------------------------------------------------------------
\* execute_signal or _scan_symbol: the gate, then the fill.
Enter(s, d, ps) ==
    /\ Approved(s, d, ps)
    /\ \E k \in Tickets :
         /\ \A p \in open : p.ticket # k
         /\ open' = open \cup {[ticket |-> k, sym |-> s, dir |-> d]}
    /\ behind' = IF unbooked > behind THEN unbooked ELSE behind
    /\ UNCHANGED <<booked, unbooked, journal>>

Order == \E s \in Symbols, d \in Directions : Enter(s, d, open) /\ UNCHANGED blind

\* broker.positions() raises: _broker_positions returns no positions at all.
OrderBlind == \E s \in Symbols, d \in Directions :
    Enter(s, d, {}) /\ blind' = TRUE

\* Losses extend the streak, wins end it, a close near zero is skipped.
NextStreak(r) == IF r < 0 THEN streak + 1 ELSE IF r > 0 THEN 0 ELSE streak

\* close_signal: the row of an executed trade is closed with r.
BookResult(r) == /\ Len(closed) < MaxWeek
                 /\ closed' = <<r>> \o closed
                 /\ inDay' = inDay + 1
                 /\ streak' = NextStreak(r)
                 /\ UNCHANGED <<blind, behind>>

\* Stop or target is hit at the terminal; check_outcomes has yet to see it.
TerminalEnds == \E p \in open :
    /\ open' = open \ {p}
    /\ \/ p \in booked /\ booked' = booked \ {p} /\ UNCHANGED unbooked
       \/ /\ p \notin booked /\ unbooked < MaxUnbooked
          /\ unbooked' = unbooked + 1 /\ UNCHANGED booked
    /\ UNCHANGED <<journal, blind, behind>>

\* check_outcomes sees the bar that ended the trade.
BookEnded == /\ unbooked > 0 /\ unbooked' = unbooked - 1
             /\ \E r \in Results : BookResult(r)
             /\ UNCHANGED <<open, booked>>

\* _close of a trade that is still open (TP3, stale, early exit, a stop the bar
\* has crossed): the row, then broker.close, which _broker_op lets fail.
CloseTrade == \E p \in open \ booked, r \in Results :
    /\ BookResult(r)
    /\ \/ open' = open \ {p} /\ UNCHANGED booked
       \/ booked' = booked \cup {p} /\ UNCHANGED open
    /\ UNCHANGED unbooked

\* The oldest result of the day is 24 h old; the oldest of the week 7 days.
DayPasses == /\ inDay > 0
             /\ inDay' = inDay - 1
             /\ UNCHANGED <<book, closed, streak, blind, behind>>

WeekPasses == /\ Len(closed) > inDay
              /\ closed' = SubSeq(closed, 1, Len(closed) - 1)
              /\ UNCHANGED <<book, inDay, streak, blind, behind>>

Init == /\ open = {} /\ booked = {} /\ unbooked = 0
        /\ closed = <<>> /\ inDay = 0 /\ streak = 0
        /\ blind = FALSE /\ behind = 0

Next == \/ Order \/ OrderBlind
        \/ TerminalEnds \/ BookEnded \/ CloseTrade
        \/ DayPasses \/ WeekPasses

Spec == Init /\ [][Next]_vars

\* Signals keep coming and are tried, trades end, time passes.
Fairness == /\ WF_vars(Order) /\ WF_vars(BookEnded)
            /\ WF_vars(TerminalEnds \/ CloseTrade)
            /\ WF_vars(DayPasses) /\ WF_vars(WeekPasses)
FairSpec == Spec /\ Fairness

-----------------------------------------------------------------------------
TypeOK == /\ open \subseteq Position /\ booked \subseteq open
          /\ unbooked \in 0 .. MaxUnbooked /\ behind \in 0 .. MaxUnbooked
          /\ closed \in Seq(Results) /\ Len(closed) <= MaxWeek
          /\ inDay \in 0 .. Len(closed)
          /\ streak \in Nat
          /\ blind \in BOOLEAN

(* The caps of risk.yaml hold of the book, not only of the trade that is   *)
(* asked for: number of positions, heat, exposure per market, and no two   *)
(* correlated symbols in the same direction.                               *)
CountCap(ps) == Cardinality(ps) <= MaxOpen /\ Cardinality(ps) * RiskPct <= MaxHeat
MarketCap(ps) ==
    \A m \in Markets : Cardinality(InMarket(m, ps)) * RiskPct <= MaxExposure[m]
NoDoubledBet(ps) == \A p, q \in ps : q.sym \in Peers(p.sym) => q.dir # p.dir

BookWithinCaps == ~blind => CountCap(open) /\ MarketCap(open) /\ NoDoubledBet(open)

(* A losing run is bounded: the streak lock lets at most MaxStreak - 1     *)
(* losses, the positions open at that moment and the losses the journal    *)
(* had yet to hear of when an order passed add up.  What can still become  *)
(* a loss: positions whose row is open, and trades not yet booked.         *)
LosingRunBounded ==
    ~blind => streak + Cardinality(open \ booked) + unbooked < MaxStreak + MaxOpen + behind

(* Without that delay the limit would be exact; TLC refutes it.            *)
LosingRunWithinLimits == ~blind => streak + Cardinality(open) < MaxStreak + MaxOpen

(* The daily lock is lifted again: nothing is added to the day while it is *)
(* locked but the open positions, and those windows slide.                 *)
DayLocked == inDay > 0 /\ TodayPct <= -DailyLimit
DayLockEnds == []<>~DayLocked

(* "No trade may be executed unless approved" against the caps: the book   *)
(* is within them whatever the bridge does.                                *)
CapsAlwaysHold == CountCap(open)

(* max_consecutive_losses is a cooling-off: trading is possible again      *)
(* some time after the streak tripped it.                                  *)
CoolOffEnds == (streak >= MaxStreak) ~> (streak < MaxStreak)
=============================================================================
