------------------------------- MODULE Metrics -------------------------------
(***************************************************************************)
(* The performance figures of the live book (ai.stats.portfolio_metrics)   *)
(* and of the backtest (backtest.metrics.compute_metrics): pure functions  *)
(* of a list of results, here the rows Journal.closed_rows reads from a    *)
(* journal whose trades close in any order.  Results are integers (tenths  *)
(* of an R); ratios are compared without being divided; the rounding, the  *)
(* Sharpe ratios and the plain sums of the report are left out.            *)
(***************************************************************************)
EXTENDS Integers, Sequences, SequencesExt

CONSTANTS Results,    \* results a trade can have
          MaxTrades   \* bound: rows younger than the window of the report

ResultsAssumption == Results \subseteq Int /\ MaxTrades \in Nat

\* The signals table in journal (id) order.  at is the place of closed_at in
\* the closing order, 0 while the trade is live; r is result_r (0 while live).
VARIABLE rows

Larger(a, b) == IF a > b THEN a ELSE b
Smaller(a, b) == IF a < b THEN a ELSE b
Total(s) == FoldLeft(LAMBDA a, b : a + b, 0, s)
Closed == SelectSeq(rows, LAMBDA row : row.at > 0)

\* closed_rows() has no ORDER BY: the rows come in the order of their ids.
rs == [k \in 1 .. Len(Closed) |-> Closed[k].r]
Wins == SelectSeq(rs, LAMBDA r : r > 0)
Losses == SelectSeq(rs, LAMBDA r : r < 0)

-----------------------------------------------------------------------------
\* portfolio_metrics: one step of the equity curve.
Walk(acc, r) ==
    LET eq == acc.eq + r
        peak == Larger(acc.peak, eq)
    IN  [eq |-> eq, peak |-> peak, dd |-> Larger(acc.dd, peak - eq)]
LiveDrawdown == FoldLeft(Walk, [eq |-> 0, peak |-> 0, dd |-> 0], rs).dd

\* _max_drawdown of the backtest: over the cumulative curve, negative.
Curve(s) == [i \in 1 .. Len(s) |-> Total(SubSeq(s, 1, i))]
Fall(acc, x) ==
    LET peak == Larger(acc.peak, x)
    IN  [peak |-> peak, dd |-> Smaller(acc.dd, x - peak)]
TestDrawdown == FoldLeft(Fall, [peak |-> 0, dd |-> 0], Curve(rs)).dd

\* kelly > 0: W > (1 - W) / payoff, where everything that is not a win counts
\* in 1 - W and the payoff is average win over average loss.
KellyPositive ==
    /\ Wins # <<>> /\ Losses # <<>>
    /\ Total(Wins) * Len(Losses) > (Len(rs) - Len(Wins)) * (0 - Total(Losses))

-----------------------------------------------------------------------------
Init == rows = <<>>

Signal == Len(rows) < MaxTrades /\ rows' = Append(rows, [r |-> 0, at |-> 0])

\* close_signal: result_r and closed_at are written together.
CloseTrade ==
    \E i \in DOMAIN rows, r \in Results :
        /\ rows[i].at = 0
        /\ rows' = [rows EXCEPT ![i] = [r |-> r, at |-> Len(Closed) + 1]]

\* The window of closed_rows(days) moves past the oldest closing time.
AgeOut ==
    \E i \in DOMAIN rows :
        /\ rows[i].at = 1
        /\ LET rest == RemoveAt(rows, i)
           IN  rows' = [k \in DOMAIN rest |->
                          [rest[k] EXCEPT !.at = Larger(0, @ - 1)]]

Next == Signal \/ CloseTrade \/ AgeOut
Spec == Init /\ [][Next]_rows

-----------------------------------------------------------------------------
\* The largest fall of the equity curve of s, its start at 0 included.
IsWorstFall(d, s) ==
    LET points == <<0>> \o Curve(s)
        pairs == {p \in (DOMAIN points) \X (DOMAIN points) : p[1] <= p[2]}
    IN  /\ \E p \in pairs : d = points[p[1]] - points[p[2]]
        /\ \A p \in pairs : points[p[1]] - points[p[2]] <= d

(* Both books report the same drawdown for the same list, and it is what   *)
(* the word says: the largest fall from any point of the curve, its start  *)
(* at 0 included, to any later point (portfolio_metrics, _max_drawdown).   *)
DrawdownIsWorstFall ==
    IsWorstFall(LiveDrawdown, rs) /\ TestDrawdown = 0 - LiveDrawdown

(* The Kelly share is only above zero for a book that has made money: the  *)
(* breakeven trades, which are neither wins nor losses, cannot turn it.    *)
KellyNeedsAnEdge == KellyPositive => Total(rs) > 0

(* The maximum drawdown of the weekly report is that of the equity curve:  *)
(* of the results in the order in which the trades were closed.            *)
DrawdownOfEquityCurve ==
    LET InClosingOrder(k) == CHOOSE row \in {rows[i] : i \in DOMAIN rows} : row.at = k
    IN  IsWorstFall(LiveDrawdown, [k \in 1 .. Len(Closed) |-> InClosingOrder(k).r])
=============================================================================
