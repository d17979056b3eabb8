----------------------------- MODULE Publication -----------------------------
(***************************************************************************)
(* Which journalled signals reach the group: the publish tier, the         *)
(* evidence throttle and the model gate at the end of Runtime._scan_symbol,*)
(* and the evidence behind the throttle (Runtime._refresh_throttle,        *)
(* ai.stats.throttled_strategies).  A closed trade changes the evidence of *)
(* its strategy; the throttle is only looked at again when a scan starts.  *)
(*                                                                         *)
(* A strategy's result is counted in units of R and saturates at Cap, its  *)
(* number of trades at MinN: beyond that they decide nothing.              *)
(***************************************************************************)
EXTENDS Integers, FiniteSets

CONSTANTS Strategies,   \* strategy names
          MinN,         \* throttle_min_n
          Cap           \* bound: |sum of R| of a strategy

MinNAssumption == MinN \in Nat \ {0} /\ Cap \in Nat \ {0}

VARIABLES
  trades,      \* [Strategies -> 0 .. MinN]: closed trades
  sumR,        \* [Strategies -> -Cap .. Cap]: their R
  open,        \* strategies with an open journal row
  throttle,    \* Runtime._throttle
  scanning,    \* inside scan_once
  blind,       \* history: the journal could not be read when this scan began
  published    \* history: strategies published in this scan

vars == <<trades, sumR, open, throttle, scanning, blind, published>>

Clip(x) == IF x > Cap THEN Cap ELSE IF x < -Cap THEN -Cap ELSE x

-----------------------------------------------------------------------------
\* throttled_strategies: enough trades and a negative average.
Losers == {s \in Strategies : trades[s] >= MinN /\ sumR[s] < 0}

Init == /\ trades = [s \in Strategies |-> 0]
        /\ sumR = [s \in Strategies |-> 0]
        /\ open = {} /\ throttle = {} /\ published = {}
        /\ scanning = FALSE /\ blind = FALSE

\* Wrong on purpose: the throttle of the previous scan is used.
StartScan_Stale == /\ ~scanning /\ scanning' = TRUE
                   /\ published' = {} /\ blind' = FALSE
                   /\ UNCHANGED <<trades, sumR, open, throttle>>

\* _refresh_throttle: if closed_rows raises, nothing is throttled.
StartScan == /\ ~scanning /\ scanning' = TRUE
             /\ published' = {}
             /\ blind' \in BOOLEAN
             /\ throttle' = IF blind' THEN {} ELSE Losers
             /\ UNCHANGED <<trades, sumR, open>>

\* Wrong on purpose: a throttled signal is not journalled.
Signal_NotJournalled(s) ==
    /\ scanning /\ s \notin open /\ s \notin throttle
    /\ open' = open \cup {s}
    /\ \E topTier, gated \in BOOLEAN :
         published' = IF topTier /\ ~gated THEN published \cup {s} ELSE published
    /\ UNCHANGED <<trades, sumR, throttle, scanning, blind>>

\* Every signal is journalled; it is published if it is in the top tier, its
\* strategy is not throttled and the model, in gate mode, does not object.
Signal(s) ==
    /\ scanning /\ s \notin open
    /\ open' = open \cup {s}
    /\ \E topTier, gated \in BOOLEAN :
         published' = IF topTier /\ s \notin throttle /\ ~gated
                      THEN published \cup {s} ELSE published
    /\ UNCHANGED <<trades, sumR, throttle, scanning, blind>>

EndScan == /\ scanning /\ scanning' = FALSE
           /\ UNCHANGED <<trades, sumR, open, throttle, blind, published>>

\* check_outcomes, between scans: shadow or published, a trade counts the same.
CloseTrade(s, r) ==
    /\ ~scanning /\ s \in open
    /\ open' = open \ {s}
    /\ trades' = [trades EXCEPT ![s] = IF @ < MinN THEN @ + 1 ELSE @]
    /\ sumR' = [sumR EXCEPT ![s] = Clip(@ + r)]
    /\ UNCHANGED <<throttle, scanning, blind, published>>

Win(s) == CloseTrade(s, 1)
Lose(s) == CloseTrade(s, -1)

Next == \/ StartScan \/ EndScan
        \/ \E s \in Strategies : Signal(s) \/ Win(s) \/ Lose(s)
Spec == Init /\ [][Next]_vars

\* The loop keeps scanning and polling, a strategy keeps finding setups (SF: only
\* during scans), and its trades get closed.
Fairness == /\ WF_vars(StartScan) /\ WF_vars(EndScan)
            /\ \A s \in Strategies : /\ SF_vars(Signal(s))
                                     /\ SF_vars(Win(s) \/ Lose(s))
FairSpec == Spec /\ Fairness

-----------------------------------------------------------------------------
(* Strategies with proven negative expectancy are publish-blocked: nothing *)
(* a scan publishes belongs to a strategy that the closed trades, as they  *)
(* are at that moment, have proven a loser, unless they could not be read. *)
NoProvenLoserPublished == scanning /\ ~blind => published \cap Losers = {}

(* "It can earn its way back": a strategy whose trades only win from some  *)
(* point on does not stay throttled, because the shadow book keeps         *)
(* counting what the group does not see.                                   *)
EarnsItsWayBack == \A s \in Strategies :
    (<>[][~Lose(s)]_vars) => []<>(s \notin throttle)
=============================================================================
