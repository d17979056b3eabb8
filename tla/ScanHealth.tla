----------------------------- MODULE ScanHealth -----------------------------
(***************************************************************************)
(* The scan pass and the health check that follows it: Runtime.scan_once   *)
(* walks the (symbol, timeframe) pairs, _scan_symbol skips a gated pair or *)
(* fetches its candles, HealthMonitor counts passes without any answer and *)
(* decides whether to send an alert.                                       *)
(*                                                                         *)
(* Time is counted in scan intervals.  A pass is short unless a fetch      *)
(* hangs: the thread that scans is also the one that checks the health.    *)
(***************************************************************************)
EXTENDS Integers, FiniteSets

CONSTANTS Pairs,        \* 1 .. n: (symbol, timeframe) pairs in the order of the scan
          Cooldown,     \* cooldown_hours, in scan intervals
          AlertGap,     \* alert_cooldown_sec, in scan intervals
          Threshold,    \* error_alert_threshold
          StaleFactor,  \* stale_scan_factor
          MaxNews       \* bound: news windows

PairsAssumption == Pairs = 1 .. Cardinality(Pairs) /\ Pairs # {}
TimesAssumption ==
    /\ Cooldown \in Nat \ {0} /\ AlertGap \in Nat \ {0}
    /\ Threshold \in Nat \ {0} /\ StaleFactor \in Nat \ {0}
    /\ MaxNews \in Nat

VARIABLES
  down,        \* pairs whose feed does not answer
  news,        \* pairs inside a red-folder window
  windows,     \* how many windows there have been
  at,          \* 0 between passes, else the pair whose turn it is
  fetched,     \* scan_once's fetched > 0
  errors,      \* scan_once's errors > 0
  produced,    \* scan_once's produced is not empty
  data,        \* history: a pair returned candles in this pass (TRUE at boot)
  age,         \* [Pairs -> 0 .. Cooldown] since the pair's last signal
  sinceScan,   \* since the last record_scan
  feedOk,      \* HealthMonitor._feed_ok
  failures,    \* HealthMonitor._consecutive_errors, counted up to Threshold
  sinceAlert   \* since _last_alert, up to AlertGap

vars == <<down, news, windows, at, fetched, errors, produced, data, age,
          sinceScan, feedOk, failures, sinceAlert>>
world == <<down, news, windows>>
pass == <<fetched, errors, produced, data>>
monitor == <<sinceScan, feedOk, failures, sinceAlert>>

Last == Cardinality(Pairs)
Capped(n, cap) == IF n < cap THEN n ELSE cap

-----------------------------------------------------------------------------
(* scan_once and _scan_symbol *)

StartPass == /\ at = 0
             /\ at' = 1
             /\ fetched' = FALSE /\ errors' = FALSE /\ produced' = FALSE /\ data' = FALSE
             /\ UNCHANGED <<world, age, monitor>>

Scanning == at \in Pairs /\ at' = at + 1 /\ UNCHANGED <<world, monitor>>

\* Wrong on purpose: the cooldown is never over.
Gated_ForEver(p) == age[p] <= Cooldown \/ p \in news

\* Cooldown and blackout (the session and spread gates are like the blackout):
\* None before anything is fetched, which scan_once counts as fetched.
Gated(p) == age[p] < Cooldown \/ p \in news

SkipPair == /\ Scanning /\ Gated(at)
            /\ fetched' = TRUE
            /\ UNCHANGED <<errors, produced, data, age>>

FetchFails == /\ Scanning /\ ~Gated(at) /\ at \in down
              /\ errors' = TRUE
              /\ UNCHANGED <<fetched, produced, data, age>>

FindNothing == /\ Scanning /\ ~Gated(at) /\ at \notin down
               /\ fetched' = TRUE /\ data' = TRUE
               /\ UNCHANGED <<errors, produced, age>>

FindSignal == /\ Scanning /\ ~Gated(at) /\ at \notin down
              /\ fetched' = TRUE /\ data' = TRUE /\ produced' = TRUE
              /\ age' = [age EXCEPT ![at] = 0]
              /\ UNCHANGED errors

\* The candles came; the pipeline, the notifier or the order raises, before or
\* after the signal is journalled.
ScanRaises == /\ Scanning /\ ~Gated(at) /\ at \notin down
              /\ errors' = TRUE /\ data' = TRUE
              /\ age' \in {age, [age EXCEPT ![at] = 0]}
              /\ UNCHANGED <<fetched, produced>>

\* A fetch hangs for an interval: time passes, the thread does not move.
Hang == /\ at \in Pairs
        /\ sinceScan < StaleFactor + 1
        /\ sinceScan' = sinceScan + 1
        /\ age' = [p \in Pairs |-> Capped(age[p] + 1, Cooldown)]
        /\ sinceAlert' = Capped(sinceAlert + 1, AlertGap)
        /\ UNCHANGED <<world, at, pass, feedOk, failures>>

-----------------------------------------------------------------------------
(* HealthMonitor *)

\* record_scan
Failures == IF errors /\ ~produced /\ ~fetched THEN Capped(failures + 1, Threshold) ELSE 0

\* snapshot, without the disk: record_scan has just set sinceScan to 0.
Status(since, ok, n) ==
    IF since > StaleFactor THEN "FAILED"
    ELSE IF n >= Threshold \/ ~ok THEN "DEGRADED"
    ELSE "HEALTHY"

\* should_alert
Alerts == Status(0, feedOk', failures') # "HEALTHY" /\ sinceAlert >= AlertGap

\* record_scan, snapshot and should_alert at the end of a pass, then the rest
\* of the scan interval goes by.
EndPass == /\ at = Last + 1
           /\ at' = 0
           /\ feedOk' = fetched
           /\ failures' = Failures
           /\ sinceAlert' = IF Alerts THEN 0 ELSE Capped(sinceAlert + 1, AlertGap)
           /\ sinceScan' = 0
           /\ age' = [p \in Pairs |-> Capped(age[p] + 1, Cooldown)]
           /\ UNCHANGED <<world, pass>>

FeedChanges == /\ at = 0
               /\ down' \in SUBSET Pairs
               /\ UNCHANGED <<news, windows, at, pass, age, monitor>>

NewsStarts == /\ at = 0 /\ windows < MaxNews /\ news = {}
              /\ news' \in SUBSET Pairs
              /\ windows' = windows + 1
              /\ UNCHANGED <<down, at, pass, age, monitor>>

NewsEnds == /\ at = 0 /\ news # {}
            /\ news' = {}
            /\ UNCHANGED <<down, windows, at, pass, age, monitor>>

Init == /\ down = {} /\ news = {} /\ windows = 0
        /\ at = 0
        /\ fetched = FALSE /\ errors = FALSE /\ produced = FALSE /\ data = TRUE
        /\ age = [p \in Pairs |-> Cooldown]
        /\ sinceScan = 0 /\ feedOk = TRUE /\ failures = 0 /\ sinceAlert = AlertGap

ScanPair == SkipPair \/ FetchFails \/ FindNothing \/ FindSignal \/ ScanRaises

Next == \/ StartPass \/ SkipPair \/ FetchFails \/ FindNothing \/ FindSignal
        \/ ScanRaises \/ Hang \/ EndPass
        \/ FeedChanges \/ NewsStarts \/ NewsEnds

Spec == Init /\ [][Next]_vars

\* The loop keeps running and a fetch that does not hang for ever returns; a
\* news window ends.
Fairness == /\ WF_vars(StartPass) /\ WF_vars(ScanPair) /\ WF_vars(EndPass)
            /\ SF_vars(NewsEnds)
FairSpec == Spec /\ Fairness

-----------------------------------------------------------------------------
TypeOK == /\ down \subseteq Pairs /\ news \subseteq Pairs /\ windows \in 0 .. MaxNews
          /\ at \in 0 .. Last + 1
          /\ {fetched, errors, produced, data, feedOk} \subseteq BOOLEAN
          /\ age \in [Pairs -> 0 .. Cooldown]
          /\ sinceScan \in 0 .. StaleFactor + 1
          /\ failures \in 0 .. Threshold
          /\ sinceAlert \in 0 .. AlertGap

(* Consecutive failures are counted exactly while the last pass got no     *)
(* answer from any pair, so a pass that got one starts the count again.    *)
FailuresMeanNoFeed == failures > 0 <=> ~feedOk

(* A feed that stays dead is alerted: gates, cooldowns and the rate limit  *)
(* of the alerts only delay it.                                            *)
DeadFeedIsAlerted == (down = Pairs) ~> (down # Pairs \/ sinceAlert < AlertGap)

(* feed_ok means that "at least one symbol/TF returned data this pass".    *)
FeedOkMeansData == at = 0 /\ feedOk => data

(* A stalled scan loop is one of the failures this layer catches.          *)
StallIsAlerted == (sinceScan > StaleFactor) ~> (sinceAlert < AlertGap)
=============================================================================
