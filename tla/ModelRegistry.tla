---------------------------- MODULE ModelRegistry ----------------------------
(***************************************************************************)
(* The life of the probability model on disk: maybe_retrain fits a new     *)
(* model when enough trades have closed, train promotes it if its Brier    *)
(* score is good enough, writes the artifact, prunes old artifacts and     *)
(* writes metrics.json; ProbabilityModel loads the accepted version.       *)
(*                                                                         *)
(* The process may die between any two of these steps, and within a write, *)
(* and a write may fail (a full disk), which maybe_retrain survives with   *)
(* the loaded model in memory.  A file opened for writing is empty until   *)
(* it is written; an unreadable metrics.json reads as {}, like none at     *)
(* all.  Brier scores are in hundredths of the base rate's, smaller is     *)
(* better.  The first batch of closed trades stands for MIN_SAMPLES.       *)
(***************************************************************************)
EXTENDS Integers, FiniteSets

CONSTANTS Keep,       \* _KEEP
          Briers,     \* scores a fit may have
          MaxClosed,  \* bound: batches of RETRAIN_EVERY closed trades
          MaxFaults   \* bound: crashes and failed writes

KeepAssumption == Keep \in Nat \ {0}
ScoresAssumption == Briers \subseteq Nat \ {0} /\ MaxClosed \in Nat /\ MaxFaults \in Nat

VARIABLES
  closed,    \* labelled closed trades, in batches of RETRAIN_EVERY
  meta,      \* metrics.json: last_version, accepted_version, accepted_brier,
             \* last_trained_n; -1 and 0 stand for missing
  files,     \* [versions on disk -> score, or Torn for a half-written file]
  live,      \* ProbabilityModel: the version loaded and its score
  job,       \* the training run in progress and the metrics it will write
  best,      \* history: best score ever accepted
  lostMeta,  \* history: a write of metrics.json was cut short
  faults     \* crashes and failed writes so far

vars == <<closed, meta, files, live, job, best, lostMeta, faults>>

Versions == 0 .. MaxClosed
Torn == 0
NoMeta == [last |-> -1, accepted |-> -1, brier |-> 0, trained |-> 0]
NoJob == [step |-> "idle", meta |-> NoMeta]
Steps == {"idle", "save", "prune", "open", "write"}
NotLoaded == [version |-> -1, brier |-> 0]
Idle == job.step = "idle"

\* metrics["accepted"]: a margin of 2% over the base rate.
BeatsBase(b) == b < 98

\* Wrong on purpose: whatever was fitted is promoted.
Promotes_Any(b) == TRUE

\* ... and not clearly worse than the accepted model.
Promotes(b) == BeatsBase(b) /\ (meta.brier = 0 \/ 10 * b <= 11 * meta.brier)

Smaller(a, b) == IF a < b THEN a ELSE b

-----------------------------------------------------------------------------
TradesClose == /\ closed < MaxClosed
               /\ closed' = closed + 1
               /\ UNCHANGED <<meta, files, live, job, best, lostMeta, faults>>

\* maybe_retrain: due after RETRAIN_EVERY new trades, or when never trained.
Due == closed - meta.trained >= 1 \/ meta.trained = 0

\* train: fit, score, decide.
Train == /\ Idle /\ closed >= 1 /\ Due
         /\ \E b \in Briers :
              LET v == meta.last + 1
              IN  job' = IF Promotes(b)
                         THEN [step |-> "save",
                               meta |-> [last |-> v, accepted |-> v, brier |-> b,
                                         trained |-> closed]]
                         ELSE [step |-> "open",
                               meta |-> [meta EXCEPT !.last = v, !.trained = closed]]
         /\ UNCHANGED <<closed, meta, files, live, best, lostMeta, faults>>

WithFile(v, content) ==
    [w \in DOMAIN files \cup {v} |-> IF w = v THEN content ELSE files[w]]

SaveArtifact == /\ job.step = "save"
                /\ files' = WithFile(job.meta.accepted, job.meta.brier)
                /\ job' = [job EXCEPT !.step = "prune"]
                /\ UNCHANGED <<closed, meta, live, best, lostMeta, faults>>

Newer(v) == {w \in DOMAIN files : w > v}

\* Wrong on purpose: the slice keeps the oldest.
Kept_Oldest == {v \in DOMAIN files : Cardinality({w \in DOMAIN files : w < v}) < Keep}

Kept == {v \in DOMAIN files : Cardinality(Newer(v)) < Keep}

\* _prune
Prune == /\ job.step = "prune"
         /\ files' = [v \in Kept |-> files[v]]
         /\ job' = [job EXCEPT !.step = "open"]
         /\ UNCHANGED <<closed, meta, live, best, lostMeta, faults>>

\* open(metrics.json, "w") empties the file, json.dump fills it.
OpenMetrics == /\ job.step = "open"
               /\ meta' = NoMeta
               /\ job' = [job EXCEPT !.step = "write"]
               /\ UNCHANGED <<closed, files, live, best, lostMeta, faults>>

WriteMetrics == /\ job.step = "write"
                /\ meta' = job.meta
                /\ best' = IF best = 0 THEN job.meta.brier
                           ELSE IF job.meta.brier = 0 THEN best
                           ELSE Smaller(best, job.meta.brier)
                /\ job' = NoJob
                /\ UNCHANGED <<closed, files, live, lostMeta, faults>>

Loadable == /\ meta.accepted >= 0 /\ meta.accepted # live.version
            /\ meta.accepted \in DOMAIN files /\ files[meta.accepted] # Torn

\* _refresh, before a prediction: a missing or torn artifact changes nothing.
Refresh == /\ Idle
           /\ live' = IF Loadable
                      THEN [version |-> meta.accepted, brier |-> files[meta.accepted]]
                      ELSE live
           /\ UNCHANGED <<closed, meta, files, job, best, lostMeta, faults>>

\* A step of a training run is cut short: what it was writing is left torn.
CutShort == /\ faults < MaxFaults
            /\ files' = IF job.step = "save" THEN WithFile(job.meta.accepted, Torn) ELSE files
            /\ lostMeta' = (lostMeta \/ job.step = "write")
            /\ job' = NoJob
            /\ faults' = faults + 1
            /\ UNCHANGED <<closed, meta, best>>

\* The process dies and starts again, with no model loaded.
Crash == CutShort /\ live' = NotLoaded

\* A write fails: maybe_retrain logs the exception, the scan loop goes on.
WriteFails == job.step \in {"save", "write"} /\ CutShort /\ UNCHANGED live

Init == /\ closed = 0 /\ meta = NoMeta
        /\ files = [v \in {} |-> 0]
        /\ live = NotLoaded /\ job = NoJob /\ best = 0
        /\ lostMeta = FALSE /\ faults = 0

Next == \/ TradesClose \/ Train \/ SaveArtifact \/ Prune
        \/ OpenMetrics \/ WriteMetrics \/ Refresh
        \/ Crash \/ WriteFails

Spec == Init /\ [][Next]_vars

-----------------------------------------------------------------------------
Metas == [last : {-1} \cup Versions, accepted : {-1} \cup Versions,
          brier : {0} \cup Briers, trained : 0 .. MaxClosed]
TypeOK == /\ closed \in 0 .. MaxClosed
          /\ meta \in Metas
          /\ DOMAIN files \subseteq Versions
          /\ \A v \in DOMAIN files : files[v] \in {Torn} \cup Briers
          /\ live \in [version : {-1} \cup Versions, brier : {0} \cup Briers]
          /\ job \in [step : Steps, meta : Metas]
          /\ best \in {0} \cup Briers /\ lostMeta \in BOOLEAN
          /\ faults \in 0 .. MaxFaults

(* The accepted version can always be loaded, whatever step of a training  *)
(* run was cut short: its artifact is on disk, whole and with the score it *)
(* was accepted for.  Each torn artifact takes one of the Keep places, so  *)
(* this is only so for fewer than Keep faults; a loss of metrics.json is   *)
(* set apart.                                                              *)
AcceptedIsLoadable ==
    Idle /\ ~lostMeta /\ faults < Keep /\ meta.accepted >= 0 =>
        meta.accepted \in DOMAIN files /\ files[meta.accepted] = meta.brier

(* The model that makes the predictions beats the base rate, also after    *)
(* restarts, torn artifacts and version numbers used twice.                *)
LiveBeatsBase == live.version >= 0 => live.brier < 98

(* At most Keep artifacts stay on disk between training runs, but for one  *)
(* for each run that was cut short before it pruned.                       *)
DiskIsBounded == Idle => Cardinality(DOMAIN files) <= Keep + faults

(* _prune keeps the newest artifacts: the one just accepted is kept.       *)
NewestIsKept == Idle /\ meta.accepted >= 0 => meta.accepted \in DOMAIN files

(* "Never promoting a worse one": the accepted model is at most the stated *)
(* tolerance worse than the best one accepted before it.                   *)
NeverClearlyWorse ==
    ~lostMeta /\ meta.brier # 0 /\ best # 0 => 10 * meta.brier <= 11 * best

(* ProbabilityModel "loads the latest ACCEPTED artifact": when its version *)
(* is the accepted one, so is what it has loaded.                          *)
LoadedIsAccepted ==
    Idle /\ live.version >= 0 /\ live.version = meta.accepted => live.brier = meta.brier
=============================================================================
