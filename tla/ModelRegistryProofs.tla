------------------------- MODULE ModelRegistryProofs -------------------------
(***************************************************************************)
(* Proofs about ModelRegistry, for every Keep, set of scores and number of *)
(* faults: no model that fails to beat the base rate is ever loaded, and   *)
(* while fewer than Keep steps were cut short the accepted one can be.     *)
(***************************************************************************)
EXTENDS MCLearning, FiniteSetTheorems, TLAPS

VersionOrNone == {-1} \cup Nat
Records == [last : VersionOrNone, accepted : VersionOrNone, brier : Nat, trained : Nat]

(* The part of the types the proofs use.                                   *)
Typed == /\ closed \in Nat /\ faults \in Nat /\ lostMeta \in BOOLEAN
         /\ meta \in Records
         /\ job \in [step : Registry!Steps, meta : Records]
         /\ files \in [DOMAIN files -> Nat]
         /\ DOMAIN files \subseteq Nat /\ IsFiniteSet(DOMAIN files)

(* Every artifact was fitted to beat the base rate, or is torn.            *)
Beating == /\ \A v \in DOMAIN files : files[v] < 98
           /\ job.step = "save" => job.meta.brier < 98 /\ job.meta.accepted \in Nat
           /\ Registry!LiveBeatsBase

\* m's accepted version is on disk with the score m says; how many files are newer.
Whole(m) == m.accepted >= 0 => m.accepted \in DOMAIN files /\ files[m.accepted] = m.brier
Ahead(m) == Cardinality(Registry!Newer(m.accepted))
Upto(n) == \A v \in DOMAIN files : v <= n

(* While metrics.json has not been lost, each file newer than the accepted *)
(* one is there for a fault, but for the one of the run in progress: so    *)
(* the slice of _prune reaches down to the accepted one.                   *)
Stored ==
    /\ job.step \in {"idle", "save"} =>
         Ahead(meta) <= faults /\ (faults < Keep => Whole(meta))
    /\ job.step = "prune" =>
         Ahead(meta) <= faults + 1 /\ (faults < Keep => Whole(meta)) /\ Whole(job.meta)
    /\ job.step = "open" =>
         Ahead(meta) <= faults + 1 /\ (faults + 1 < Keep => Whole(meta))
    /\ job.step \in {"open", "write"} =>
         Ahead(job.meta) <= faults /\ (faults < Keep => Whole(job.meta))
    /\ job.step # "write" => Upto(meta.last + 1) /\ meta.accepted <= meta.last
    /\ job.step # "idle" => Upto(job.meta.last) /\ job.meta.accepted <= job.meta.last
    /\ job.step \in {"save", "prune", "open"} => job.meta.last = meta.last + 1
    /\ job.step \in {"save", "prune"} => job.meta.accepted = job.meta.last

RegistryInv == Typed /\ Beating /\ (~lostMeta => Stored)

-----------------------------------------------------------------------------
\* The instance's own copy of Cardinality.
LEMMA SameCount == \A S : Registry!Cardinality(S) = Cardinality(S)
  BY DEF Registry!Cardinality, Cardinality

LEMMA InitRegistry == Registry!Init => RegistryInv
<1> SUFFICES ASSUME Registry!Init PROVE RegistryInv
  OBVIOUS
<1>1. DOMAIN files = {} /\ files \in [{} -> Nat]
  BY DEF Registry!Init
<1>2. Registry!NoMeta \in Records /\ Registry!Newer(-1) = {} /\ Cardinality({}) = 0 /\ IsFiniteSet({})
  BY <1>1, FS_EmptySet DEF Registry!NoMeta, Records, VersionOrNone, Registry!Newer
<1>3. Typed
  BY <1>1, <1>2 DEF Registry!Init, Typed, Registry!NoJob, Registry!Steps
<1>4. Beating
  BY <1>1 DEF Registry!Init, Beating, Registry!NoJob, Registry!NotLoaded, Registry!LiveBeatsBase
<1>5. Stored
  <2>1. /\ meta = Registry!NoMeta /\ job.step = "idle" /\ faults = 0
        /\ Registry!NoMeta.accepted = -1 /\ Registry!NoMeta.last = -1
    BY DEF Registry!Init, Registry!NoJob, Registry!NoMeta
  <2>2. Ahead(meta) = 0 /\ Whole(meta)
    BY <1>2, <2>1 DEF Ahead, Whole
  <2>3. Upto(meta.last + 1)
    BY <1>1 DEF Upto
  <2> QED BY <2>1, <2>2, <2>3 DEF Stored
<1> QED BY <1>3, <1>4, <1>5 DEF RegistryInv

\* A file more or fewer, and what is newer than a version.
LEMMA FileFacts ==
    ASSUME Typed, NEW a \in VersionOrNone, NEW v \in Nat, NEW c \in Nat
    PROVE  /\ Cardinality(Registry!Newer(a)) \in Nat
           /\ Registry!WithFile(v, c) \in [DOMAIN files \cup {v} -> Nat]
           /\ IsFiniteSet(DOMAIN files \cup {v})
           /\ Cardinality({w \in DOMAIN files \cup {v} : w > a}) <= Cardinality(Registry!Newer(a)) + 1
<1>1. IsFiniteSet(Registry!Newer(a)) /\ Cardinality(Registry!Newer(a)) \in Nat
  BY FS_Subset, FS_CardinalityType DEF Typed, Registry!Newer
<1>2. /\ IsFiniteSet(Registry!Newer(a) \cup {v})
      /\ Cardinality(Registry!Newer(a) \cup {v}) <= Cardinality(Registry!Newer(a)) + 1
  <2>1. PICK N : N = Registry!Newer(a)
    OBVIOUS
  <2>2. IsFiniteSet(N)
    BY <1>1, <2>1
  <2>3. IsFiniteSet(N \cup {v})
    BY <2>2, FS_AddElement
  <2>4. Cardinality(N) \in Nat /\ (Cardinality(N \cup {v}) = Cardinality(N)
                                    \/ Cardinality(N \cup {v}) = Cardinality(N) + 1)
    BY <1>1, <2>1, <2>2, FS_AddElement
  <2>5. Cardinality(N \cup {v}) <= Cardinality(N) + 1
    BY <2>4
  <2> QED BY <2>1, <2>3, <2>5
<1>3. {w \in DOMAIN files \cup {v} : w > a} \in SUBSET (Registry!Newer(a) \cup {v})
  BY DEF Registry!Newer
<1>4. /\ IsFiniteSet({w \in DOMAIN files \cup {v} : w > a})
      /\ Cardinality({w \in DOMAIN files \cup {v} : w > a}) <= Cardinality(Registry!Newer(a) \cup {v})
  BY <1>2, <1>3, FS_Subset
<1>5. /\ Cardinality({w \in DOMAIN files \cup {v} : w > a}) \in Nat
      /\ Cardinality(Registry!Newer(a) \cup {v}) \in Nat
  BY <1>2, <1>4, FS_CardinalityType
<1>6. Registry!WithFile(v, c) \in [DOMAIN files \cup {v} -> Nat]
  BY DEF Registry!WithFile, Typed
<1>7. IsFiniteSet(DOMAIN files \cup {v})
  BY FS_AddElement DEF Typed
<1> QED BY <1>1, <1>2, <1>4, <1>5, <1>6, <1>7

LEMMA FewerFacts ==
    ASSUME Typed, NEW a \in VersionOrNone, NEW D \in SUBSET DOMAIN files
    PROVE  /\ IsFiniteSet(D)
           /\ Cardinality({w \in D : w > a}) \in Nat
           /\ Cardinality({w \in D : w > a}) <= Cardinality(Registry!Newer(a))
<1>1. IsFiniteSet(Registry!Newer(a)) /\ IsFiniteSet(D)
  BY FS_Subset DEF Typed, Registry!Newer
<1>2. {w \in D : w > a} \in SUBSET Registry!Newer(a)
  BY DEF Registry!Newer
<1> QED BY <1>1, <1>2, FS_Subset, FS_CardinalityType

-----------------------------------------------------------------------------
\* A training run starts: nothing is written yet.
LEMMA TrainKeeps == ASSUME RegistryInv, Registry!Train PROVE RegistryInv'
<1> USE DEF RegistryInv
<1> DEFINE v == meta.last + 1
<1>1. Registry!Idle /\ UNCHANGED <<closed, meta, files, live, lostMeta, faults>>
  BY DEF Registry!Train
<1>2. PICK b \in Briers :
        job' = IF Registry!Promotes(b)
               THEN [step |-> "save",
                     meta |-> [last |-> v, accepted |-> v, brier |-> b, trained |-> closed]]
               ELSE [step |-> "open",
                     meta |-> [meta EXCEPT !.last = v, !.trained = closed]]
  BY DEF Registry!Train
<1>3. /\ v \in Nat /\ b \in Nat /\ closed \in Nat
      /\ meta.accepted \in VersionOrNone /\ meta.brier \in Nat
  BY LearningAssumption DEF Registry!ScoresAssumption, Typed, Records, VersionOrNone
<1>4. meta = [last |-> meta.last, accepted |-> meta.accepted,
              brier |-> meta.brier, trained |-> meta.trained]
  BY DEF Typed, Records
<1>5. \/ /\ job'.step = "save" /\ job'.meta.brier < 98
         /\ job'.meta.accepted = v /\ job'.meta.last = v
      \/ /\ job'.step = "open" /\ job'.meta.last = v
         /\ job'.meta.accepted = meta.accepted /\ job'.meta.brier = meta.brier
  <2>1. CASE Registry!Promotes(b)
    BY <1>2, <2>1 DEF Registry!Promotes, Registry!BeatsBase
  <2>2. CASE ~Registry!Promotes(b)
    <3>1. job' = [step |-> "open",
                  meta |-> [last |-> v, accepted |-> meta.accepted,
                            brier |-> meta.brier, trained |-> closed]]
      BY <1>2, <1>4, <2>2
    <3> QED BY <3>1
  <2> QED BY <2>1, <2>2
<1>6. job' \in [step : Registry!Steps, meta : Records]
  <2>1. CASE Registry!Promotes(b)
    BY <1>2, <1>3, <2>1 DEF Records, VersionOrNone, Registry!Steps
  <2>2. CASE ~Registry!Promotes(b)
    BY <1>2, <1>3, <1>4, <2>2 DEF Records, VersionOrNone, Registry!Steps
  <2> QED BY <2>1, <2>2
<1>7. Typed'
  BY <1>1, <1>6 DEF Typed
<1>8. Beating'
  BY <1>1, <1>3, <1>5 DEF Beating, Registry!LiveBeatsBase
<1>9. ~lostMeta => Stored'
  <2> SUFFICES ASSUME ~lostMeta PROVE Stored'
    OBVIOUS
  <2>1. /\ Ahead(meta) <= faults /\ (faults < Keep => Whole(meta))
        /\ Upto(v) /\ meta.accepted <= meta.last
    BY <1>1 DEF Stored, Registry!Idle
  <2>2. /\ meta' = meta /\ files' = files /\ faults' = faults
        /\ faults \in Nat /\ Keep \in Nat
    BY <1>1, LearningAssumption DEF Registry!KeepAssumption, Typed
  <2>3. Ahead(meta) \in Nat
    BY <1>3, FileFacts DEF Ahead
  <2>4. CASE job'.step = "save"
    BY <1>3, <1>5, <2>1, <2>2, <2>4 DEF Stored, Upto, Ahead, Registry!Newer, Whole, VersionOrNone
  <2>5. CASE job'.step = "open"
    <3>1. job'.meta.accepted = meta.accepted /\ job'.meta.brier = meta.brier
          /\ job'.meta.last = v
      BY <1>5, <2>5
    <3>2. Ahead(meta)' = Ahead(meta) /\ Ahead(job.meta)' = Ahead(meta)
      BY <2>2, <3>1 DEF Ahead, Registry!Newer
    <3>3. (Whole(meta)' <=> Whole(meta)) /\ (Whole(job.meta)' <=> Whole(meta))
      BY <2>2, <3>1 DEF Whole
    <3>4. Upto(meta.last + 1)' /\ Upto(job.meta.last)'
      BY <2>1, <2>2, <3>1 DEF Upto
    <3>5. meta.accepted \in Int /\ meta.last \in Int
      BY <1>3 DEF Typed, Records, VersionOrNone
    <3> QED BY <2>1, <2>2, <2>3, <2>5, <3>1, <3>2, <3>3, <3>4, <3>5 DEF Stored
  <2> QED BY <1>5, <2>4, <2>5
<1> QED BY <1>1, <1>7, <1>8, <1>9

\* A file is written, whole or torn: Ahead grows by one at most, and no version
\* but the one written changes.
LEMMA WriteFile ==
    ASSUME Typed, NEW v \in Nat, NEW c \in Nat, files' = Registry!WithFile(v, c)
    PROVE  /\ files' \in [DOMAIN files' -> Nat] /\ DOMAIN files' \subseteq Nat
           /\ IsFiniteSet(DOMAIN files')
           /\ v \in DOMAIN files' /\ files'[v] = c
           /\ \A w \in DOMAIN files' : w # v => w \in DOMAIN files /\ files'[w] = files[w]
           /\ \A w \in DOMAIN files : w \in DOMAIN files' /\ (w # v => files'[w] = files[w])
           /\ \A a \in VersionOrNone :
                Cardinality({w \in DOMAIN files' : w > a}) <= Cardinality(Registry!Newer(a)) + 1
<1>1. DOMAIN files' = DOMAIN files \cup {v} /\ files' \in [DOMAIN files' -> Nat]
  BY FileFacts DEF Registry!WithFile, Typed, VersionOrNone
<1>2. \A w \in DOMAIN files' : files'[w] = IF w = v THEN c ELSE files[w]
  BY <1>1 DEF Registry!WithFile
<1>3. IsFiniteSet(DOMAIN files')
  BY <1>1, FS_AddElement DEF Typed
<1>4. ASSUME NEW a \in VersionOrNone
      PROVE  Cardinality({w \in DOMAIN files' : w > a}) <= Cardinality(Registry!Newer(a)) + 1
  BY <1>1, FileFacts
<1> QED BY <1>1, <1>2, <1>3, <1>4 DEF Typed

LEMMA SaveKeeps == ASSUME RegistryInv, Registry!SaveArtifact PROVE RegistryInv'
<1> USE DEF RegistryInv
<1> DEFINE v == job.meta.accepted
<1>1. /\ job.step = "save" /\ files' = Registry!WithFile(v, job.meta.brier)
      /\ job' = [job EXCEPT !.step = "prune"]
      /\ UNCHANGED <<closed, meta, live, lostMeta, faults>>
  BY DEF Registry!SaveArtifact
<1>2. /\ job' \in [step : Registry!Steps, meta : Records]
      /\ job'.step = "prune" /\ job'.meta = job.meta
  BY <1>1 DEF Typed, Registry!Steps
<1>3. /\ job.meta.last \in VersionOrNone /\ v \in VersionOrNone /\ job.meta.brier \in Nat
      /\ meta.last \in VersionOrNone /\ meta.accepted \in VersionOrNone /\ faults \in Nat
  BY DEF Typed, Records
<1>4. CASE v \in Nat
  <2>1. /\ files' \in [DOMAIN files' -> Nat] /\ DOMAIN files' \subseteq Nat
        /\ IsFiniteSet(DOMAIN files')
        /\ v \in DOMAIN files' /\ files'[v] = job.meta.brier
        /\ \A w \in DOMAIN files' : w # v => w \in DOMAIN files /\ files'[w] = files[w]
        /\ \A w \in DOMAIN files : w \in DOMAIN files' /\ (w # v => files'[w] = files[w])
        /\ \A a \in VersionOrNone :
             Cardinality({w \in DOMAIN files' : w > a}) <= Cardinality(Registry!Newer(a)) + 1
    BY <1>1, <1>3, <1>4, WriteFile
  <2>2. Typed'
    BY <1>1, <1>2, <2>1 DEF Typed
  <2>3. Beating'
    BY <1>1, <1>2, <2>1 DEF Beating, Registry!LiveBeatsBase
  <2>4. ~lostMeta => Stored'
    <3> SUFFICES ASSUME ~lostMeta PROVE Stored'
      OBVIOUS
    <3>1. /\ Ahead(meta) <= faults /\ (faults < Keep => Whole(meta))
          /\ Upto(meta.last + 1) /\ meta.accepted <= meta.last
          /\ v = meta.last + 1 /\ job.meta.last = v
      BY <1>1 DEF Stored
    <3>2. Ahead(meta) \in Nat /\ Ahead(meta)' <= Ahead(meta) + 1 /\ Ahead(meta)' \in Nat
      <4>1. Cardinality({w \in DOMAIN files' : w > meta.accepted}) <= Ahead(meta) + 1
        BY <1>3, <2>1 DEF Ahead
      <4>2. Ahead(meta)' = Cardinality({w \in DOMAIN files' : w > meta.accepted})
        BY <1>1 DEF Ahead, Registry!Newer
      <4>3. Ahead(meta) \in Nat
        BY <1>3, FewerFacts DEF Ahead, Registry!Newer
      <4>4. IsFiniteSet({w \in DOMAIN files' : w > meta.accepted})
        BY <2>1, FS_Subset
      <4> QED BY <4>1, <4>2, <4>3, <4>4, FS_CardinalityType
    <3>3. Whole(meta) => Whole(meta)'
      BY <1>1, <1>3, <2>1, <3>1 DEF Whole, VersionOrNone
    <3>4. Whole(job.meta)'
      BY <1>2, <2>1 DEF Whole
    <3>5. Upto(meta.last + 1)' /\ Upto(job.meta.last)'
      BY <1>1, <1>2, <1>3, <2>1, <3>1 DEF Upto, VersionOrNone
    <3>6. Ahead(meta)' <= faults + 1
      BY <1>3, <3>1, <3>2
    <3> QED BY <1>1, <1>2, <1>3, <3>1, <3>3, <3>4, <3>5, <3>6 DEF Stored, VersionOrNone
  <2> QED BY <1>1, <2>2, <2>3, <2>4
<1> QED BY <1>1, <1>4 DEF Beating

\* _prune: no more than faults + 1 files are newer than the accepted one, so for
\* fewer than Keep - 1 faults it is among the Keep newest.
LEMMA PruneKeeps == ASSUME RegistryInv, Registry!Prune PROVE RegistryInv'
<1> USE DEF RegistryInv
<1>1. /\ job.step = "prune" /\ files' = [v \in Registry!Kept |-> files[v]]
      /\ job' = [job EXCEPT !.step = "open"]
      /\ UNCHANGED <<closed, meta, live, lostMeta, faults>>
  BY DEF Registry!Prune
<1>2. /\ job' \in [step : Registry!Steps, meta : Records]
      /\ job'.step = "open" /\ job'.meta = job.meta
  BY <1>1 DEF Typed, Registry!Steps
<1>3. /\ Registry!Kept \in SUBSET DOMAIN files /\ DOMAIN files' = Registry!Kept
      /\ \A v \in Registry!Kept : files'[v] = files[v]
  BY <1>1 DEF Registry!Kept
<1>4. /\ job.meta.last \in VersionOrNone /\ job.meta.accepted \in VersionOrNone
      /\ meta.last \in VersionOrNone /\ meta.accepted \in VersionOrNone
      /\ faults \in Nat /\ Keep \in Nat /\ Keep > 0
  BY LearningAssumption DEF Registry!KeepAssumption, Typed, Records
<1>5. Typed'
  <2>1. files' \in [DOMAIN files' -> Nat] /\ IsFiniteSet(DOMAIN files')
    BY <1>1, <1>3, <1>4, FewerFacts DEF Typed
  <2> QED BY <1>1, <1>2, <1>3, <2>1 DEF Typed
<1>6. Beating'
  BY <1>1, <1>2, <1>3 DEF Beating, Registry!LiveBeatsBase
<1>7. ~lostMeta => Stored'
  <2> SUFFICES ASSUME ~lostMeta PROVE Stored'
    OBVIOUS
  <2>1. /\ Ahead(meta) <= faults + 1 /\ (faults < Keep => Whole(meta)) /\ Whole(job.meta)
        /\ Upto(meta.last + 1) /\ meta.accepted <= meta.last
        /\ Upto(job.meta.last) /\ job.meta.last = meta.last + 1
        /\ job.meta.accepted = job.meta.last
    BY <1>1 DEF Stored
  <2>2. \A a \in VersionOrNone : /\ Cardinality(Registry!Newer(a)) \in Nat
                                 /\ Cardinality({w \in Registry!Kept : w > a}) \in Nat
                                 /\ Cardinality({w \in Registry!Kept : w > a}) <= Cardinality(Registry!Newer(a))
    BY <1>3, FewerFacts DEF Registry!Newer
  <2>3. Registry!Newer(job.meta.accepted) = {}
    BY <1>4, <2>1 DEF Registry!Newer, Upto, Typed, VersionOrNone
  <2>4. Cardinality(Registry!Newer(job.meta.accepted)) = 0
    BY <2>3, FS_EmptySet
  <2>5. /\ Ahead(meta)' = Cardinality({w \in Registry!Kept : w > meta.accepted})
        /\ Ahead(job.meta)' = Cardinality({w \in Registry!Kept : w > job.meta.accepted})
    BY <1>1, <1>2, <1>3 DEF Ahead, Registry!Newer
  <2>6. Ahead(meta)' <= faults + 1
    <3>1. Cardinality(Registry!Newer(meta.accepted)) <= faults + 1
      BY <2>1 DEF Ahead
    <3> QED BY <1>4, <2>2, <2>5, <3>1
  <2>7. Ahead(job.meta)' <= faults
    BY <1>4, <2>2, <2>4, <2>5
  <2>8. faults + 1 < Keep => Whole(meta)'
    <3>1. Cardinality(Registry!Newer(meta.accepted)) <= faults + 1
      BY <2>1 DEF Ahead
    <3>2. Cardinality(Registry!Newer(meta.accepted)) \in Nat
      BY <1>4, <2>2
    <3>3. faults + 1 < Keep => Cardinality(Registry!Newer(meta.accepted)) < Keep
      BY <1>4, <3>1, <3>2
    <3>4. faults + 1 < Keep => Whole(meta)
      BY <1>4, <2>1
    <3> QED BY <1>1, <1>3, <3>3, <3>4, SameCount DEF Whole, Registry!Kept
  <2>9. Whole(job.meta)'
    BY <1>2, <1>3, <1>4, <2>1, <2>4, SameCount DEF Whole, Registry!Kept
  <2>10. Upto(meta.last + 1)' /\ Upto(job.meta.last)'
    BY <1>1, <1>2, <1>3, <2>1 DEF Upto
  <2>11. job'.meta.accepted <= job'.meta.last
    BY <1>2, <1>4, <2>1 DEF VersionOrNone
  <2> QED BY <1>1, <1>2, <2>1, <2>6, <2>7, <2>8, <2>9, <2>10, <2>11 DEF Stored
<1> QED BY <1>1, <1>5, <1>6, <1>7

\* open(metrics.json, "w"): from here on a fault loses the metrics.
LEMMA OpenKeeps == ASSUME RegistryInv, Registry!OpenMetrics PROVE RegistryInv'
<1> USE DEF RegistryInv
<1>1. /\ job.step = "open" /\ meta' = Registry!NoMeta
      /\ job' = [job EXCEPT !.step = "write"]
      /\ UNCHANGED <<closed, files, live, lostMeta, faults>>
  BY DEF Registry!OpenMetrics
<1>2. /\ job' \in [step : Registry!Steps, meta : Records]
      /\ job'.step = "write" /\ job'.meta = job.meta
  BY <1>1 DEF Typed, Registry!Steps
<1>3. Typed'
  BY <1>1, <1>2 DEF Typed, Registry!NoMeta, Records, VersionOrNone
<1>4. Beating'
  BY <1>1, <1>2 DEF Beating, Registry!LiveBeatsBase
<1>5. ~lostMeta => Stored'
  <2>1. (Upto(job.meta.last)' <=> Upto(job.meta.last)) /\ Ahead(job.meta)' = Ahead(job.meta)
        /\ (Whole(job.meta)' <=> Whole(job.meta))
    BY <1>1, <1>2 DEF Upto, Ahead, Registry!Newer, Whole
  <2> QED BY <1>1, <1>2, <2>1 DEF Stored
<1> QED BY <1>1, <1>3, <1>4, <1>5

\* json.dump: the metrics of the run are those of the file.
LEMMA WriteKeeps == ASSUME RegistryInv, Registry!WriteMetrics PROVE RegistryInv'
<1> USE DEF RegistryInv
<1>1. /\ job.step = "write" /\ meta' = job.meta /\ job' = Registry!NoJob
      /\ UNCHANGED <<closed, files, live, lostMeta, faults>>
  BY DEF Registry!WriteMetrics
<1>2. job'.step = "idle" /\ job' \in [step : Registry!Steps, meta : Records]
  BY <1>1 DEF Registry!NoJob, Registry!NoMeta, Records, VersionOrNone, Registry!Steps
<1>3. Typed'
  BY <1>1, <1>2 DEF Typed
<1>4. Beating'
  BY <1>1, <1>2 DEF Beating, Registry!LiveBeatsBase
<1>5. ~lostMeta => Stored'
  <2>1. Ahead(meta)' = Ahead(job.meta) /\ (Whole(meta)' <=> Whole(job.meta))
    BY <1>1 DEF Ahead, Registry!Newer, Whole
  <2>2. Upto(job.meta.last) => Upto(meta.last + 1)'
    BY <1>1 DEF Upto, Typed, Records, VersionOrNone
  <2> QED BY <1>1, <1>2, <2>1, <2>2 DEF Stored
<1> QED BY <1>1, <1>3, <1>4, <1>5

\* ProbabilityModel loads what is whole, and all of that beats the base rate.
LEMMA RefreshKeeps == ASSUME RegistryInv, Registry!Refresh \/ Registry!TradesClose PROVE RegistryInv'
<1> USE DEF RegistryInv
<1>1. UNCHANGED <<meta, files, job, lostMeta, faults>> /\ closed' \in Nat
  BY DEF Registry!Refresh, Registry!TradesClose, Typed
<1>2. Registry!LiveBeatsBase'
  <2>1. CASE Registry!Refresh
    BY <2>1 DEF Registry!Refresh, Registry!Loadable, Beating, Registry!LiveBeatsBase
  <2>2. CASE Registry!TradesClose
    BY <2>2 DEF Registry!TradesClose, Beating, Registry!LiveBeatsBase
  <2> QED BY <2>1, <2>2
<1>3. Stored' <=> Stored
  BY <1>1 DEF Stored, Upto, Ahead, Registry!Newer, Whole
<1> QED BY <1>1, <1>2, <1>3 DEF Typed, Beating

\* A fault leaves at most one more file that is newer than the accepted one, the
\* torn one of a save or the one a run had not announced yet.
LEMMA FaultKeeps == ASSUME RegistryInv, Registry!Crash \/ Registry!WriteFails PROVE RegistryInv'
<1> USE DEF RegistryInv
<1> DEFINE v == job.meta.accepted
<1>1. /\ files' = IF job.step = "save" THEN Registry!WithFile(v, Registry!Torn) ELSE files
      /\ lostMeta' = (lostMeta \/ job.step = "write")
      /\ job' = Registry!NoJob /\ faults' = faults + 1
      /\ UNCHANGED <<closed, meta>>
      /\ live' = Registry!NotLoaded \/ live' = live
  BY DEF Registry!Crash, Registry!WriteFails, Registry!CutShort
<1>2. job'.step = "idle" /\ job' \in [step : Registry!Steps, meta : Records]
  BY <1>1 DEF Registry!NoJob, Registry!NoMeta, Records, VersionOrNone, Registry!Steps
<1>3. lostMeta' \in BOOLEAN /\ (~lostMeta' => ~lostMeta /\ job.step # "write")
  BY <1>1 DEF Typed
<1>4. Registry!LiveBeatsBase'
  BY <1>1 DEF Beating, Registry!LiveBeatsBase, Registry!NotLoaded
<1>5. /\ job.meta.last \in VersionOrNone /\ v \in VersionOrNone
      /\ meta.last \in VersionOrNone /\ meta.accepted \in VersionOrNone
      /\ faults \in Nat /\ Keep \in Nat
      /\ job.step \in Registry!Steps
  BY LearningAssumption DEF Registry!KeepAssumption, Typed, Records
<1>6. CASE job.step # "save"
  <2>1. files' = files
    BY <1>1, <1>6
  <2>2. Typed' /\ Beating'
    BY <1>1, <1>2, <1>3, <1>4, <2>1 DEF Typed, Beating
  <2>3. ~lostMeta' => Stored'
    <3> SUFFICES ASSUME ~lostMeta' PROVE Stored'
      OBVIOUS
    <3>1. /\ Ahead(meta) <= faults + 1 /\ (faults + 1 < Keep => Whole(meta))
          /\ Upto(meta.last + 1) /\ meta.accepted <= meta.last
      <4>1. Ahead(meta) \in Nat
        BY <1>5, FewerFacts DEF Ahead, Registry!Newer
      <4> QED BY <1>3, <1>5, <1>6, <4>1 DEF Stored, Registry!Steps
    <3>2. /\ Ahead(meta)' = Ahead(meta) /\ (Whole(meta)' <=> Whole(meta))
          /\ (Upto(meta.last + 1)' <=> Upto(meta.last + 1))
      BY <1>1, <2>1 DEF Ahead, Registry!Newer, Whole, Upto
    <3> QED BY <1>1, <1>2, <3>1, <3>2 DEF Stored
  <2> QED BY <2>2, <2>3
<1>7. CASE job.step = "save"
  <2>1. v \in Nat /\ files' = Registry!WithFile(v, Registry!Torn) /\ Registry!Torn \in Nat
    BY <1>1, <1>7 DEF Beating, Registry!Torn
  <2>2. /\ files' \in [DOMAIN files' -> Nat] /\ DOMAIN files' \subseteq Nat
        /\ IsFiniteSet(DOMAIN files')
        /\ v \in DOMAIN files' /\ files'[v] = Registry!Torn
        /\ \A w \in DOMAIN files' : w # v => w \in DOMAIN files /\ files'[w] = files[w]
        /\ \A w \in DOMAIN files : w \in DOMAIN files' /\ (w # v => files'[w] = files[w])
        /\ \A a \in VersionOrNone :
             Cardinality({w \in DOMAIN files' : w > a}) <= Cardinality(Registry!Newer(a)) + 1
    BY <2>1, WriteFile
  <2>3. Typed' /\ Beating'
    BY <1>1, <1>2, <1>3, <1>4, <2>2 DEF Typed, Beating, Registry!Torn
  <2>4. ~lostMeta' => Stored'
    <3> SUFFICES ASSUME ~lostMeta' PROVE Stored'
      OBVIOUS
    <3>1. /\ Ahead(meta) <= faults /\ (faults < Keep => Whole(meta))
          /\ Upto(meta.last + 1) /\ meta.accepted <= meta.last
          /\ v = meta.last + 1
      BY <1>3, <1>7 DEF Stored
    <3>2. Ahead(meta)' <= faults + 1
      <4>1. Cardinality({w \in DOMAIN files' : w > meta.accepted}) <= Ahead(meta) + 1
        BY <1>5, <2>2 DEF Ahead
      <4>2. Ahead(meta)' = Cardinality({w \in DOMAIN files' : w > meta.accepted})
        BY <1>1 DEF Ahead, Registry!Newer
      <4>3. Ahead(meta) \in Nat
        BY <1>5, FewerFacts DEF Ahead, Registry!Newer
      <4>4. IsFiniteSet({w \in DOMAIN files' : w > meta.accepted})
        BY <2>2, FS_Subset
      <4>5. Cardinality({w \in DOMAIN files' : w > meta.accepted}) \in Nat
        BY <4>4, FS_CardinalityType
      <4> QED BY <1>5, <3>1, <4>1, <4>2, <4>3, <4>5
    <3>3. faults + 1 < Keep => Whole(meta)'
      BY <1>1, <1>5, <2>2, <3>1 DEF Whole, VersionOrNone
    <3>4. Upto(meta.last + 1)'
      BY <1>1, <1>5, <2>2, <3>1 DEF Upto, VersionOrNone
    <3> QED BY <1>1, <1>2, <3>1, <3>2, <3>3, <3>4 DEF Stored
  <2> QED BY <2>3, <2>4
<1> QED BY <1>6, <1>7

LEMMA NextRegistry == RegistryInv /\ [Registry!Next]_(Registry!vars) => RegistryInv'
<1>1. RegistryInv /\ UNCHANGED Registry!vars => RegistryInv'
  BY DEF Registry!vars, RegistryInv, Typed, Beating, Registry!LiveBeatsBase, Stored, Upto, Ahead, Registry!Newer, Whole
<1> QED BY <1>1, TrainKeeps, SaveKeeps, PruneKeeps, OpenKeeps, WriteKeeps, RefreshKeeps,
        FaultKeeps DEF Registry!Next

(* The invariant of metrics.json and the artifacts holds in every state.   *)
THEOREM RegistryInvHolds == Registry!Spec => []RegistryInv
  BY InitRegistry, NextRegistry, PTL DEF Registry!Spec

-----------------------------------------------------------------------------
(* The model that is loaded beats the base rate, after any faults.         *)
THEOREM LiveBeatsBaseHolds == Registry!Spec => []LiveBeatsBase
<1>1. RegistryInv => LiveBeatsBase
  BY DEF RegistryInv, Beating, LiveBeatsBase
<1> QED BY <1>1, RegistryInvHolds, PTL

(* The accepted version can be loaded while fewer than Keep steps have     *)
(* been cut short and none of them lost metrics.json.                      *)
THEOREM AcceptedIsLoadableHolds == Registry!Spec => []AcceptedIsLoadable
<1>1. RegistryInv => AcceptedIsLoadable
  BY DEF RegistryInv, Stored, Whole, Registry!Idle,
         AcceptedIsLoadable, Registry!AcceptedIsLoadable
<1> QED BY <1>1, RegistryInvHolds, PTL
=============================================================================
