--------------------------- MODULE OperationsProofs ---------------------------
(***************************************************************************)
(* Proofs about the components MCOperations puts side by side, for every   *)
(* value of their constants: however often the process is restarted, the   *)
(* group gets one digest a day at most; it never reads a message twice;    *)
(* and an event the news guard has seen stays guarded through an outage.   *)
(***************************************************************************)
EXTENDS MCOperations, TLAPS

-----------------------------------------------------------------------------
(* The main loop, for every length of the day and the week and every       *)
(* digest hour                                                             *)

(* What keeps a second digest away: one that was sent, or is about to be,  *)
(* is remembered by a running process, and by the clock for the next one.  *)
DigestInv ==
    /\ TypeOK
    /\ NoDigestTwice
    /\ digests > 0 => hour >= DigestHour /\ (up => lastDigestDay = day)
    /\ reports > 0 => digests > 0
    /\ pc # "loop" => hour >= DigestHour /\ up /\ lastDigestDay = day
    /\ pc = "digest" => digests = 0
    /\ pc = "report" => digests = 1 /\ reports = 0 /\ day = Sunday

LEMMA InitDigestInv == Init => DigestInv
<1> SUFFICES ASSUME Init PROVE DigestInv
  OBVIOUS
<1>1. day \in 0 .. Days - 1 /\ hour \in 0 .. Hours - 1
  BY ClockAssumption DEF Init
<1>2. TypeOK
  BY <1>1 DEF Init, TypeOK
<1>3. NoDigestTwice
  BY DEF Init, NoDigestTwice
<1> QED BY <1>2, <1>3 DEF Init, DigestInv

LEMMA NextDigestInv == DigestInv /\ [Next]_vars => DigestInv'
<1> SUFFICES ASSUME DigestInv, [Next]_vars PROVE DigestInv'
  OBVIOUS
<1> USE ClockAssumption DEF DigestInv, TypeOK, NoDigestTwice, Never
\* The clock alone tells a new process that the day may have been served.
<1>1. CASE Boot
  BY <1>1 DEF Boot
<1>2. CASE Crash
  BY <1>2 DEF Crash
\* Only a process that does not remember today comes here, so none was sent.
<1>3. CASE Iterate
  <2>1. CASE hour >= DigestHour /\ lastDigestDay # day
    BY <1>3, <2>1 DEF Iterate
  <2>2. CASE ~(hour >= DigestHour /\ lastDigestDay # day)
    BY <1>3, <2>2 DEF Iterate
  <2> QED BY <2>1, <2>2
<1>4. CASE SendDigest
  BY <1>4 DEF SendDigest
<1>5. CASE SendReport
  BY <1>5 DEF SendReport
\* Nothing is being sent while the clock moves: a new day starts with none.
<1>6. CASE NextHour
  <2>1. CASE hour < Hours - 1
    <3>1. hour' = hour + 1 /\ day' = day /\ digests' = digests
          /\ reports' = reports /\ looped' = FALSE /\ pc = "loop"
          /\ up' = up /\ lastDigestDay' = lastDigestDay /\ pc' = pc
      BY <1>6, <2>1 DEF NextHour
    <3>2. presence' \in {"absent", "kept", "broken"}
      BY <1>6, <2>1 DEF NextHour
    <3>3. hour' \in 0 .. Hours - 1
      BY <2>1, <3>1
    <3>4. TypeOK'
      BY <3>1, <3>2, <3>3
    <3>5. NoDigestTwice'
      BY <3>1
    <3>6. digests' > 0 => hour' >= DigestHour /\ (up' => lastDigestDay' = day')
      BY <3>1
    <3> QED BY <3>1, <3>4, <3>5, <3>6
  <2>2. CASE ~(hour < Hours - 1)
    <3>1. (day + 1) % Days \in 0 .. Days - 1
      BY SMT
    <3>2. day' = (day + 1) % Days /\ hour' = 0 /\ digests' = 0 /\ reports' = 0
          /\ presence' = "absent" /\ looped' = FALSE /\ pc = "loop"
          /\ up' = up /\ lastDigestDay' = lastDigestDay /\ pc' = pc
      BY <1>6, <2>2 DEF NextHour
    <3>3. hour' \in 0 .. Hours - 1
      BY <3>2
    <3>4. TypeOK'
      BY <3>1, <3>2, <3>3
    <3>5. NoDigestTwice'
      BY <3>2
    <3> QED BY <3>2, <3>4, <3>5
  <2> QED BY <2>1, <2>2
<1>7. CASE UNCHANGED vars
  BY <1>7 DEF vars
<1> QED BY <1>1, <1>2, <1>3, <1>4, <1>5, <1>6, <1>7 DEF Next

(* The invariant of the digest holds in every reachable state.             *)
THEOREM DigestInvHolds == Spec => []DigestInv
  BY InitDigestInv, NextDigestInv, PTL DEF Spec

(* At most one digest a day and one report a week, across all restarts.    *)
THEOREM DigestNeverTwice == Spec => []NoDigestTwice
<1>1. DigestInv => NoDigestTwice
  BY DEF DigestInv
<1> QED BY <1>1, DigestInvHolds, PTL

(* A process that has been round its loop since the digest hour remembers  *)
(* today; one that waits for the hour remembers another day, for it        *)
(* remembered yesterday or nothing when the day began.  So one that was up *)
(* when the hour struck has the digest of today still to come, or sent it. *)
Memory ==
    /\ presence = "kept" => up /\ hour >= DigestHour
    /\ up /\ looped /\ hour >= DigestHour => lastDigestDay = day
    /\ Days > 1 /\ up /\ hour < DigestHour => lastDigestDay # day
    /\ (Days > 1 /\ presence = "kept" /\ lastDigestDay = day) =>
         \/ pc = "digest"
         \/ digests = 1 /\ (day = Sunday => pc = "report" \/ reports = 1)

LEMMA NextMemory == DigestInv /\ Memory /\ [Next]_vars => Memory'
<1> SUFFICES ASSUME DigestInv, Memory, [Next]_vars PROVE Memory'
  OBVIOUS
<1> USE ClockAssumption DEF DigestInv, TypeOK, Memory, Never
<1>1. CASE Boot
  BY <1>1 DEF Boot
<1>2. CASE Crash
  BY <1>2 DEF Crash
<1>3. CASE Iterate
  <2>1. CASE hour >= DigestHour /\ lastDigestDay # day
    BY <1>3, <2>1 DEF Iterate
  <2>2. CASE ~(hour >= DigestHour /\ lastDigestDay # day)
    BY <1>3, <2>2 DEF Iterate
  <2> QED BY <2>1, <2>2
<1>4. CASE SendDigest
  BY <1>4 DEF SendDigest
<1>5. CASE SendReport
  BY <1>5 DEF SendReport
<1>6. CASE NextHour
  <2>1. CASE hour < Hours - 1
    BY <1>6, <2>1 DEF NextHour
  <2>2. CASE ~(hour < Hours - 1)
    <3>1. /\ day' = (day + 1) % Days /\ hour' = 0 /\ presence' = "absent"
          /\ up' = up /\ lastDigestDay' = lastDigestDay /\ looped' = FALSE
      BY <1>6, <2>2 DEF NextHour
    <3>2. Days > 1 => (day + 1) % Days # day
      <4>1. CASE day + 1 < Days
        BY <4>1, SMT
      <4>2. CASE day + 1 = Days
        BY <4>2, SMT
      <4> QED BY <4>1, <4>2
    <3>3. up => lastDigestDay = day
      BY <1>6, <2>2 DEF NextHour
    <3> QED BY <3>1, <3>2, <3>3
  <2> QED BY <2>1, <2>2
<1>7. CASE UNCHANGED vars
  BY <1>7 DEF vars
<1> QED BY <1>1, <1>2, <1>3, <1>4, <1>5, <1>6, <1>7 DEF Next

(* A process that is up from the digest hour to the end of the day has     *)
(* sent the digest, and on the last day of the week the report.            *)
THEOREM UpMeansDigestHolds == Spec => UpMeansDigest
<1>1. Init => Memory
  BY DEF Init, Memory
<1>2. DigestInv /\ Memory /\ [Next]_vars =>
        (day' # day /\ presence = "kept" => digests = 1 /\ (day = Sunday => reports = 1))
  <2> SUFFICES ASSUME DigestInv, Memory, [Next]_vars, day' # day, presence = "kept"
               PROVE  digests = 1 /\ (day = Sunday => reports = 1)
    OBVIOUS
  <2> USE ClockAssumption DEF DigestInv, TypeOK, Memory
  <2>1. NextHour
    BY DEF Next, Boot, Crash, Iterate, SendDigest, SendReport, vars
  <2>2. ~(hour < Hours - 1) /\ day' = (day + 1) % Days
    BY <2>1 DEF NextHour
  <2>3. Days > 1
    <3>1. CASE Days = 1
      <4>1. (day + 1) % 1 = 0 /\ day = 0
        BY <3>1, SMT
      <4> QED BY <2>2, <3>1, <4>1
    <3> QED BY <3>1
  <2>4. pc = "loop" /\ looped /\ up
    BY <2>1 DEF NextHour
  <2> QED BY <2>2, <2>3, <2>4
<1>3. Spec => []Memory
  BY <1>1, NextMemory, DigestInvHolds, PTL DEF Spec
<1> QED BY <1>2, <1>3, DigestInvHolds, PTL DEF Spec, UpMeansDigest

-----------------------------------------------------------------------------
(* Delivery and news guard *)

(* A request is under way only while the text has not arrived.             *)
MessageInv == /\ copies \in {0, 1}
              /\ request # "done" => copies = 0

LEMMA MessageStepKeeps == MessageInv /\ Message!Next => MessageInv'
<1> SUFFICES ASSUME MessageInv, Message!Next PROVE MessageInv'
  OBVIOUS
<1> USE DEF MessageInv
<1>1. CASE Message!Compose
  BY <1>1 DEF Message!Compose
\* A long caption goes on to its overflow without the text, all else is the end.
<1>2. CASE Message!Accept
  <2>1. CASE request = "photo" /\ msg.long
    BY <1>2, <2>1 DEF Message!Accept, Message!GoOn, Message!CarriesText
  <2>2. CASE ~(request = "photo" /\ msg.long)
    BY <1>2, <2>2 DEF Message!Accept, Message!GoOn, Message!CarriesText
  <2> QED BY <2>1, <2>2
<1>3. CASE Message!Limit
  BY <1>3 DEF Message!Limit, Message!GoOn
<1>4. CASE Message!Reject
  BY <1>4 DEF Message!Reject
<1>5. CASE Message!NetworkError
  BY <1>5 DEF Message!NetworkError
<1> QED BY <1>1, <1>2, <1>3, <1>4, <1>5 DEF Message!Next

(* What a fetch has brought and the service still lists is in the cache.   *)
NewsInv == /\ known \subseteq News!Calendar
           /\ known \subseteq events
           /\ KnownEventsStayGuarded

LEMMA NewsStepKeeps == NewsInv /\ News!Next => NewsInv'
<1> SUFFICES ASSUME NewsInv, News!Next PROVE NewsInv'
  OBVIOUS
<1> USE DEF NewsInv, KnownEventsStayGuarded, News!KnownEventsStayGuarded, News!Asked
\* Whatever the fetch does, the cache holds what is known when the answer is given.
<1>1. CASE News!Blackout
  <2>1. /\ known' \subseteq News!Calendar' /\ known' \subseteq events'
        /\ UNCHANGED <<now, listed>>
    BY <1>1 DEF News!Blackout, News!Refresh, News!CacheHit, News!FetchWorks,
       News!FetchFails, News!Calendar
  <2>2. PICK s \in Symbols :
          answer' = [sym |-> s,
                     found |-> IF \E e \in events' : News!InWindow(e, s, now)
                               THEN "event" ELSE "nothing"]
    BY <1>1 DEF News!Blackout
  <2>3. ASSUME NEW l \in listed', l.event \in known', News!InWindow(l.event, answer'.sym, now)
        PROVE  answer'.found = "event"
    BY <2>1, <2>2, <2>3
  <2>4. \A e, x : News!InWindow(e, x, now)' = News!InWindow(e, x, now)
    BY <2>1 DEF News!InWindow, News!Near, News!CurrenciesFor
  <2> QED BY <2>1, <2>3, <2>4
\* Nobody is asked while the world moves.
<1>2. CASE News!TimePasses \/ News!List \/ News!FeedFlips
  BY <1>2 DEF News!TimePasses, News!List, News!FeedFlips, News!Unasked, News!Calendar
<1>3. CASE News!Drop
  BY <1>3 DEF News!Drop, News!Unasked, News!Calendar
<1> QED BY <1>1, <1>2, <1>3 DEF News!Next

-----------------------------------------------------------------------------
LEMMA OperationsInitInv == OperationsInit => MessageInv /\ NewsInv
  BY DEF OperationsInit, Message!Init, News!Init, MessageInv, NewsInv, News!Calendar,
     KnownEventsStayGuarded, News!KnownEventsStayGuarded, News!Asked

\* A step is one component's; the variables of the others do not change.
LEMMA OperationsNextInv ==
    MessageInv /\ NewsInv /\ [OperationsNext]_operationsVars => MessageInv' /\ NewsInv'
<1> SUFFICES ASSUME MessageInv, NewsInv, [OperationsNext]_operationsVars
             PROVE  MessageInv' /\ NewsInv'
  OBVIOUS
<1>1. Message!Next \/ UNCHANGED messageVars
  BY DEF OperationsNext, LoopStep, MessageStep, NewsStep, ScanStep, operationsVars
<1>2. News!Next \/ UNCHANGED newsVars
  BY DEF OperationsNext, LoopStep, MessageStep, NewsStep, ScanStep, operationsVars
<1>3. UNCHANGED messageVars => MessageInv'
  BY DEF messageVars, MessageInv
<1>4. UNCHANGED newsVars => NewsInv'
  BY DEF newsVars, NewsInv, KnownEventsStayGuarded, News!KnownEventsStayGuarded,
     News!Asked, News!Calendar, News!InWindow, News!Near, News!CurrenciesFor
<1> QED BY <1>1, <1>2, <1>3, <1>4, MessageStepKeeps, NewsStepKeeps

(* Both invariants hold in every state of the operations.                  *)
THEOREM OperationsInvHolds == OperationsSpec => [](MessageInv /\ NewsInv)
  BY OperationsInitInv, OperationsNextInv, PTL DEF OperationsSpec

(* No path of waits, resends, overflows and lost answers sends twice.      *)
THEOREM NeverTwiceHolds == OperationsSpec => []NeverTwice
<1>1. MessageInv /\ NewsInv => NeverTwice
  BY DEF MessageInv, NeverTwice, Message!NeverTwice
<1> QED BY <1>1, OperationsInvHolds, PTL

(* A known event is guarded for as long as the calendar has it.            *)
THEOREM KnownEventsStayGuardedHolds == OperationsSpec => []KnownEventsStayGuarded
<1>1. MessageInv /\ NewsInv => KnownEventsStayGuarded
  BY DEF NewsInv
<1> QED BY <1>1, OperationsInvHolds, PTL
=============================================================================
