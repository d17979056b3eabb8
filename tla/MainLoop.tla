------------------------------ MODULE MainLoop ------------------------------
(***************************************************************************)
(* The daily digest and the Sunday report of Runtime.run_forever over      *)
(* days, crashes and redeployments.  One iteration of the loop takes less  *)
(* than an hour of the clock; what a scan and an outcome check do is the   *)
(* subject of other modules, here they only make iterations that fail.     *)
(***************************************************************************)
EXTENDS Integers

CONSTANTS Hours,         \* hours of a day (a day is shortened to a few)
          DigestHour,    \* BL_DIGEST_HOUR_UTC
          Days, Sunday   \* days of a week, and the last of them

ASSUME ClockAssumption ==
    /\ Hours \in Nat \ {0} /\ DigestHour \in 1 .. Hours - 1
    /\ Days \in Nat \ {0} /\ Sunday \in 0 .. Days - 1

Never == -1

VARIABLES day, hour,        \* the UTC clock (the week wraps around)
          up,               \* the process runs
          lastDigestDay,    \* last_digest_day: lost when the process dies
          pc,               \* "loop", or "digest"/"report": about to send it
          looped,           \* an iteration has begun in this hour
          digests, reports, \* sent today
          presence          \* history: the process was up when DigestHour began
                            \* ("kept" since then, or "broken"), or "absent"

vars == <<day, hour, up, lastDigestDay, pc, looped, digests, reports, presence>>

TypeOK == /\ day \in 0 .. Days - 1 /\ hour \in 0 .. Hours - 1
          /\ up \in BOOLEAN /\ looped \in BOOLEAN
          /\ presence \in {"absent", "kept", "broken"}
          /\ lastDigestDay \in {Never} \cup 0 .. Days - 1
          /\ pc \in {"loop", "digest", "report"}
          /\ digests \in Nat /\ reports \in Nat

-----------------------------------------------------------------------------
Init == /\ day = 0 /\ hour = 0 /\ up = FALSE /\ lastDigestDay = Never
        /\ pc = "loop" /\ looped = FALSE
        /\ digests = 0 /\ reports = 0 /\ presence = "absent"

\* Wrong on purpose: every start has the day's digest still to send.
Boot_Fresh == /\ ~up /\ up' = TRUE
              /\ lastDigestDay' = Never
              /\ pc' = "loop" /\ looped' = FALSE
              /\ UNCHANGED <<day, hour, digests, reports, presence>>

\* A start after the digest hour takes today's digest as sent.
Boot == /\ ~up /\ up' = TRUE
        /\ lastDigestDay' = IF hour >= DigestHour THEN day ELSE Never
        /\ pc' = "loop" /\ looped' = FALSE
        /\ UNCHANGED <<day, hour, digests, reports, presence>>

\* A handler raises (nothing catches it) or the container is replaced.
Crash == /\ up /\ up' = FALSE
         /\ pc' = "loop" /\ lastDigestDay' = Never
         /\ presence' = IF presence = "kept" THEN "broken" ELSE presence
         /\ UNCHANGED <<day, hour, looped, digests, reports>>

\* Wrong on purpose: a process remembers that it sent, not when it sent.
Iterate_SentOnce ==
    /\ up /\ pc = "loop" /\ looped' = TRUE
    /\ IF hour >= DigestHour /\ lastDigestDay = Never
       THEN pc' = "digest" /\ lastDigestDay' = day
       ELSE UNCHANGED <<pc, lastDigestDay>>
    /\ UNCHANGED <<day, hour, up, digests, reports, presence>>

\* One iteration up to the digest, which is marked before it is sent.
Iterate ==
    /\ up /\ pc = "loop" /\ looped' = TRUE
    /\ IF hour >= DigestHour /\ lastDigestDay # day
       THEN pc' = "digest" /\ lastDigestDay' = day
       ELSE UNCHANGED <<pc, lastDigestDay>>
    /\ UNCHANGED <<day, hour, up, digests, reports, presence>>

SendDigest == /\ up /\ pc = "digest" /\ digests' = digests + 1
              /\ pc' = IF day = Sunday THEN "report" ELSE "loop"
              /\ UNCHANGED <<day, hour, up, lastDigestDay, looped, reports, presence>>

SendReport == /\ up /\ pc = "report" /\ reports' = reports + 1
              /\ pc' = "loop"
              /\ UNCHANGED <<day, hour, up, lastDigestDay, looped, digests, presence>>

\* The clock moves on; a running process has been round its loop by then.
NextHour ==
    /\ up => looped /\ pc = "loop"
    /\ looped' = FALSE
    /\ IF hour < Hours - 1
       THEN /\ hour' = hour + 1
            /\ presence' = IF hour' = DigestHour /\ up THEN "kept" ELSE presence
            /\ UNCHANGED <<day, digests, reports>>
       ELSE /\ hour' = 0 /\ day' = (day + 1) % Days
            /\ digests' = 0 /\ reports' = 0 /\ presence' = "absent"
    /\ UNCHANGED <<up, lastDigestDay, pc>>

Next == Boot \/ Crash \/ Iterate \/ SendDigest \/ SendReport \/ NextHour
Spec == Init /\ [][Next]_vars

-----------------------------------------------------------------------------
(* However often the process dies and is started again, the group gets at  *)
(* most one digest a day and one report a week: a redeployment does not    *)
(* send them again (the boot rule of run_forever).                         *)
NoDigestTwice == digests <= 1 /\ reports <= (IF day = Sunday THEN 1 ELSE 0)

(* A process that is up from the digest hour to the end of the day has     *)
(* sent the digest by then, and on Sunday the report: not even the week    *)
(* wrapping around makes it mistake today for a day already served.        *)
UpMeansDigest ==
    [][day' # day /\ presence = "kept" =>
         digests = 1 /\ (day = Sunday => reports = 1)]_vars

(* There is a weekly report: a Sunday on which the bot was running at the  *)
(* digest hour and at the end of the day has had one.                      *)
ReportEverySunday ==
    [][day' # day /\ day = Sunday /\ up /\ presence # "absent" => reports = 1]_vars
=============================================================================
