------------------------------ MODULE Delivery ------------------------------
(***************************************************************************)
(* How one message of the notifier reaches the group (on_signal,           *)
(* on_outcome and the answer to a button, over telegram.client): as the    *)
(* caption of a chart or as text, with one wait on a rate limit and one    *)
(* plain resend of text whose HTML Telegram refuses.  A message is its     *)
(* text; whether it is long or badly formatted is chosen with it.  Time is *)
(* in units of 30 seconds.                                                 *)
(***************************************************************************)
EXTENDS Integers

CONSTANTS Patience,    \* longest wait the client accepts, min(retry_after, 60)
          RetryAfter   \* waits Telegram asks for

PatienceAssumption == Patience \in Nat /\ RetryAfter \subseteq Nat \ {0}

VARIABLES msg,        \* the message: [chart, long, bad |-> BOOLEAN]
          pc,         \* request being made: "photo", "html", "plain"; "done"
          retried,    \* the request is the one retry after a 429
          copies,     \* times the group has received the text
          ban,        \* Telegram: how long it still refuses requests
          served,     \* Telegram: the client has waited a ban out
          troubles    \* history: what went wrong with this message

vars == <<msg, pc, retried, copies, ban, served, troubles>>

\* A caption longer than 1024 characters is sent as a text after the photo.
CarriesText == pc # "photo" \/ ~msg.long
Refused == pc = "html" /\ msg.bad

\* The request is over: the overflow of a long caption, or nothing, is next.
GoOn == /\ pc' = IF pc = "photo" /\ msg.long THEN "html" ELSE "done"
        /\ retried' = FALSE

-----------------------------------------------------------------------------
Init == /\ msg = [chart |-> FALSE, long |-> FALSE, bad |-> FALSE]
        /\ pc = "done" /\ copies = 1 /\ retried = FALSE
        /\ ban = 0 /\ served = FALSE /\ troubles = {}

\* on_signal, on_outcome: with the chart if it could be drawn.  Their texts
\* are escaped; the answer to a button is not ("lot 0.0033 < min 0.01").
Compose ==
    /\ pc = "done"
    /\ \E chart, long, bad \in BOOLEAN :
          /\ bad => ~chart
          /\ msg' = [chart |-> chart, long |-> long, bad |-> bad]
          /\ pc' = IF chart THEN "photo" ELSE "html"
    /\ copies' = 0 /\ retried' = FALSE
    /\ ban' \in 0 .. ban          \* time passes between two messages
    /\ served' = FALSE /\ troubles' = {}

Accept ==
    /\ pc # "done" /\ ban = 0 /\ ~Refused
    /\ copies' = IF CarriesText THEN copies + 1 ELSE copies
    /\ GoOn
    /\ served' = FALSE
    /\ UNCHANGED <<msg, ban, troubles>>

\* 429: wait at most Patience and ask once more; a second 429 is the end of
\* it.  Telegram keeps its word: it does not refuse who has waited long enough.
Limit ==
    /\ pc # "done" /\ (ban > 0 \/ ~served)
    /\ \E w \in (IF ban > 0 THEN {ban} ELSE RetryAfter) :
          /\ troubles' = troubles \cup {IF w > Patience THEN "long_limit" ELSE "limit"}
          /\ IF retried
             THEN GoOn /\ ban' = w /\ served' = FALSE
             ELSE /\ ban' = IF w > Patience THEN w - Patience ELSE 0
                  /\ retried' = TRUE /\ served' = (w <= Patience)
                  /\ UNCHANGED pc
    /\ UNCHANGED <<msg, copies>>

\* 400, "can't parse entities": send() drops parse_mode and sends once more.
Reject ==
    /\ pc # "done" /\ ban = 0 /\ Refused
    /\ troubles' = troubles \cup {"format"}
    /\ pc' = "plain" /\ retried' = FALSE
    /\ served' = FALSE /\ UNCHANGED <<msg, copies, ban>>

\* Wrong on purpose: a request that timed out is made again.
NetworkError_Retry ==
    /\ pc # "done" /\ ban = 0 /\ "network" \notin troubles
    /\ \E arrived \in IF Refused THEN {FALSE} ELSE BOOLEAN :
          copies' = IF arrived /\ CarriesText THEN copies + 1 ELSE copies
    /\ troubles' = troubles \cup {"network"}
    /\ UNCHANGED <<msg, pc, retried, ban, served>>

\* RequestException: the request or its answer is lost, and nothing is retried;
\* send_photo() returns before the overflow is sent.
NetworkError ==
    /\ pc # "done"
    /\ \E arrived \in IF Refused \/ ban > 0 THEN {FALSE} ELSE BOOLEAN :
          copies' = IF arrived /\ CarriesText THEN copies + 1 ELSE copies
    /\ troubles' = troubles \cup {"network"}
    /\ pc' = "done" /\ retried' = FALSE /\ served' = FALSE
    /\ UNCHANGED <<msg, ban>>

Next == Compose \/ Accept \/ Limit \/ Reject \/ NetworkError
Spec == Init /\ [][Next]_vars

-----------------------------------------------------------------------------
Delivered == pc = "done" => copies = 1

(* The group never reads a message twice: no path of waits, plain resends, *)
(* overflows and lost answers sends the text again once it has arrived     *)
(* (_call, send, send_photo).                                              *)
NeverTwice == copies <= 1

(* Waits that Telegram asks for within the client's patience and a refused *)
(* HTML cost no message, wherever they fall: on the photo, its overflow,   *)
(* the text or the plain resend, which has a retry of its own (_call,      *)
(* _rate_limit_wait, send).                                                *)
TroublesAreRiddenOut ==
    troubles \subseteq {"limit", "format"} => Delivered

(* A burst that Telegram answers with a rate limit never drops a message.  *)
BurstNeverDrops == troubles \subseteq {"limit", "long_limit"} => Delivered
=============================================================================
