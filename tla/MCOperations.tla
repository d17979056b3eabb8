---------------------------- MODULE MCOperations ----------------------------
(***************************************************************************)
(* The operations of the bot for TLC: the main loop (extended), message    *)
(* delivery, the news guard and the scan with its health monitor.  They    *)
(* share no variable and call each other through facts that each module    *)
(* has as an input, so the instance runs one of them at a time: part says  *)
(* which, the others rest in their initial states.                         *)
(***************************************************************************)
EXTENDS MainLoop, FiniteSets

CONSTANTS Patience, RetryAfter,                            \* Delivery
          Events, Symbols, CacheTtl, Window, MaxTime,      \* NewsGuard
          Pairs, Cooldown, AlertGap, Threshold, StaleFactor, MaxNews

VARIABLES msg, request, retried, copies, ban, served, troubles,
          now, listed, reachable, events, fetchedAt, failed, known, answer,
          down, news, windows, at, fetched, errors, produced, data, age,
          sinceScan, feedOk, failures, sinceAlert,
          part

messageVars == <<msg, request, retried, copies, ban, served, troubles>>
newsVars == <<now, listed, reachable, events, fetchedAt, failed, known, answer>>
scanVars == <<down, news, windows, at, fetched, errors, produced, data, age,
              sinceScan, feedOk, failures, sinceAlert>>

Message == INSTANCE Delivery WITH pc <- request
News == INSTANCE NewsGuard
Scan == INSTANCE ScanHealth

ASSUME OperationsAssumption ==
    /\ Message!PatienceAssumption
    /\ News!EventsAssumption /\ News!SymbolsAssumption /\ News!TimesAssumption
    /\ Scan!PairsAssumption /\ Scan!TimesAssumption

-----------------------------------------------------------------------------
OperationsInit == /\ Init /\ Message!Init /\ News!Init /\ Scan!Init
                  /\ part \in {"loop", "message", "news", "scan"}

LoopStep == /\ part = "loop" /\ Next
            /\ UNCHANGED <<part, messageVars, newsVars, scanVars>>
MessageStep == /\ part = "message" /\ Message!Next
               /\ UNCHANGED <<part, vars, newsVars, scanVars>>
NewsStep == /\ part = "news" /\ News!Next
            /\ UNCHANGED <<part, vars, messageVars, scanVars>>
ScanStep == /\ part = "scan" /\ Scan!Next
            /\ UNCHANGED <<part, vars, messageVars, newsVars>>

OperationsNext == LoopStep \/ MessageStep \/ NewsStep \/ ScanStep
operationsVars == <<part, vars, messageVars, newsVars, scanVars>>

OperationsSpec == /\ OperationsInit /\ [][OperationsNext]_operationsVars
                  /\ part = "scan" => Scan!Fairness

-----------------------------------------------------------------------------
(* The states of all four have their types.                                *)
OperationsTypeOK == TypeOK /\ News!TypeOK /\ Scan!TypeOK

(* The properties of the instances, stated in their modules.               *)
NeverTwice == Message!NeverTwice
TroublesAreRiddenOut == Message!TroublesAreRiddenOut
ListedEventsAreGuarded == News!ListedEventsAreGuarded
KnownEventsStayGuarded == News!KnownEventsStayGuarded
FailuresMeanNoFeed == Scan!FailuresMeanNoFeed
DeadFeedIsAlerted == Scan!DeadFeedIsAlerted

-----------------------------------------------------------------------------
(* Values *)

\* 30 s, the 60 s the client waits at most, and a minute and a half.
MCRetryAfter == {1, 2, 3}

\* A dollar and a euro event, a pair with both legs and a metal (dollar only),
\* and time for two cache periods before an event and one after.
TwoEvents == {[at |-> 3, ccy |-> "USD"], [at |-> 5, ccy |-> "EUR"]}
TwoSymbols == {[metal |-> FALSE, base |-> "EUR", quote |-> "GBP"],
               [metal |-> TRUE, base |-> "XAU", quote |-> "USD"]}

\* Two pairs, so that one can be gated or fail while the other answers.
TwoPairs == 1 .. 2
=============================================================================
