------------------------------ MODULE NewsGuard ------------------------------
(***************************************************************************)
(* The red-folder guard: blackout(symbol) asks the cached calendar whether *)
(* a high-impact event of one of the symbol's currencies is near, after    *)
(* fetching the calendar anew when the cache is _CACHE_TTL old.  A fetch   *)
(* that fails keeps the old events and the new time stamp.                 *)
(*                                                                         *)
(* The calendar service adds events (a new week, a new date) and drops     *)
(* them; it may be unreachable or answer nonsense.                         *)
(***************************************************************************)
EXTENDS Integers

CONSTANTS Events,     \* high-impact events, records [at, ccy]
          Symbols,    \* records [metal, base, quote]
          CacheTtl,   \* _CACHE_TTL
          Window,     \* window_minutes
          MaxTime     \* bound: end of time

EventsAssumption == \A e \in Events : e.at \in Nat
SymbolsAssumption == \A s \in Symbols : s.metal \in BOOLEAN
TimesAssumption == CacheTtl \in Nat \ {0} /\ Window \in Nat /\ MaxTime \in Nat

VARIABLES
  now,
  listed,      \* events the service has, with the time each was listed
  reachable,   \* the service answers
  events,      \* NewsGuard._events
  fetchedAt,   \* NewsGuard._fetched_at; long ago at boot
  failed,      \* history: the last fetch failed
  known,       \* history: events some fetch has brought, while they stay listed
  answer       \* the last answer of blackout: [sym, found], or none

vars == <<now, listed, reachable, events, fetchedAt, failed, known, answer>>

Listings == [event : Events, since : 0 .. MaxTime]
None == [found |-> "nobody asked"]
Calendar == {l.event : l \in listed}

CurrenciesFor(s) == IF s.metal THEN {"USD"} ELSE {s.base, s.quote}
Near(e, t) == e.at - t <= Window /\ t - e.at <= Window

InWindow(e, s, t) == e.ccy \in CurrenciesFor(s) /\ Near(e, t)

Stale == now - fetchedAt >= CacheTtl

\* Wrong on purpose: a calendar that cannot be fetched is no calendar.
FetchFails_Forgets == /\ Stale
                      /\ fetchedAt' = now /\ failed' = TRUE
                      /\ events' = {}
                      /\ UNCHANGED known

\* _refresh: the service is down or the answer does not parse.
FetchFails == /\ Stale
              /\ fetchedAt' = now /\ failed' = TRUE
              /\ UNCHANGED <<events, known>>

FetchWorks == /\ Stale /\ reachable
              /\ fetchedAt' = now /\ failed' = FALSE
              /\ events' = Calendar
              /\ known' = known \cup Calendar

CacheHit == ~Stale /\ UNCHANGED <<events, fetchedAt, failed, known>>

Refresh == CacheHit \/ FetchWorks \/ FetchFails

\* blackout(symbol), from _scan_symbol or execute_signal
Blackout == \E s \in Symbols :
    /\ Refresh
    /\ answer' = [sym |-> s,
                  found |-> IF \E e \in events' : InWindow(e, s, now)
                            THEN "event" ELSE "nothing"]
    /\ UNCHANGED <<now, listed, reachable>>

-----------------------------------------------------------------------------
(* The world *)

Unasked == answer' = None /\ UNCHANGED <<events, fetchedAt, failed>>

TimePasses == /\ now < MaxTime
              /\ now' = now + 1
              /\ Unasked /\ UNCHANGED <<listed, reachable, known>>

List == \E e \in Events \ Calendar :
    /\ listed' = listed \cup {[event |-> e, since |-> now]}
    /\ Unasked /\ UNCHANGED <<now, reachable, known>>

Drop == \E l \in listed :
    /\ listed' = listed \ {l}
    /\ known' = known \ {l.event}
    /\ Unasked /\ UNCHANGED <<now, reachable>>

FeedFlips == /\ reachable' = ~reachable
             /\ Unasked /\ UNCHANGED <<now, listed, known>>

Init == /\ now = 0 /\ listed = {} /\ reachable = TRUE
        /\ events = {} /\ fetchedAt = -CacheTtl /\ failed = FALSE /\ known = {}
        /\ answer = None

Next == Blackout \/ TimePasses \/ List \/ Drop \/ FeedFlips

Spec == Init /\ [][Next]_vars

-----------------------------------------------------------------------------
TypeOK == /\ now \in 0 .. MaxTime
          /\ listed \subseteq Listings
          /\ {reachable, failed} \subseteq BOOLEAN
          /\ events \subseteq Events /\ known \subseteq Events
          /\ fetchedAt \in -CacheTtl .. now
          /\ answer \in {None} \cup [sym : Symbols, found : {"event", "nothing"}]

Asked == answer # None

(* The cache bounds what the guard can miss: an event of the symbol that   *)
(* has been in the calendar for a whole CacheTtl blacks the symbol out on  *)
(* both sides of the event, unless the last fetch failed.                  *)
ListedEventsAreGuarded ==
    Asked /\ ~failed =>
        \A l \in listed :
            l.since + CacheTtl <= now /\ InWindow(l.event, answer.sym, now)
                => answer.found = "event"

(* An outage costs no event the guard has already seen: it stays guarded   *)
(* for as long as the calendar has it.                                     *)
KnownEventsStayGuarded ==
    Asked => \A l \in listed :
        l.event \in known /\ InWindow(l.event, answer.sym, now)
            => answer.found = "event"
=============================================================================
