------------------------------- MODULE OddsApi -------------------------------
(***************************************************************************)
(* The client of the paid odds API (src/clients/odds_api.py): a cache with *)
(* a time to live per sport, a breaker that stops all requests once the    *)
(* quota is used up, and a bounded retry.  Cache and breaker are class     *)
(* state: every client of the process shares them, and the health endpoint *)
(* re-arms the breaker by asking for it.  The only caller of get_odds() is *)
(* motor 2, one sport at a time; see Consensus.                            *)
(*                                                                         *)
(* Time is relative: an entry and a trip have an age in ticks.             *)
(***************************************************************************)
EXTENDS Integers, FiniteSets

CONSTANTS
  Sports,      \* odds_api_sport_keys
  Events,      \* events the API may list
  SportOf,     \* the sport of an event
  BookLists,   \* what bookmakers may quote for an event: sequences of quotes
  TTL,         \* ODDS_API_CACHE_TTL_SEC
  QuotaCooldown,    \* ODDS_API_QUOTA_COOLDOWN_SEC
  RetryAttempts,    \* RETRY_ATTEMPTS
  CacheMaxEntries,  \* CACHE_MAX_ENTRIES
  None

(* The cache is cleared when it is full, also to refresh an entry of its   *)
(* own: it serves fewer sports than it has entries.                        *)
ASSUME OddsApiAssumption ==
  /\ SportOf \in [Events -> Sports]
  /\ TTL \in Nat
  /\ {QuotaCooldown, RetryAttempts, CacheMaxEntries} \subseteq Nat \ {0}
  /\ IsFiniteSet(Sports)
  /\ Cardinality(Sports) < CacheMaxEntries
  /\ IsFiniteSet(Events)
  /\ IsFiniteSet(BookLists)

(* A list of events, with the quotes of the answer it came in. *)
Listing == {l \in SUBSET (Events \X BookLists) : \A x, y \in l : x[1] = y[1] => x = y}

Listings(s) == {l \in Listing : \A x \in l : SportOf[x[1]] = s}

Entries == [age : Nat, events : SUBSET (Events \X BookLists)]

ASSUME NoneAssumption == None \notin Entries

VARIABLES
  cache,     \* _cache: None or the events of a sport and their age
  trip,      \* _quota_exhausted_at: None or its age and whether a month has begun since
  call,      \* the request of get_odds(): None, or its sport, attempt and state
  reply,     \* what get_odds() returned: None until it does
  fetched,   \* history: ticks since the last answer with events of a sport, at most TTL
  refused    \* history: the last answer that said the quota is used up, like trip

client == <<cache, trip, call, reply, fetched, refused>>

Trips == [age : 0 .. QuotaCooldown, newMonth : BOOLEAN]

ClientInit ==
  /\ cache = [s \in Sports |-> None]
  /\ trip = None
  /\ call = None
  /\ reply = None
  /\ fetched = [s \in Sports |-> TTL]
  /\ refused = None

(* Whether a trip still counts. *)
Lasts(t) == t # None /\ ~t.newMonth /\ t.age < QuotaCooldown

-----------------------------------------------------------------------------
(* The breaker.                                                            *)

(* quota_breaker_active() of what the caller finds: also re-arms. *)
Rearmed_ByMonth == IF trip # None /\ ~trip.newMonth THEN trip ELSE None
Rearmed == IF Lasts(trip) THEN trip ELSE None

(* _trip_quota_breaker(): keeps the first instant. *)
Tripped == IF trip = None THEN [age |-> 0, newMonth |-> FALSE] ELSE trip

(* GET /stats/consensus asks for the state of the breaker: re-arms it too. *)
HealthAsks ==
  /\ trip' = Rearmed
  /\ UNCHANGED <<cache, call, reply, fetched, refused>>

-----------------------------------------------------------------------------
(* get_odds(s).                                                            *)

Returns(events) ==
  /\ call' = None
  /\ reply' = [events |-> events]

Fresh(s) == cache[s] # None /\ cache[s].age < TTL

GetOdds(s) ==
  /\ trip' = Rearmed
  /\ \/ /\ Lasts(trip)
        /\ Returns({})
     \/ /\ ~Lasts(trip) /\ Fresh(s)
        /\ Returns(cache[s].events)
     \/ /\ ~Lasts(trip) /\ ~Fresh(s)
        /\ call' = [sport |-> s, attempt |-> 1, state |-> "sent"]
        /\ UNCHANGED reply
  /\ UNCHANGED <<cache, fetched, refused>>

Cached == {s \in Sports : cache[s] # None}

Stored(s, events) ==
  LET room == IF Cardinality(Cached) >= CacheMaxEntries THEN [t \in Sports |-> None] ELSE cache
  IN  [room EXCEPT ![s] = [age |-> 0, events |-> events]]

Sent == call # None /\ call.state = "sent"

(* Malformed events are dropped one by one; the rest is an answer. *)
Answered ==
  /\ Sent
  /\ \E events \in Listings(call.sport) :
       /\ cache' = Stored(call.sport, events)
       /\ fetched' = [fetched EXCEPT ![call.sport] = 0]
       /\ Returns(events)
  /\ UNCHANGED <<trip, refused>>

(* 401 without credits, or 429. *)
Refused ==
  /\ Sent
  /\ trip' = Tripped
  /\ refused' = [age |-> 0, newMonth |-> FALSE]
  /\ Returns({})
  /\ UNCHANGED <<cache, fetched>>

(* 401 of an invalid key: no retry, no breaker. *)
Unauthorized ==
  /\ Sent
  /\ Returns({})
  /\ UNCHANGED <<cache, trip, fetched, refused>>

(* Timeout, network error or another status. *)
Failed ==
  /\ Sent
  /\ call' = [call EXCEPT !.state = "backoff"]
  /\ UNCHANGED <<cache, trip, reply, fetched, refused>>

Retries_Unbounded ==
  /\ call # None /\ call.state = "backoff"
  /\ call' = [call EXCEPT !.attempt = @ + 1, !.state = "sent"]
  /\ UNCHANGED <<cache, trip, reply, fetched, refused>>

(* Sleeps after the last attempt too, then gives up. *)
Retries ==
  /\ call # None /\ call.state = "backoff"
  /\ \/ /\ call.attempt < RetryAttempts
        /\ call' = [call EXCEPT !.attempt = @ + 1, !.state = "sent"]
        /\ UNCHANGED reply
     \/ /\ call.attempt = RetryAttempts
        /\ Returns({})
  /\ UNCHANGED <<cache, trip, fetched, refused>>

-----------------------------------------------------------------------------
Older(t) == IF t # None /\ t.age < QuotaCooldown THEN [t EXCEPT !.age = @ + 1] ELSE t

ClientTick ==
  /\ trip' = Older(trip)
  /\ refused' = Older(refused)
  /\ cache' = [s \in Sports |->
                 IF Fresh(s) THEN [cache[s] EXCEPT !.age = @ + 1] ELSE cache[s]]
  /\ fetched' = [s \in Sports |-> IF fetched[s] < TTL THEN fetched[s] + 1 ELSE TTL]
  /\ UNCHANGED <<call, reply>>

NextMonth(t) == IF t = None THEN None ELSE [t EXCEPT !.newMonth = TRUE]

MonthBegins ==
  /\ trip' = NextMonth(trip)
  /\ refused' = NextMonth(refused)
  /\ UNCHANGED <<cache, call, reply, fetched>>
=============================================================================
