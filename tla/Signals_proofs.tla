--------------------------- MODULE Signals_proofs ---------------------------
(***************************************************************************)
(* Proofs about the motors that only record, and share no state: motor 2   *)
(* (Consensus) with the OddsApi client it uses, for any sports, events,    *)
(* quotes, times to live, cooldowns and numbers of attempts; motors 4 and  *)
(* 5 (Measurement), for any legs, mids, delays, windows and queue length.  *)
(***************************************************************************)
EXTENDS Consensus, Measurement, NumberLemmas, SequenceTheorems

Calls == [sport : Sports, attempt : 1 .. RetryAttempts, state : {"sent", "backoff"}]

(* The types that the safety properties need. *)
TypesInv ==
  /\ cache \in [Sports -> Entries \cup {None}]
  /\ trip \in Trips \cup {None}
  /\ refused \in Trips \cup {None}
  /\ call \in Calls \cup {None}
  /\ fetched \in [Sports -> 0 .. TTL]
  /\ todo \in Seq(Sports)

(* cycle() has one request or one answer at a time, of the first sport     *)
(* that is still to be fetched.                                            *)
OneAtATime ==
  /\ call # None => reply = None
  /\ call # None \/ reply # None => todo # << >> /\ stage = "fetching"

(* The breaker knows of the last refusal for as long as it counts, and no  *)
(* request is under way while it is open.                                  *)
BreakerRemembers ==
  /\ Lasts(refused) => trip = refused
  /\ call # None => trip = None

(* An answer is served from the cache until it is as old as the time to    *)
(* live, so the sport of a request has none that young.                    *)
CacheRemembers ==
  /\ \A s \in Sports : fetched[s] < TTL => cache[s] # None /\ cache[s].age = fetched[s]
  /\ call # None => fetched[call.sport] = TTL

IInv == TypesInv /\ OneAtATime /\ BreakerRemembers /\ CacheRemembers

-----------------------------------------------------------------------------
LEMMA Parameters ==
  /\ TTL \in Nat /\ QuotaCooldown \in Nat \ {0} /\ RetryAttempts \in Nat \ {0}
  /\ None \notin Entries
  /\ SportKeys \in Seq(Sports)
BY OddsApiAssumption, NoneAssumption, ConsensusAssumption
   DEF OddsApiAssumption, NoneAssumption, ConsensusAssumption

(* The cache is never cleared: it has room for every sport. *)
LEMMA CacheHasRoom ==
  ASSUME NEW s, NEW events
  PROVE  Stored(s, events) = [cache EXCEPT ![s] = [age |-> 0, events |-> events]]
<1>1. Cached \in SUBSET Sports
  BY DEF Cached
<1>2. IsFiniteSet(Sports) /\ Cardinality(Sports) < CacheMaxEntries /\ CacheMaxEntries \in Nat
  BY OddsApiAssumption DEF OddsApiAssumption
<1>3. IsFiniteSet(Cached) /\ Cardinality(Cached) =< Cardinality(Sports)
  BY <1>1, <1>2, FS_Subset
<1>4. Cardinality(Cached) \in Nat /\ Cardinality(Sports) \in Nat
  BY <1>2, <1>3, FS_CardinalityType
<1>5. ~(Cardinality(Cached) >= CacheMaxEntries)
  BY <1>2, <1>3, <1>4
<1> QED BY <1>5 DEF Stored

LEMMA InitIInv == Init => IInv
<1> SUFFICES ASSUME Init PROVE IInv
  OBVIOUS
<1> USE Parameters
<1>1. TypesInv
  BY DEF Init, ClientInit, TypesInv
<1>2. OneAtATime /\ BreakerRemembers
  BY DEF Init, ClientInit, OneAtATime, BreakerRemembers, Lasts
<1>3. CacheRemembers
  BY DEF Init, ClientInit, CacheRemembers
<1> QED BY <1>1, <1>2, <1>3 DEF IInv

(* Asking for the breaker drops only a trip that counts no longer. *)
LEMMA RearmedKeeps ==
  ASSUME TypesInv, BreakerRemembers
  PROVE  /\ Rearmed \in Trips \cup {None}
         /\ Lasts(refused) => Rearmed = refused
         /\ trip = None => Rearmed = None
         /\ ~Lasts(trip) => Rearmed = None
BY DEF Rearmed, Lasts, TypesInv, BreakerRemembers

-----------------------------------------------------------------------------
(* The answers to a request. *)
LEMMA EndingKeepsIInv ==
  ASSUME IInv, RequestEnds
  PROVE  IInv'
<1> USE Parameters
<1>0. TypesInv /\ OneAtATime /\ BreakerRemembers /\ CacheRemembers /\ Sent /\ call # None
  BY DEF IInv, RequestEnds, Answered, Refused, Unauthorized, Failed, Sent
<1>m. UNCHANGED <<stage, todo>>
  BY DEF RequestEnds, motor
<1>1. CASE Answered
  <2>1. PICK events \in Listings(call.sport) :
          /\ cache' = Stored(call.sport, events)
          /\ fetched' = [fetched EXCEPT ![call.sport] = 0]
          /\ call' = None
    BY <1>1 DEF Answered, Returns
  <2>2. cache' = [cache EXCEPT ![call.sport] = [age |-> 0, events |-> events]]
    BY <2>1, CacheHasRoom
  <2>3. [age |-> 0, events |-> events] \in Entries
    BY DEF Entries, Listings, Listing
  <2>4. trip' = trip /\ refused' = refused
    BY <1>1 DEF Answered
  <2>5. TypesInv'
    <3>1. call.sport \in Sports
      BY <1>0 DEF TypesInv, Calls
    <3>2. cache' \in [Sports -> Entries \cup {None}] /\ fetched' \in [Sports -> 0 .. TTL]
      BY <1>0, <2>1, <2>2, <2>3, <3>1 DEF TypesInv
    <3> QED BY <1>0, <1>m, <2>1, <2>4, <3>2 DEF TypesInv
  <2>6. OneAtATime' /\ BreakerRemembers'
    <3>1. OneAtATime'
      BY <1>0, <1>m, <2>1 DEF OneAtATime
    <3>2. BreakerRemembers'
      BY <1>0, <2>1, <2>4, Zenon DEF BreakerRemembers, Lasts
    <3> QED BY <3>1, <3>2
  <2>7. ASSUME NEW s \in Sports, fetched'[s] < TTL PROVE cache'[s] # None /\ cache'[s].age = fetched'[s]
    <3>1. CASE s = call.sport
      <4>1. cache'[s] = [age |-> 0, events |-> events] /\ fetched'[s] = 0
        BY <1>0, <2>1, <2>2, <3>1 DEF TypesInv
      <4> QED BY <2>3, <4>1
    <3>2. CASE s # call.sport
      BY <1>0, <2>1, <2>2, <2>7, <3>2 DEF TypesInv, CacheRemembers
    <3> QED BY <3>1, <3>2
  <2>8. CacheRemembers'
    BY <2>1, <2>7 DEF CacheRemembers
  <2> QED BY <2>5, <2>6, <2>8 DEF IInv
<1>2. CASE Refused
  <2>1. /\ call' = None /\ UNCHANGED <<cache, fetched>>
        /\ trip' = [age |-> 0, newMonth |-> FALSE] /\ refused' = [age |-> 0, newMonth |-> FALSE]
    BY <1>0, <1>2 DEF Refused, Returns, Tripped, BreakerRemembers
  <2>2. [age |-> 0, newMonth |-> FALSE] \in Trips
    BY DEF Trips
  <2> QED BY <1>0, <1>m, <2>1, <2>2
          DEF IInv, TypesInv, OneAtATime, BreakerRemembers, CacheRemembers, Fresh
<1>3. CASE Unauthorized
  BY <1>0, <1>m, <1>3 DEF Unauthorized, Returns, IInv, TypesInv, OneAtATime, BreakerRemembers,
                          CacheRemembers, Fresh, Lasts
<1>4. CASE Failed
  <2>1. call' \in Calls /\ call'.sport = call.sport
    BY <1>0, <1>4 DEF Failed, TypesInv, Calls
  <2> QED BY <1>0, <1>m, <1>4, <2>1 DEF Failed, IInv, TypesInv, OneAtATime, BreakerRemembers,
                                        CacheRemembers, Fresh, Lasts
<1> QED BY <1>1, <1>2, <1>3, <1>4 DEF RequestEnds

LEMMA BacksOffKeepsIInv ==
  ASSUME IInv, BacksOff
  PROVE  IInv'
<1> USE Parameters
<1>0. TypesInv /\ OneAtATime /\ BreakerRemembers /\ CacheRemembers /\ call # None
  BY DEF IInv, BacksOff, Retries
<1>1. UNCHANGED <<stage, todo, cache, trip, fetched, refused>>
  BY DEF BacksOff, Retries, motor
<1>2. CASE call' = None
  BY <1>0, <1>1, <1>2 DEF IInv, TypesInv, OneAtATime, BreakerRemembers, CacheRemembers, Fresh, Lasts
<1>3. CASE /\ call' = [call EXCEPT !.attempt = @ + 1, !.state = "sent"]
           /\ call.attempt < RetryAttempts
           /\ UNCHANGED reply
  <2>0. call \in Calls /\ call.attempt \in 1 .. RetryAttempts
    BY <1>0 DEF TypesInv, Calls
  <2>a. call.attempt + 1 \in 1 .. RetryAttempts
    BY <1>3, <2>0
  <2>1. call' \in Calls /\ call'.sport = call.sport
    BY <1>3, <2>0, <2>a DEF Calls
  <2> QED BY <1>0, <1>1, <1>3, <2>1 DEF IInv, TypesInv, OneAtATime, BreakerRemembers,
                                        CacheRemembers, Fresh, Lasts
<1> QED BY <1>2, <1>3 DEF BacksOff, Retries, Returns

(* get_odds() of the next sport. *)
LEMMA FetchKeepsIInv ==
  ASSUME IInv, FetchNext
  PROVE  IInv'
<1> USE Parameters
<1> DEFINE s == Head(todo)
<1>0. TypesInv /\ OneAtATime /\ BreakerRemembers /\ CacheRemembers
  BY DEF IInv
<1>1. /\ s \in Sports /\ todo # << >> /\ UNCHANGED <<stage, todo>> /\ call = None /\ reply = None
      /\ stage = "fetching"
      /\ UNCHANGED <<cache, fetched, refused>>
      /\ trip' = Rearmed
  BY <1>0 DEF FetchNext, GetOdds, TypesInv, motor
<1>2. CacheRemembers' \/ call' # None
  BY <1>0, <1>1 DEF CacheRemembers, Fresh
<1>3. CASE call' = None
  <2>1. TypesInv'
    BY <1>0, <1>1, <1>3, RearmedKeeps DEF TypesInv
  <2>2. OneAtATime' /\ BreakerRemembers'
    BY <1>0, <1>1, <1>3, RearmedKeeps DEF OneAtATime, BreakerRemembers, Lasts
  <2> QED BY <1>2, <1>3, <2>1, <2>2 DEF IInv
<1>4. CASE /\ ~Lasts(trip) /\ ~Fresh(s)
           /\ call' = [sport |-> s, attempt |-> 1, state |-> "sent"]
           /\ UNCHANGED reply
  <2>1. call' \in Calls /\ call'.sport = s
    BY <1>1, <1>4 DEF Calls
  <2>2. fetched[s] = TTL
    BY <1>0, <1>1, <1>4 DEF CacheRemembers, TypesInv, Fresh
  <2>3. TypesInv'
    BY <1>0, <1>1, <2>1, RearmedKeeps DEF TypesInv
  <2>4. OneAtATime' /\ BreakerRemembers'
    BY <1>0, <1>1, <1>4, RearmedKeeps DEF OneAtATime, BreakerRemembers, Lasts
  <2>5. CacheRemembers'
    BY <1>0, <1>1, <2>1, <2>2 DEF CacheRemembers, Fresh
  <2> QED BY <2>3, <2>4, <2>5 DEF IInv
<1> QED BY <1>3, <1>4 DEF FetchNext, GetOdds, Returns

(* The rest of the cycle. *)
LEMMA CycleKeepsIInv ==
  ASSUME IInv, CycleBegins \/ Collects \/ AnswerRaises \/ EvaluatesAny
  PROVE  IInv'
<1> USE Parameters
<1>0. TypesInv /\ OneAtATime /\ BreakerRemembers /\ CacheRemembers
  BY DEF IInv
<1>1. CASE CycleBegins
  <2>1. UNCHANGED <<cache, call, reply, fetched, refused>> /\ trip' = Rearmed
    BY <1>1 DEF CycleBegins
  <2>2. call = None /\ reply = None
    BY <1>0, <1>1 DEF CycleBegins, OneAtATime
  <2>3. todo' \in Seq(Sports)
    BY <1>0, <1>1 DEF CycleBegins, TypesInv
  <2>4. TypesInv'
    BY <1>0, <2>1, <2>3, RearmedKeeps DEF TypesInv
  <2>5. OneAtATime' /\ BreakerRemembers'
    BY <1>0, <2>1, <2>2, RearmedKeeps DEF OneAtATime, BreakerRemembers, Lasts
  <2>6. CacheRemembers'
    BY <1>0, <2>1 DEF CacheRemembers, Fresh
  <2> QED BY <2>4, <2>5, <2>6 DEF IInv
<1>2. CASE Collects
  <2>1. todo # << >> /\ call = None
    BY <1>0, <1>2 DEF Collects, OneAtATime
  <2>2. Tail(todo) \in Seq(Sports)
    BY <1>0, <2>1 DEF TypesInv
  <2> QED BY <1>0, <1>2, <2>1, <2>2 DEF Collects, IInv, TypesInv, OneAtATime, BreakerRemembers,
                                        CacheRemembers, Fresh, Lasts
<1>3. CASE AnswerRaises
  BY <1>0, <1>3 DEF AnswerRaises, Sent, IInv, TypesInv, OneAtATime, BreakerRemembers,
                    CacheRemembers, Fresh, Lasts
<1>4. CASE EvaluatesAny
  <2>1. UNCHANGED <<cache, trip, call, reply, fetched, refused, todo>>
    BY <1>4 DEF EvaluatesAny, Evaluates, client
  <2>2. call = None /\ reply = None
    BY <1>0, <1>4 DEF EvaluatesAny, Evaluates, OneAtATime
  <2> QED BY <1>0, <2>1, <2>2 DEF IInv, TypesInv, OneAtATime, BreakerRemembers, CacheRemembers, Fresh,
                            Lasts
<1> QED BY <1>1, <1>2, <1>3, <1>4

LEMMA OlderKeeps ==
  ASSUME NEW t \in Trips \cup {None}
  PROVE  /\ Older(t) \in Trips \cup {None}
         /\ Lasts(Older(t)) => Lasts(t)
<1>1. CASE t # None /\ t.age < QuotaCooldown
  <2>0. t \in Trips /\ t.age + 1 \in 0 .. QuotaCooldown
    BY <1>1, Parameters DEF Trips
  <2>1. Older(t) = [t EXCEPT !.age = @ + 1]
    BY <1>1 DEF Older
  <2>2. Older(t) \in Trips /\ Older(t).newMonth = t.newMonth
    BY <2>0, <2>1 DEF Trips
  <2>3. Lasts(Older(t)) => ~t.newMonth
    BY <2>2, Zenon DEF Lasts
  <2> QED BY <1>1, <2>2, <2>3, Zenon DEF Lasts
<1>2. CASE ~(t # None /\ t.age < QuotaCooldown)
  BY <1>2 DEF Older
<1> QED BY <1>1, <1>2

(* Time: an entry, a trip and the refusal it stands for age together. *)
LEMMA TimeKeepsIInv ==
  ASSUME IInv, Tick \/ Outside
  PROVE  IInv'
<1> USE Parameters
<1>0. TypesInv /\ OneAtATime /\ BreakerRemembers /\ CacheRemembers
  BY DEF IInv
<1>1. UNCHANGED <<call, reply, stage, todo>>
  BY DEF Tick, Outside, ClientTick, HealthAsks, MonthBegins, motor
<1>2. OneAtATime'
  BY <1>0, <1>1 DEF OneAtATime
<1>3. CASE Tick
  <2>1. /\ trip' = Older(trip) /\ refused' = Older(refused)
        /\ cache' = [s \in Sports |-> IF Fresh(s) THEN [cache[s] EXCEPT !.age = @ + 1] ELSE cache[s]]
        /\ fetched' = [s \in Sports |-> IF fetched[s] < TTL THEN fetched[s] + 1 ELSE TTL]
    BY <1>3 DEF Tick, ClientTick
  <2>2. /\ Older(trip) \in Trips \cup {None}
        /\ Older(refused) \in Trips \cup {None}
        /\ Lasts(Older(refused)) => Lasts(refused)
    BY <1>0, OlderKeeps DEF TypesInv
  <2>3. BreakerRemembers'
    <3>1. Lasts(Older(refused)) => Older(trip) = Older(refused)
      BY <1>0, <2>2 DEF BreakerRemembers
    <3>2. trip = None => Older(trip) = None
      BY DEF Older
    <3>3. Lasts(refused)' => Lasts(Older(refused))
      BY <2>1 DEF Lasts
    <3> QED BY <1>0, <1>1, <2>1, <3>1, <3>2, <3>3 DEF BreakerRemembers
  <2>4. ASSUME NEW s \in Sports
        PROVE  /\ fetched'[s] \in 0 .. TTL /\ fetched[s] =< fetched'[s]
               /\ fetched'[s] < TTL => fetched'[s] = fetched[s] + 1
    BY <1>0, <2>1 DEF TypesInv
  <2>5. ASSUME NEW s \in Sports
        PROVE  /\ cache'[s] \in Entries \cup {None}
               /\ Fresh(s) => cache'[s] # None /\ cache'[s].age = cache[s].age + 1
    <3>1. cache[s] \in Entries \cup {None}
      BY <1>0 DEF TypesInv
    <3>2. CASE ~Fresh(s)
      BY <2>1, <3>1, <3>2
    <3>3. CASE Fresh(s)
      <4>1. cache'[s] = [cache[s] EXCEPT !.age = @ + 1] /\ cache[s] \in Entries
        BY <2>1, <3>1, <3>3 DEF Fresh
      <4>2. cache'[s] \in Entries /\ cache'[s].age = cache[s].age + 1
        BY <4>1 DEF Entries
      <4> QED BY <4>2
    <3> QED BY <3>2, <3>3
  <2>6. TypesInv'
    BY <1>0, <1>1, <2>1, <2>2, <2>4, <2>5 DEF TypesInv
  <2>7. ASSUME NEW s \in Sports, fetched'[s] < TTL PROVE cache'[s] # None /\ cache'[s].age = fetched'[s]
    <3>1. fetched'[s] = fetched[s] + 1 /\ fetched[s] < TTL
      BY <1>0, <2>4, <2>7 DEF TypesInv
    <3>2. cache[s].age = fetched[s] /\ Fresh(s)
      BY <1>0, <3>1 DEF CacheRemembers, Fresh
    <3> QED BY <2>5, <3>1, <3>2
  <2>8. call # None => fetched'[call.sport] = TTL
    BY <1>0, <2>1 DEF CacheRemembers, TypesInv, Calls
  <2> QED BY <1>1, <1>2, <2>3, <2>6, <2>7, <2>8 DEF IInv, CacheRemembers
<1>4. CASE Outside
  <2>1. UNCHANGED <<cache, fetched>>
    BY <1>4 DEF Outside, HealthAsks, MonthBegins
  <2>2. CacheRemembers'
    BY <1>0, <1>1, <2>1 DEF CacheRemembers
  <2>3. CASE HealthAsks
    <3>1. trip' = Rearmed /\ refused' = refused
      BY <2>3 DEF HealthAsks
    <3>2. TypesInv'
      BY <1>0, <1>1, <2>1, <3>1, RearmedKeeps DEF TypesInv
    <3>3. BreakerRemembers'
      BY <1>0, <1>1, <3>1, RearmedKeeps DEF BreakerRemembers, Lasts
    <3> QED BY <1>2, <2>2, <3>2, <3>3 DEF IInv
  <2>4. CASE MonthBegins
    <3>1. trip' = NextMonth(trip) /\ refused' = NextMonth(refused)
      BY <2>4 DEF MonthBegins
    <3>2. /\ NextMonth(trip) \in Trips \cup {None}
          /\ NextMonth(refused) \in Trips \cup {None}
          /\ ~Lasts(NextMonth(refused))
          /\ trip = None => NextMonth(trip) = None
      BY <1>0 DEF NextMonth, Trips, TypesInv, Lasts
    <3>3. TypesInv'
      BY <1>0, <1>1, <2>1, <3>1, <3>2 DEF TypesInv
    <3>4. ~Lasts(refused)'
      BY <3>1, <3>2 DEF Lasts
    <3>5. BreakerRemembers'
      BY <1>0, <1>1, <3>1, <3>2, <3>4 DEF BreakerRemembers
    <3> QED BY <1>2, <2>2, <3>3, <3>5 DEF IInv
  <2> QED BY <1>4, <2>3, <2>4 DEF Outside
<1> QED BY <1>3, <1>4

LEMMA NextKeepsIInv == IInv /\ [Next]_vars => IInv'
<1> SUFFICES ASSUME IInv, [Next]_vars PROVE IInv'
  OBVIOUS
<1>1. CASE Next
  BY <1>1, EndingKeepsIInv, BacksOffKeepsIInv, FetchKeepsIInv, CycleKeepsIInv, TimeKeepsIInv, Zenon
     DEF Next
<1>2. CASE UNCHANGED vars
  <2>1. UNCHANGED <<cache, trip, call, reply, fetched, refused, stage, todo>>
    BY <1>2 DEF vars, client, motor
  <2> QED BY <2>1, Zenon DEF IInv, TypesInv, OneAtATime, BreakerRemembers, CacheRemembers, Lasts
<1> QED BY <1>1, <1>2

LEMMA IInvHolds == Spec => []IInv
BY InitIInv, NextKeepsIInv, PTL DEF Spec

-----------------------------------------------------------------------------
(* The only steps that send a request are the next fetch of a cycle and a  *)
(* retry; the rest leaves none on its way that was not.                    *)
LEMMA WhoSends ==
  ASSUME IInv, Next, ~Sent, Sent'
  PROVE  FetchNext \/ BacksOff
<1>1. call' # call /\ call' # None
  BY DEF Sent
<1>2. ~(CycleBegins \/ Collects \/ AnswerRaises \/ EvaluatesAny \/ Tick \/ Outside)
  BY <1>1 DEF CycleBegins, Collects, AnswerRaises, EvaluatesAny, Evaluates, Tick, ClientTick, Outside,
          HealthAsks, MonthBegins, client
<1>3. ~RequestEnds
  BY DEF RequestEnds, Answered, Refused, Unauthorized, Failed, Sent
<1> QED BY <1>2, <1>3, Zenon DEF Next

(* The paid API is not hammered: whatever the number of cycles, sports and *)
(* health checks, no request leaves while the breaker should be open, none *)
(* for a sport answered within the time to live, and no retry is one too   *)
(* many.                                                                   *)
THEOREM CallsAreSparedHolds == Spec => CallsAreSpared
<1>1. IInv /\ [Next]_vars =>
        [~Sent /\ Sent' => /\ ~Lasts(refused)
                          /\ fetched[call'.sport] >= TTL
                          /\ call'.attempt =< RetryAttempts]_vars
  <2> SUFFICES ASSUME IInv, Next, ~Sent, Sent'
               PROVE  /\ ~Lasts(refused)
                      /\ fetched[call'.sport] >= TTL
                      /\ call'.attempt =< RetryAttempts
    BY Zenon
  <2> USE Parameters
  <2>0. TypesInv /\ OneAtATime /\ BreakerRemembers /\ CacheRemembers
    BY DEF IInv
  <2>1. CASE FetchNext
    <3> DEFINE s == Head(todo)
    <3>1. s \in Sports
      BY <2>0, <2>1 DEF FetchNext, TypesInv
    <3>2. /\ ~Lasts(trip) /\ ~Fresh(s)
          /\ call' = [sport |-> s, attempt |-> 1, state |-> "sent"]
      BY <2>1 DEF FetchNext, GetOdds, Returns, Sent
    <3>3. ~Lasts(refused)
      BY <2>0, <3>2 DEF BreakerRemembers
    <3>4. fetched[s] \in 0 .. TTL /\ (fetched[s] < TTL => cache[s] # None /\ cache[s].age = fetched[s])
      BY <2>0, <3>1 DEF CacheRemembers, TypesInv
    <3>5. fetched[s] = TTL
      BY <3>2, <3>4 DEF Fresh
    <3> HIDE DEF s
    <3> QED BY <3>2, <3>3, <3>5
  <2>2. CASE BacksOff
    <3>1. /\ call # None /\ call.attempt < RetryAttempts
          /\ call' = [call EXCEPT !.attempt = @ + 1, !.state = "sent"]
      BY <2>2 DEF BacksOff, Retries, Returns, Sent
    <3>2. call \in Calls /\ call.attempt \in 1 .. RetryAttempts
      BY <2>0, <3>1 DEF TypesInv, Calls
    <3>3. call'.sport = call.sport /\ call'.attempt = call.attempt + 1
      BY <3>1, <3>2 DEF Calls
    <3>4. ~Lasts(refused) /\ fetched[call.sport] = TTL
      BY <2>0, <3>1 DEF BreakerRemembers, CacheRemembers, Lasts
    <3> QED BY <3>1, <3>2, <3>3, <3>4
  <2> QED BY <2>1, <2>2, WhoSends
<1> QED BY <1>1, IInvHolds, PTL DEF Spec, CallsAreSpared

(* What motor 2 remembers as recorded is the last row of its market and    *)
(* side, unless the commit of that row failed.                             *)
LEMMA NextKeepsRemembered == RememberedIsStored /\ [Next]_vars => RememberedIsStored'
<1> SUFFICES ASSUME RememberedIsStored, [Next]_vars, NEW k \in Keys
             PROVE  (remembered[k] = stored[k] \/ lost[k])'
  BY Zenon DEF RememberedIsStored
<1>1. CASE EvaluatesAny
  <2>1. PICK quotes \in [Markets -> Quotes], commits \in BOOLEAN : Evaluates(quotes, commits)
    BY <1>1, Zenon DEF EvaluatesAny
  <2> DEFINE new == {s \in {Signal(m, got, quotes[m]) : m \in Markets} \ {None} : Changed(s)}
             mine == \E s \in new : KeyOf(s) = k
             mark == Fingerprint(CHOOSE s \in new : KeyOf(s) = k)
  <2>2. /\ remembered' = Remembers(new)
        /\ stored' = [j \in Keys |-> IF commits /\ \E s \in new : KeyOf(s) = j
                                     THEN Fingerprint(CHOOSE s \in new : KeyOf(s) = j)
                                     ELSE stored[j]]
        /\ lost' = [j \in Keys |-> IF \E s \in new : KeyOf(s) = j THEN ~commits ELSE lost[j]]
    BY <2>1 DEF Evaluates
  <2>3. /\ remembered'[k] = IF mine THEN mark ELSE remembered[k]
        /\ stored'[k] = IF commits /\ mine THEN mark ELSE stored[k]
        /\ lost'[k] = IF mine THEN ~commits ELSE lost[k]
    BY <2>2, Zenon DEF Remembers
  <2>4. remembered[k] = stored[k] \/ lost[k]
    BY Zenon DEF RememberedIsStored
  <2> HIDE DEF mine, mark
  <2>5. CASE mine /\ commits
    BY <2>3, <2>5, Zenon
  <2>6. CASE mine /\ ~commits
    BY <2>3, <2>6, Zenon
  <2>7. CASE ~mine
    BY <2>3, <2>4, <2>7, Zenon
  <2> QED BY <2>5, <2>6, <2>7, Zenon
<1>2. ASSUME UNCHANGED <<remembered, stored, lost>> PROVE (remembered[k] = stored[k] \/ lost[k])'
  BY <1>2, Zenon DEF RememberedIsStored
<1>3. CASE Next /\ ~EvaluatesAny
  BY <1>2, <1>3 DEF Next, RequestEnds, BacksOff, Outside, CycleBegins, FetchNext, Collects, AnswerRaises,
                    Tick, motor
<1>4. CASE UNCHANGED vars
  BY <1>2, <1>4 DEF vars, motor
<1> QED BY <1>1, <1>3, <1>4

THEOREM RememberedIsStoredHolds == Spec => []RememberedIsStored
<1>1. Init => RememberedIsStored
  BY DEF Init, RememberedIsStored
<1> QED BY <1>1, NextKeepsRemembered, PTL DEF Spec

(* What a cycle has fetched, and what get_odds() has just returned. *)
FetchedEvents ==
  /\ got \subseteq Events \X BookLists
  /\ reply # None => reply.events \subseteq Events \X BookLists

LEMMA NextKeepsFetched == IInv /\ FetchedEvents /\ [Next]_vars => FetchedEvents'
<1> SUFFICES ASSUME IInv, FetchedEvents, [Next]_vars PROVE FetchedEvents'
  OBVIOUS
<1>1. ASSUME UNCHANGED <<got, reply>> PROVE FetchedEvents'
  BY <1>1 DEF FetchedEvents
<1>2. ASSUME UNCHANGED got, NEW x \in SUBSET (Events \X BookLists), Returns(x) PROVE FetchedEvents'
  BY <1>2 DEF FetchedEvents, Returns
<1>3. CASE RequestEnds \/ BacksOff
  <2>1. UNCHANGED got
    BY <1>3 DEF RequestEnds, BacksOff, motor
  <2>2. UNCHANGED reply \/ \E x \in SUBSET (Events \X BookLists) : Returns(x)
    BY <1>3 DEF RequestEnds, BacksOff, Answered, Refused, Unauthorized, Failed, Retries, Listings, Listing
  <2> QED BY <1>1, <1>2, <2>1, <2>2
<1>4. CASE FetchNext
  <2> DEFINE s == Head(todo)
  <2>1. UNCHANGED got
    BY <1>4 DEF FetchNext, motor
  <2>2. s \in Sports
    BY <1>4 DEF FetchNext, IInv, TypesInv
  <2>3. Fresh(s) => cache[s].events \in SUBSET (Events \X BookLists)
    BY <2>2 DEF Fresh, IInv, TypesInv, Entries
  <2>4. UNCHANGED reply \/ Returns({}) \/ (Fresh(s) /\ Returns(cache[s].events))
    BY <1>4 DEF FetchNext, GetOdds
  <2> HIDE DEF s
  <2> QED BY <1>1, <1>2, <2>1, <2>3, <2>4
<1>5. CASE Collects
  BY <1>5 DEF Collects, FetchedEvents
<1>6. CASE CycleBegins \/ AnswerRaises \/ EvaluatesAny
  <2>1. got' = {} /\ UNCHANGED reply
    BY <1>6, Zenon DEF CycleBegins, AnswerRaises, EvaluatesAny, Evaluates, client
  <2> QED BY <2>1 DEF FetchedEvents
<1>7. CASE Tick \/ Outside \/ UNCHANGED vars
  BY <1>1, <1>7, Zenon DEF Tick, Outside, ClientTick, HealthAsks, MonthBegins, motor, vars, client
<1> QED BY <1>3, <1>4, <1>5, <1>6, <1>7, Zenon DEF Next

LEMMA FetchedHolds == Spec => [](IInv /\ FetchedEvents)
<1>1. Init => FetchedEvents
  BY DEF Init, ClientInit, FetchedEvents
<1> QED BY <1>1, InitIInv, NextKeepsIInv, NextKeepsFetched, PTL DEF Spec

(* Of finitely many events one is one: the market's match has no rival. *)
LEMMA OneMatch ==
  ASSUME NEW m, got \subseteq Events \X BookLists, Matched(m, got)
  PROVE  /\ (CHOOSE y \in Matches(m, got) : TRUE) \in got
         /\ \A z \in got : z[1] \in Fits[m] => z = CHOOSE y \in Matches(m, got) : TRUE
<1>1. IsFiniteSet(Events) /\ IsFiniteSet(BookLists)
  BY OddsApiAssumption DEF OddsApiAssumption
<1>2. IsFiniteSet(Events \X BookLists)
  BY <1>1, FS_Product
<1>3. Matches(m, got) \in SUBSET (Events \X BookLists) /\ Matches(m, got) \subseteq got
  BY DEF Matches
<1>4. IsFiniteSet(Matches(m, got))
  BY <1>2, <1>3, FS_Subset
<1>5. PICK x : Matches(m, got) = {x}
  BY <1>4, FS_Singleton DEF Matched
<1>6. (CHOOSE y \in Matches(m, got) : TRUE) = x
  BY <1>5
<1> QED BY <1>3, <1>5, <1>6 DEF Matches

(* A signal comes from the only event of this cycle that fits its market. *)
THEOREM NoAmbiguousSignalHolds == Spec => NoAmbiguousSignal
<1>1. IInv /\ FetchedEvents /\ [Next]_vars =>
        [\A s \in signals' : stage = "fetching" /\ stage' = "asleep" /\ call = None
           => /\ s.event \in got
              /\ \A y \in got : y[1] \in Fits[s.market] => y = s.event]_vars
  <2> SUFFICES ASSUME IInv, FetchedEvents, Next, NEW s \in signals',
                      stage = "fetching", stage' = "asleep", call = None
               PROVE  /\ s.event \in got
                      /\ \A y \in got : y[1] \in Fits[s.market] => y = s.event
    BY Zenon
  <2>1. EvaluatesAny
    <3>1. stage' # stage
      OBVIOUS
    <3>2. ~(RequestEnds \/ BacksOff \/ Outside \/ FetchNext \/ Collects \/ Tick)
      BY <3>1 DEF RequestEnds, BacksOff, Outside, FetchNext, Collects, Tick, motor
    <3>3. ~(CycleBegins \/ AnswerRaises)
      BY DEF CycleBegins, AnswerRaises, Sent
    <3> QED BY <3>2, <3>3, Zenon DEF Next
  <2>2. PICK quotes \in [Markets -> Quotes], commits \in BOOLEAN : Evaluates(quotes, commits)
    BY <2>1, Zenon DEF EvaluatesAny
  <2>3. PICK m \in Markets : s = Signal(m, got, quotes[m]) /\ s # None
    BY <2>2 DEF Evaluates
  <2>4. /\ Matched(m, got) /\ s.market = m
        /\ s.event = CHOOSE y \in Matches(m, got) : TRUE
    BY <2>3 DEF Signal
  <2>5. got \subseteq Events \X BookLists
    BY DEF FetchedEvents
  <2> QED BY <2>4, <2>5, OneMatch
<1> QED BY <1>1, FetchedHolds, PTL DEF Spec, NoAmbiguousSignal

-----------------------------------------------------------------------------
(* The median of finitely many percentages.                                *)

Below(s, v) == {j \in DOMAIN s : s[j] < v}
UpTo(s, v)  == {j \in DOMAIN s : s[j] =< v}

LEMMA Percentages ==
  ASSUME NEW D, IsFiniteSet(D), NEW s \in [D -> 0 .. 100], NEW v
  PROVE  /\ DOMAIN s = D
         /\ Below(s, v) \in SUBSET D /\ IsFiniteSet(Below(s, v))
         /\ UpTo(s, v) \in SUBSET D /\ IsFiniteSet(UpTo(s, v))
         /\ Cardinality(D) \in Nat /\ Cardinality(Below(s, v)) \in Nat /\ Cardinality(UpTo(s, v)) \in Nat
<1>1. Below(s, v) \in SUBSET D /\ UpTo(s, v) \in SUBSET D
  BY DEF Below, UpTo
<1> QED BY <1>1, FS_Subset, FS_CardinalityType

(* The k-th smallest exists: fewer than k are smaller, at least k are not  *)
(* larger.                                                                 *)
LEMMA KthIsRanked ==
  ASSUME NEW D, IsFiniteSet(D), NEW s \in [D -> 0 .. 100], NEW k \in Nat \ {0}, k =< Cardinality(D)
  PROVE  /\ Kth(s, k) \in 0 .. 100
         /\ Cardinality(Below(s, Kth(s, k))) < k
         /\ Cardinality(UpTo(s, Kth(s, k))) >= k
<1> DEFINE V == {v \in Nat : Cardinality(UpTo(s, v)) >= k}
<1>1. UpTo(s, 100) = D
  BY DEF UpTo
<1>2. 100 \in V
  BY <1>1, Percentages
<1>3. PICK v \in V : \A w \in V : v =< w
  <2>1. V \in SUBSET Nat /\ V # {}
    BY <1>2
  <2> HIDE DEF V
  <2> QED BY <2>1, LeastNatural
<1>4. Cardinality(Below(s, v)) < k
  <2>1. CASE v = 0
    <3>1. Below(s, v) = {}
      BY <2>1 DEF Below
    <3> QED BY <3>1, FS_EmptySet
  <2>2. CASE v # 0
    <3>1. v - 1 \in Nat /\ v - 1 \notin V
      BY <1>3, <2>2
    <3>2. Below(s, v) = UpTo(s, v - 1)
      BY <1>3 DEF Below, UpTo
    <3> QED BY <3>1, <3>2, Percentages
  <2> QED BY <2>1, <2>2
<1>5. Cardinality(UpTo(s, v)) >= k
  BY <1>3
<1>6. PICK i \in D : s[i] = v
  <2>1. UpTo(s, v) # Below(s, v)
    BY <1>4, <1>5, Percentages
  <2> QED BY <2>1, <1>3 DEF UpTo, Below
<1> DEFINE P(x) == Cardinality({j \in DOMAIN s : s[j] < s[x]}) < k /\ Cardinality({j \in DOMAIN s : s[j] =< s[x]}) >= k
           x == CHOOSE y \in DOMAIN s : P(y)
<1>7. i \in DOMAIN s /\ P(i)
  BY <1>4, <1>5, <1>6 DEF Below, UpTo
<1>8. x \in DOMAIN s /\ P(x)
  BY <1>7, Zenon
<1>9. Kth(s, k) = s[x]
  BY DEF Kth
<1> QED BY <1>8, <1>9 DEF Below, UpTo

(* Of three or more percentages, two are not above the median and two are  *)
(* not below it.                                                           *)
LEMMA MedianIsBetween ==
  ASSUME NEW D, IsFiniteSet(D), NEW s \in [D -> 0 .. 100], Cardinality(D) >= 3
  PROVE  LET n == Cardinality(D)
             m == (Kth(s, (n + 1) \div 2) + Kth(s, (n \div 2) + 1)) \div 2
         IN  /\ m \in 0 .. 100
             /\ \A i \in D : \E j, k \in D \ {i} : s[j] =< m /\ m =< s[k]
<1> DEFINE n == Cardinality(D)
           a == Kth(s, (n + 1) \div 2)
           b == Kth(s, (n \div 2) + 1)
           m == (a + b) \div 2
<1>1. n \in Nat /\ n >= 3
  BY FS_CardinalityType
<1> HIDE DEF n
<1>2. /\ (n + 1) \div 2 \in Nat \ {0} /\ (n + 1) \div 2 =< n /\ (n + 1) \div 2 >= 2
      /\ (n \div 2) + 1 \in Nat \ {0} /\ (n \div 2) + 1 =< n /\ n - (n \div 2) >= 2
      /\ (n + 1) \div 2 =< (n \div 2) + 1
  BY <1>1
<1>3. a \in 0 .. 100 /\ Cardinality(Below(s, a)) < (n + 1) \div 2 /\ Cardinality(UpTo(s, a)) >= 2
  BY <1>2, KthIsRanked, Percentages DEF n
<1>4. /\ b \in 0 .. 100 /\ Cardinality(Below(s, b)) < (n \div 2) + 1
      /\ Cardinality(UpTo(s, b)) >= (n \div 2) + 1
  BY <1>2, KthIsRanked DEF n
<1> HIDE DEF a, b
<1>5. a =< b
  <2>1. SUFFICES ASSUME b < a PROVE FALSE
    BY <1>3, <1>4
  <2>2. UpTo(s, b) \in SUBSET Below(s, a)
    BY <1>3, <1>4, <2>1 DEF UpTo, Below
  <2>3. Cardinality(UpTo(s, b)) =< Cardinality(Below(s, a))
    BY <2>2, FS_Subset, Percentages
  <2>4. Cardinality(UpTo(s, b)) \in Nat /\ Cardinality(Below(s, a)) \in Nat
    BY Percentages
  <2> QED BY <1>2, <1>3, <1>4, <2>3, <2>4
<1>6. m \in 0 .. 100 /\ a =< m /\ m =< b
  BY <1>3, <1>4, <1>5
<1> DEFINE NotBelow == D \ Below(s, b)
<1>7. IsFiniteSet(NotBelow) /\ Cardinality(NotBelow) >= 2
  <2>1. D \cap Below(s, b) = Below(s, b)
    BY Percentages
  <2>2. IsFiniteSet(NotBelow) /\ Cardinality(NotBelow) = n - Cardinality(Below(s, b))
    BY <2>1, FS_Difference DEF n
  <2> QED BY <1>1, <1>2, <1>4, <2>2, Percentages
<1>8. ASSUME NEW T, IsFiniteSet(T), Cardinality(T) >= 2, NEW i PROVE \E j \in T : j # i
  <2>1. SUFFICES ASSUME \A j \in T : j = i PROVE FALSE
    OBVIOUS
  <2>2. T \in SUBSET {i}
    BY <2>1
  <2>3. IsFiniteSet({i}) /\ Cardinality({i}) = 1
    BY FS_Singleton
  <2>4. Cardinality(T) =< 1 /\ Cardinality(T) \in Nat
    BY <2>2, <2>3, FS_Subset, FS_CardinalityType
  <2> QED BY <1>8, <2>4
<1>9. ASSUME NEW i \in D PROVE \E j, k \in D \ {i} : s[j] =< m /\ m =< s[k]
  <2>1. PICK j \in UpTo(s, a) : j # i
    BY <1>3, <1>8, Percentages
  <2>2. PICK k \in NotBelow : k # i
    BY <1>7, <1>8
  <2>3. j \in D \ {i} /\ s[j] =< a /\ s[j] \in 0 .. 100
    BY <2>1 DEF UpTo
  <2>4. k \in D \ {i} /\ s[k] >= b /\ s[k] \in 0 .. 100
    BY <1>4, <2>2 DEF Below
  <2>5. s[j] =< m /\ m =< s[k]
    BY <1>3, <1>4, <1>6, <2>3, <2>4
  <2> QED BY <2>3, <2>4, <2>5
<1> QED BY <1>6, <1>9 DEF a, b, n
-----------------------------------------------------------------------------
(* What a signal that is recorded as good says.                            *)

LEMMA FeeIsNatural ==
  ASSUME NEW price \in Int, price \in 0 .. 100
  PROVE  ClobFee(price, FeeBps) \in Nat
<1> DEFINE x == IF price < 100 - price THEN price ELSE 100 - price
<1>1. x \in Nat /\ FeeBps \in Nat
  BY ConsensusAssumption DEF ConsensusAssumption
<1>2. FeeBps * x \in Nat
  BY <1>1
<1> QED BY <1>2 DEF ClobFee

(* An edge that is left after the fee and the slippage was there before. *)
LEMMA EdgeNeedsGain ==
  ASSUME NEW prob \in Int, NEW ask \in 0 .. 100, NetEdge(prob, ask) > 0
  PROVE  prob > ask
<1>1. ClobFee(ask, FeeBps) \in Nat
  BY FeeIsNatural
<1> HIDE DEF ClobFee
<1> QED BY <1>1 DEF NetEdge, Cent, Slippage

(* Of a list of quotes: the valid ones, as percentages. *)
LEMMA FairProbsType ==
  ASSUME NEW books \in BookLists
  PROVE  \E D : IsFiniteSet(D) /\ FairProbs(books) \in [D -> 0 .. 100]
<1> DEFINE D == {j \in DOMAIN books : books[j] # << >>}
<1>1. books \in Seq({<< >>} \cup ((Nat \ {0}) \X (Nat \ {0})))
  BY ConsensusAssumption DEF ConsensusAssumption
<1>2. IsFiniteSet(D)
  <2>1. D \in SUBSET (1 .. Len(books)) /\ Len(books) \in Nat
    BY <1>1
  <2> QED BY <2>1, FS_Interval, FS_Subset
<1>3. ASSUME NEW i \in D PROVE WithoutVig(books[i]) \in 0 .. 100
  <2>1. books[i] \in (Nat \ {0}) \X (Nat \ {0})
    BY <1>1
  <2>2. PICK a \in Nat \ {0}, b \in Nat \ {0} : books[i] = <<a, b>>
    BY <2>1
  <2>3. (100 * a) \div (a + b) \in 0 .. 100
    BY BoundedQuotient
  <2> QED BY <2>2, <2>3 DEF WithoutVig
<1>4. FairProbs(books) = [i \in D |-> WithoutVig(books[i])]
  BY DEF FairProbs
<1> HIDE DEF D
<1>5. FairProbs(books) \in [D -> 0 .. 100]
  BY <1>3, <1>4
<1> QED BY <1>2, <1>5

(* The median of valid quotes lies between two of them. *)
LEMMA FairIsBetween ==
  ASSUME NEW books \in BookLists, Fair(books) # None
  PROVE  LET p == FairProbs(books)
         IN  Cardinality(DOMAIN p) >= 3 => \A i \in DOMAIN p :
               \E j, k \in DOMAIN p \ {i} : p[j] =< Fair(books) /\ Fair(books) =< p[k]
<1> DEFINE p == FairProbs(books)
<1>1. PICK D : IsFiniteSet(D) /\ p \in [D -> 0 .. 100]
  BY FairProbsType
<1>2. DOMAIN p = D
  BY <1>1
<1>3. Fair(books) = (Kth(p, (Cardinality(D) + 1) \div 2) + Kth(p, (Cardinality(D) \div 2) + 1)) \div 2
  BY <1>2 DEF Fair
<1> HIDE DEF p
<1> QED BY <1>1, <1>2, <1>3, MedianIsBetween DEF p

LEMMA FairIsPercentage ==
  ASSUME NEW books \in BookLists, Fair(books) # None
  PROVE  Fair(books) \in 0 .. 100
<1> DEFINE p == FairProbs(books)
           n == Cardinality(DOMAIN p)
           a == Kth(p, (n + 1) \div 2)
           b == Kth(p, (n \div 2) + 1)
<1>1. PICK D : IsFiniteSet(D) /\ p \in [D -> 0 .. 100]
  BY FairProbsType
<1>2. DOMAIN p = D /\ n \in Nat
  BY <1>1, FS_CardinalityType
<1>3. ~(n < MinBooks) /\ Fair(books) = (a + b) \div 2
  BY DEF Fair
<1>4. MinBooks \in Nat \ {0}
  BY ConsensusAssumption DEF ConsensusAssumption
<1>5. /\ (n + 1) \div 2 \in Nat \ {0} /\ (n + 1) \div 2 =< n
      /\ (n \div 2) + 1 \in Nat \ {0} /\ (n \div 2) + 1 =< n
  BY <1>2, <1>3, <1>4
<1> HIDE DEF p
<1>6. a \in 0 .. 100 /\ b \in 0 .. 100
  BY <1>1, <1>2, <1>5, KthIsRanked
<1> HIDE DEF a, b
<1> QED BY <1>3, <1>6

Plausible(s) ==
  s.status = "shadow_recorded" =>
    LET fair == IF s.side = "YES" THEN s.prob ELSE 100 - s.prob
        p    == FairProbs(s.event[2])
    IN  /\ s.prob > s.ask
        /\ NetEdge(s.prob, s.ask) =< MaxEdge
        /\ Cardinality(DOMAIN p) >= 3 => \A i \in DOMAIN p :
             \E j, k \in DOMAIN p \ {i} : p[j] =< fair /\ fair =< p[k]

LEMMA SignalIsPlausible ==
  ASSUME NEW m, got \subseteq Events \X BookLists, NEW quote \in Quotes, Signal(m, got, quote) # None
  PROVE  Plausible(Signal(m, got, quote))
<1> DEFINE x    == CHOOSE y \in Matches(m, got) : TRUE
           fair == Fair(x[2])
           side == BestSide(fair, quote.ask)
           prob == Prob(fair, side)
           ask  == quote.ask[side]
           net  == NetEdge(prob, ask)
           s    == Signal(m, got, quote)
<1>1. /\ Matched(m, got) /\ fair # None /\ ~(net < MinEdge)
      /\ \E t \in Sides : quote.ask[t] # NoAsk
      /\ s = [market |-> m, event |-> x, side |-> side, net |-> net, prob |-> prob,
              ask |-> ask, status |-> Status(net, quote.deep, quote.approved)]
  BY Zenon DEF Signal
<1>2. x \in got
  BY <1>1, OneMatch
<1>3. x[2] \in BookLists
  BY <1>2
<1>4. fair \in 0 .. 100
  BY <1>1, <1>3, FairIsPercentage
<1>5. side \in Sides
  BY <1>1 DEF BestSide, Sides
<1>6. quote.ask[side] \in Asks \cup {NoAsk}
  BY <1>5 DEF Quotes
<1>7. ask \in 0 .. 100
  <2>1. Asks \subseteq 1 .. 99
    BY ConsensusAssumption DEF ConsensusAssumption
  <2>2. \A y \in Asks \cup {NoAsk} : y \in 0 .. 100
    BY <2>1 DEF NoAsk
  <2> QED BY <1>6, <2>2, Zenon
<1>8. prob \in 0 .. 100 /\ fair = IF side = "YES" THEN prob ELSE 100 - prob
  BY <1>4 DEF Prob
<1>9. MinEdge \in Nat \ {0} /\ MaxEdge \in Nat
  BY ConsensusAssumption DEF ConsensusAssumption
<1>10. /\ s.event = x /\ s.side = side /\ s.prob = prob /\ s.ask = ask
       /\ s.status = Status(net, quote.deep, quote.approved)
  BY <1>1
<1>11. net \in Int
  <2>1. ClobFee(ask, FeeBps) \in Nat
    BY <1>7, FeeIsNatural
  <2> HIDE DEF ask, prob, ClobFee
  <2> QED BY <1>7, <1>8, <2>1 DEF NetEdge, Cent, Slippage
<1>12. prob > ask
  <2> HIDE DEF prob, ask
  <2> QED BY <1>1, <1>7, <1>8, <1>9, <1>11, EdgeNeedsGain
<1>13. Status(net, quote.deep, quote.approved) = "shadow_recorded" => net =< MaxEdge
  <2> HIDE DEF net
  <2> QED BY <1>9, <1>11 DEF Status
<1>14. LET p == FairProbs(x[2])
       IN  Cardinality(DOMAIN p) >= 3 => \A i \in DOMAIN p :
             \E j, k \in DOMAIN p \ {i} : p[j] =< fair /\ fair =< p[k]
  BY <1>1, <1>3, FairIsBetween
<1> HIDE DEF x, fair, side, prob, ask, s
<1>15. NetEdge(prob, ask) = net
  BY DEF net
<1> HIDE DEF net
<1>16. SUFFICES Plausible(s)
  BY DEF s
<1>17. s.event[2] = x[2] /\ (IF s.side = "YES" THEN s.prob ELSE 100 - s.prob) = fair
  BY <1>8, <1>10
<1>18. s.status = "shadow_recorded" => net =< MaxEdge
  BY <1>10, <1>13
<1> QED BY <1>10, <1>12, <1>14, <1>15, <1>17, <1>18 DEF Plausible

(* What is recorded as good has an edge left after its costs, and one      *)
(* broken quote among three or more does not make it.                      *)
THEOREM SignalsArePlausibleHolds == Spec => []SignalsArePlausible
<1>1. Init => SignalsArePlausible
  BY DEF Init, SignalsArePlausible
<1>2. IInv /\ FetchedEvents /\ SignalsArePlausible /\ [Next]_vars => SignalsArePlausible'
  <2> SUFFICES ASSUME FetchedEvents, SignalsArePlausible, [Next]_vars, NEW s \in signals'
               PROVE  Plausible(s)
    BY Zenon DEF SignalsArePlausible, Plausible
  <2>1. CASE s \in signals
    BY <2>1, Zenon DEF SignalsArePlausible, Plausible
  <2>2. CASE s \notin signals
    <3>1. EvaluatesAny
      <4>1. signals' # signals /\ signals' # {}
        BY <2>2
      <4> QED BY <4>1 DEF Next, RequestEnds, BacksOff, Outside, CycleBegins, FetchNext, Collects,
                          AnswerRaises, Tick, motor, vars
    <3>2. PICK quotes \in [Markets -> Quotes], commits \in BOOLEAN : Evaluates(quotes, commits)
      BY <3>1, Zenon DEF EvaluatesAny
    <3>3. \E m \in Markets : s = Signal(m, got, quotes[m]) /\ s # None
      BY <3>2 DEF Evaluates
    <3>x. PICK m \in Markets : s = Signal(m, got, quotes[m]) /\ s # None
      BY <3>3, Zenon
    <3>4. quotes[m] \in Quotes /\ got \subseteq Events \X BookLists
      BY DEF FetchedEvents
    <3> QED BY <3>x, <3>4, SignalIsPlausible
  <2> QED BY <2>1, <2>2
<1> QED BY <1>1, <1>2, FetchedHolds, PTL DEF Spec

-----------------------------------------------------------------------------
(* Motors 4 and 5.                                                         *)

(* The first mid of an experiment was read after its delay.                *)
Experiment == {p \in Pending : p.first # NoMid => First =< p.first /\ p.first =< p.age}

Flags == groups \in BOOLEAN /\ ticked \in BOOLEAN

QueueInv == pending \in Seq(Experiment) /\ Len(pending) =< MaxPending

WindowsInv ==
  /\ enabled \in {4, 5}
  /\ mid \in [Tokens -> Mids \cup {NoMid}]
  /\ seen \in [Tokens -> 0 .. MinBaseline + 1]
  /\ mids \in [Tokens -> [0 .. Window -> Mids \cup {NoMid}]]

(* A leg that triggered cools down for as long as its window reaches back. *)
CooldownInv ==
  /\ cooling \in [Tokens -> Nat]
  /\ last \in [Tokens -> 0 .. Window + 1]
  /\ \A t \in Tokens : last[t] =< Window => cooling[t] >= Window - last[t]

RowsInv ==
  \A r \in written : /\ r \in [first : 0 .. Grace, second : 0 .. Grace]
                     /\ First =< r.first /\ r.first =< r.second /\ Second =< r.second

MeasurementInv ==
  Flags /\ QueueInv /\ WindowsInv /\ CooldownInv /\ RowsInv /\ SlotsAreFreed

-----------------------------------------------------------------------------
(* Lists.                                                                  *)

LEMMA Delays ==
  /\ First \in Nat /\ Second \in Nat /\ Grace \in Nat /\ First >= 1 /\ First =< Second /\ Second =< Grace
  /\ Window \in Nat /\ Window >= 1 /\ Cooldown \in Nat /\ MinBaseline \in Nat
  /\ MaxPending \in Nat /\ MaxPending >= 1
  /\ Legs \in Seq(Tokens) /\ NoMid \in Int /\ NoMid = -1 /\ Mids \subseteq Nat
BY MeasurementAssumption DEF MeasurementAssumption, NoMid

(* A list holds something at the first, the second, ... of some positions. *)
LEMMA NthIsThere ==
  ASSUME NEW n \in Nat, NEW S \in SUBSET (1 .. n), NEW k \in 1 .. Cardinality(S)
  PROVE  Nth(S, k) \in S
<1> DEFINE Low(v) == {j \in S : j < v}
           V == {v \in Nat : Cardinality(Low(v)) >= k}
<1>1. \A j \in S : j \in Nat /\ j < n + 1
  OBVIOUS
<1>2. IsFiniteSet(S) /\ Cardinality(S) \in Nat
  <2>1. IsFiniteSet(1 .. n)
    BY FS_Interval
  <2> QED BY <2>1, FS_Subset, FS_CardinalityType
<1>3. \A v : IsFiniteSet(Low(v)) /\ Cardinality(Low(v)) \in Nat
  <2>1. \A v : Low(v) \in SUBSET S
    OBVIOUS
  <2> HIDE DEF Low
  <2> QED BY <1>2, <2>1, FS_Subset, FS_CardinalityType
<1>4. n + 1 \in V
  <2>1. Low(n + 1) = S
    BY <1>1
  <2> QED BY <1>2, <2>1
<1>5. Low(0) = {}
  <2>1. \A j \in S : ~(j < 0)
    BY <1>1
  <2> QED BY <2>1, Zenon
<1>6. ASSUME NEW v \in Nat
      PROVE  /\ v \in S => v \notin Low(v) /\ Low(v + 1) = Low(v) \cup {v}
             /\ v \notin S => Low(v + 1) = Low(v)
  <2>1. \A j \in S : j < v + 1 <=> j < v \/ j = v
    BY <1>1
  <2>2. ~(v < v)
    OBVIOUS
  <2> QED BY <2>1, <2>2, Zenon
<1>7. PICK w \in V : \A x \in V : w =< x
  <2>1. V \in SUBSET Nat /\ V # {}
    BY <1>4
  <2> HIDE DEF V
  <2> QED BY <2>1, LeastNatural
<1>8. w \in Nat /\ Cardinality(Low(w)) >= k /\ \A x \in Nat : Cardinality(Low(x)) >= k => w =< x
  BY <1>7
<1> HIDE DEF V, Low
<1>9. k \in Nat /\ k >= 1
  BY <1>2
<1>10. w # 0
  BY <1>5, <1>8, <1>9, FS_EmptySet
<1> DEFINE v == w - 1
<1>11. v \in Nat /\ v + 1 = w /\ Cardinality(Low(v)) < k
  BY <1>3, <1>8, <1>9, <1>10
<1> HIDE DEF v
<1>12. v \in S /\ Cardinality(Low(v)) = k - 1
  <2>1. v \in S
    BY <1>3, <1>6, <1>8, <1>9, <1>11
  <2>2. Cardinality(Low(v + 1)) = Cardinality(Low(v)) + 1
    BY <1>3, <1>6, <1>11, <2>1, FS_AddElement
  <2> QED BY <1>3, <1>8, <1>9, <1>11, <2>1, <2>2
<1> QED BY <1>12 DEF Nth, Low

LEMMA AtType ==
  ASSUME NEW X, NEW list \in Seq(X), NEW S \in SUBSET DOMAIN list
  PROVE  /\ Cardinality(S) \in Nat /\ Cardinality(S) =< Len(list)
         /\ \A k \in 1 .. Cardinality(S) : Nth(S, k) \in S
         /\ At(list, S) \in Seq(X)
<1>1. Len(list) \in Nat /\ DOMAIN list = 1 .. Len(list) /\ \A i \in DOMAIN list : list[i] \in X
  OBVIOUS
<1>2. Cardinality(S) \in Nat /\ Cardinality(S) =< Len(list)
  <2> DEFINE n == Len(list)
  <2>a. n \in Nat /\ DOMAIN list = 1 .. n
    BY <1>1
  <2> HIDE DEF n
  <2>b. IsFiniteSet(1 .. n) /\ Cardinality(1 .. n) = n
    BY <2>a, FS_Interval
  <2>1. IsFiniteSet(1 .. Len(list)) /\ Cardinality(1 .. Len(list)) = Len(list)
    BY <2>b DEF n
  <2> QED BY <1>1, <2>1, FS_Subset, FS_CardinalityType
<1>3. \A k \in 1 .. Cardinality(S) : Nth(S, k) \in S
  BY <1>1, NthIsThere
<1>4. \A k \in 1 .. Cardinality(S) : list[Nth(S, k)] \in X
  BY <1>1, <1>3
<1>5. At(list, S) \in [1 .. Cardinality(S) -> X]
  BY <1>4 DEF At
<1> QED BY <1>2, <1>3, <1>5, SeqDef

(* FlattenSeq is defined step by step; Steps(s, g, n) says g are its first *)
(* n steps.                                                                *)
Steps(s, g, n) == g = [i \in 1 .. n |-> IF i = 1 THEN s[i] ELSE g[i - 1] \o s[i]]

LEMMA StepsExist ==
  ASSUME NEW s, NEW n \in Nat
  PROVE  \E g : Steps(s, g, n)
<1> DEFINE B == {m \in Nat : ~\E g : Steps(s, g, m)}
<1>1. SUFFICES ASSUME B # {} PROVE FALSE
  <2>1. B = {} => n \notin B
    OBVIOUS
  <2> QED BY <2>1
<1>2. PICK m \in B : \A k \in B : m =< k
  <2>1. B \in SUBSET Nat
    OBVIOUS
  <2> HIDE DEF B
  <2> QED BY <1>1, <2>1, LeastNatural
<1>3. m # 0
  <2>1. 1 .. 0 = {}
    OBVIOUS
  <2>2. Steps(s, << >>, 0)
    BY <2>1 DEF Steps
  <2> QED BY <1>2, <2>2
<1>4. m - 1 \in Nat /\ m - 1 \notin B
  BY <1>2, <1>3
<1>5. PICK g : Steps(s, g, m - 1)
  BY <1>4
<1> DEFINE h == [i \in 1 .. m |-> IF i = m THEN IF i = 1 THEN s[i] ELSE g[i - 1] \o s[i] ELSE g[i]]
<1>6. ASSUME NEW i \in 1 .. m PROVE h[i] = IF i = 1 THEN s[i] ELSE h[i - 1] \o s[i]
  <2>1. CASE i = m
    <3>1. i # 1 => i - 1 \in 1 .. m /\ i - 1 # m
      BY <1>2, <2>1
    <3> QED BY <2>1, <3>1
  <2>2. CASE i # m
    <3>1. i \in 1 .. m - 1
      BY <1>2, <2>2
    <3>2. g[i] = IF i = 1 THEN s[i] ELSE g[i - 1] \o s[i]
      BY <1>5, <3>1 DEF Steps
    <3>3. i # 1 => i - 1 \in 1 .. m /\ i - 1 # m
      BY <1>2, <3>1
    <3> QED BY <2>2, <3>2, <3>3
  <2> QED BY <2>1, <2>2
<1>7. DOMAIN h = 1 .. m /\ h = [i \in 1 .. m |-> h[i]]
  OBVIOUS
<1> HIDE DEF h
<1>8. Steps(s, h, m)
  BY <1>6, <1>7 DEF Steps
<1> QED BY <1>2, <1>8

LEMMA FlattenType ==
  ASSUME NEW X, NEW n \in Nat, NEW s \in [1 .. n -> Seq(X)]
  PROVE  FlattenSeq(s) \in Seq(X)
<1>1. s \in Seq(Seq(X)) /\ Len(s) = n
  BY SeqDef
<1>2. CASE n = 0
  <2>1. FlattenSeq(s) = s
    BY <1>1, <1>2 DEF FlattenSeq
  <2>2. s \in [1 .. 0 -> X]
    BY <1>2
  <2> QED BY <2>1, <2>2, SeqDef
<1>3. CASE n # 0
  <2> DEFINE g == CHOOSE h : Steps(s, h, n)
             B == {i \in 1 .. n : g[i] \notin Seq(X)}
  <2>1. FlattenSeq(s) = g[n]
    BY <1>1, <1>3 DEF FlattenSeq, Steps
  <2>2. Steps(s, g, n)
    BY StepsExist
  <2>3. \A i \in 1 .. n : g[i] = IF i = 1 THEN s[i] ELSE g[i - 1] \o s[i]
    <3> HIDE DEF g
    <3> QED BY <2>2 DEF Steps
  <2> HIDE DEF g
  <2>4. B = {}
    <3>1. SUFFICES ASSUME B # {} PROVE FALSE
      OBVIOUS
    <3>2. PICK i \in B : \A j \in B : i =< j
      <4>1. B \in SUBSET Nat
        OBVIOUS
      <4> HIDE DEF B
      <4> QED BY <3>1, <4>1, LeastNatural
    <3>3. i # 1
      BY <2>3, <3>2
    <3>4. i - 1 \in 1 .. n /\ i - 1 \notin B
      BY <3>2, <3>3
    <3>5. g[i - 1] \in Seq(X) /\ s[i] \in Seq(X)
      BY <3>2, <3>4
    <3>6. g[i] = g[i - 1] \o s[i]
      BY <2>3, <3>2, <3>3
    <3>7. g[i - 1] \o s[i] \in Seq(X)
      BY <3>5, ConcatProperties
    <3> QED BY <3>2, <3>6, <3>7
  <2> QED BY <1>3, <2>1, <2>4
<1> QED BY <1>2, <1>3

-----------------------------------------------------------------------------
(* Experiments.                                                            *)

LEMMA ExperimentFields ==
  ASSUME NEW p \in Experiment
  PROVE  /\ p.token \in Tokens /\ p.age \in 0 .. Grace /\ p.first \in {NoMid} \cup (0 .. Grace)
         /\ p.first # NoMid => First =< p.first /\ p.first =< p.age
         /\ p = [token |-> p.token, age |-> p.age, first |-> p.first]
BY DEF Experiment, Pending

LEMMA NewIsExperiment ==
  ASSUME NEW t \in Tokens
  PROVE  New(t) \in Experiment
<1>1. New(t) \in Pending
  BY Delays DEF New, Pending
<1>2. New(t).first = NoMid
  BY DEF New
<1> QED BY <1>1, <1>2 DEF Experiment

LEMMA FirstReadKeeps ==
  ASSUME NEW p \in Experiment, NEW m
  PROVE  /\ FirstRead(p, m) \in Experiment
         /\ FirstRead(p, m).age = p.age
         /\ p.age >= First /\ m[p.token] # NoMid => FirstRead(p, m).first # NoMid
<1>1. CASE p.first = NoMid /\ p.age >= First /\ m[p.token] # NoMid
  <2>1. FirstRead(p, m) = [token |-> p.token, age |-> p.age, first |-> p.age]
    BY <1>1, ExperimentFields DEF FirstRead
  <2>2. p.token \in Tokens /\ p.age \in 0 .. Grace
    BY ExperimentFields
  <2>3. p.age # NoMid
    BY <2>2, Delays
  <2> QED BY <1>1, <2>1, <2>2, <2>3, Delays DEF Experiment, Pending
<1>2. CASE ~(p.first = NoMid /\ p.age >= First /\ m[p.token] # NoMid)
  BY <1>2 DEF FirstRead
<1> QED BY <1>1, <1>2

(* What is still pending is younger than the grace.                        *)
LEMMA Matured ==
  ASSUME NEW queue \in Seq(Experiment), NEW m
  PROVE  /\ StillPending(queue, m) \in Seq(Experiment)
         /\ Len(StillPending(queue, m)) =< Len(queue)
         /\ \A i \in DOMAIN StillPending(queue, m) : StillPending(queue, m)[i].age < Grace
<1> DEFINE kept == {i \in DOMAIN queue : ~Complete(queue[i], m) /\ ~Expired(queue[i], m)}
           n    == Cardinality(kept)
           f    == [k \in 1 .. n |-> FirstRead(At(queue, kept)[k], m)]
<1>1. StillPending(queue, m) = f
  BY DEF StillPending
<1>2. \A i \in DOMAIN queue : queue[i] \in Experiment
  OBVIOUS
<1>3. /\ n \in Nat /\ n =< Len(queue)
      /\ \A k \in 1 .. n : Nth(kept, k) \in kept
  <2>1. kept \in SUBSET DOMAIN queue
    OBVIOUS
  <2> HIDE DEF kept
  <2> QED BY <2>1, AtType
<1>4. ASSUME NEW k \in 1 .. n
      PROVE  f[k] \in Experiment /\ f[k].age < Grace
  <2> DEFINE p == queue[Nth(kept, k)]
  <2>1. At(queue, kept)[k] = p
    BY DEF At
  <2>2. p \in Experiment /\ ~Complete(p, m) /\ ~Expired(p, m)
    BY <1>2, <1>3
  <2>3. f[k] = FirstRead(p, m)
    BY <2>1
  <2> HIDE DEF p, f, kept, n
  <2>4. p.age \in 0 .. Grace
    BY <2>2, ExperimentFields
  <2>5. p.age < Grace
    BY <2>2, <2>4, Delays DEF Complete, Expired
  <2> QED BY <2>2, <2>3, <2>5, FirstReadKeeps
<1>5. f \in [1 .. n -> Experiment]
  BY <1>4
<1> HIDE DEF n
<1>6. f \in Seq(Experiment) /\ Len(f) = n /\ DOMAIN f = 1 .. n
  <2> HIDE DEF kept, f
  <2> QED BY <1>3, <1>5, SeqDef
<1> HIDE DEF kept, f
<1> QED BY <1>1, <1>3, <1>4, <1>6

(* A row that matures was read twice, in time.                             *)
LEMMA RowsAreRead ==
  ASSUME NEW queue \in Seq(Experiment), NEW m, NEW r \in Rows(queue, m)
  PROVE  /\ r \in [first : 0 .. Grace, second : 0 .. Grace]
         /\ First =< r.first /\ r.first =< r.second /\ Second =< r.second
<1>1. PICK p \in ToSet(queue) : Complete(p, m) /\ r = Row(FirstRead(p, m))
  BY DEF Rows
<1>2. p \in Experiment
  BY <1>1 DEF ToSet
<1> DEFINE q == FirstRead(p, m)
<1>3. p.age \in 0 .. Grace /\ p.age >= Second /\ m[p.token] # NoMid
  BY <1>1, <1>2, ExperimentFields DEF Complete
<1>4. q \in Experiment /\ q.age = p.age /\ q.first # NoMid
  BY <1>2, <1>3, FirstReadKeeps, Delays
<1>5. r = [first |-> q.first, second |-> q.age]
  BY <1>1 DEF Row
<1> HIDE DEF q
<1>6. q.first \in 0 .. Grace /\ First =< q.first /\ q.first =< q.age
  BY <1>4, ExperimentFields
<1> QED BY <1>3, <1>4, <1>5, <1>6

LEMMA EnqueuedType ==
  ASSUME NEW queue \in Seq(Experiment), NEW new \in Seq(Experiment)
  PROVE  Enqueued(queue, new) \in Seq(Experiment) /\ Len(Enqueued(queue, new)) =< MaxPending
<1> DEFINE all == queue \o new
<1>1. all \in Seq(Experiment) /\ Len(all) \in Nat /\ DOMAIN all = 1 .. Len(all)
  BY ConcatProperties, LenProperties
<1> HIDE DEF all
<1>2. CASE Len(all) =< MaxPending
  BY <1>1, <1>2 DEF Enqueued, all
<1>3. CASE ~(Len(all) =< MaxPending)
  <2>1. \A i \in 1 .. MaxPending : all[i] \in Experiment
    BY <1>1, <1>3, Delays
  <2>2. SubSeq(all, 1, MaxPending) \in Seq(Experiment) /\ Len(SubSeq(all, 1, MaxPending)) = MaxPending
    BY <2>1, SubSeqProperties, Delays
  <2> QED BY <1>3, <2>2, Delays DEF Enqueued, all
<1> QED BY <1>2, <1>3

LEMMA OpenedType == Opened \in Seq(Experiment)
<1> DEFINE of(t) == IF Jumps(t) THEN [i \in 1 .. Len(Siblings(t)) |-> New(Siblings(t)[i])] ELSE << >>
           s == [i \in 1 .. Len(Legs) |-> of(Legs[i])]
<1>1. ASSUME NEW t PROVE of(t) \in Seq(Experiment)
  <2>1. Siblings(t) \in Seq(Tokens)
    <3> DEFINE S == {i \in DOMAIN Legs : Legs[i] # t /\ mid[Legs[i]] # NoMid}
    <3>1. S \in SUBSET DOMAIN Legs
      OBVIOUS
    <3> HIDE DEF S
    <3>2. At(Legs, S) \in Seq(Tokens)
      BY <3>1, Delays, AtType
    <3> QED BY <3>2 DEF Siblings, S
  <2>2. [i \in 1 .. Len(Siblings(t)) |-> New(Siblings(t)[i])] \in Seq(Experiment)
    <3> DEFINE list == Siblings(t)
    <3>1. Len(list) \in Nat /\ \A i \in 1 .. Len(list) : list[i] \in Tokens
      BY <2>1
    <3> HIDE DEF list
    <3>2. [i \in 1 .. Len(list) |-> New(list[i])] \in [1 .. Len(list) -> Experiment]
      BY <3>1, NewIsExperiment
    <3>3. [i \in 1 .. Len(list) |-> New(list[i])] \in Seq(Experiment)
      BY <3>1, <3>2, SeqDef
    <3> QED BY <3>3 DEF list
  <2>3. << >> \in Seq(Experiment)
    OBVIOUS
  <2> QED BY <2>2, <2>3
<1>2. Opened = FlattenSeq(s)
  BY DEF Opened
<1> HIDE DEF of
<1>3. Len(Legs) \in Nat /\ s \in [1 .. Len(Legs) -> Seq(Experiment)]
  BY <1>1, Delays
<1> HIDE DEF s
<1> QED BY <1>2, <1>3, FlattenType

-----------------------------------------------------------------------------
(* The steps of the two motors.                                            *)

LEMMA MeasurementStarts == MeasurementInit => MeasurementInv
<1> SUFFICES ASSUME MeasurementInit PROVE MeasurementInv
  OBVIOUS
<1> USE Delays
<1>1. Flags
  BY DEF MeasurementInit, Flags
<1>2. QueueInv
  BY DEF MeasurementInit, QueueInv
<1>3. WindowsInv
  BY DEF MeasurementInit, WindowsInv
<1>4. CooldownInv
  BY DEF MeasurementInit, CooldownInv
<1>5. RowsInv
  BY DEF MeasurementInit, RowsInv
<1>6. SlotsAreFreed
  BY DEF MeasurementInit, SlotsAreFreed
<1> QED BY <1>1, <1>2, <1>3, <1>4, <1>5, <1>6 DEF MeasurementInv

(* What a step does to the experiments: they mature in a queue of          *)
(* experiments, grow older, or stay as they are.                           *)
LEMMA QueueMoves ==
  ASSUME QueueInv, [MeasurementNext]_measurement
  PROVE  /\ QueueInv'
         /\ \/ written' = written
            \/ \E queue \in Seq(Experiment) : \E m : written' = Rows(queue, m)
         /\ enabled' = 5 /\ ticked' =>
              \/ \A i \in DOMAIN pending' : pending'[i].age < Grace
              \/ UNCHANGED <<enabled, ticked, pending>>
<1>0. pending \in Seq(Experiment) /\ Len(pending) =< MaxPending /\ Len(pending) \in Nat
  BY LenProperties DEF QueueInv
<1>1. ASSUME NEW queue \in Seq(Experiment), Len(queue) =< MaxPending, NEW m, Advances(queue, m)
      PROVE  /\ QueueInv' /\ \A i \in DOMAIN pending' : pending'[i].age < Grace
             /\ written' = written \/ \E q \in Seq(Experiment) : \E x : written' = Rows(q, x)
  <2>1. /\ pending' = StillPending(queue, m)
        /\ written' = written \/ written' = Rows(queue, m)
    BY <1>1 DEF Advances
  <2>2. Len(queue) \in Nat /\ Len(StillPending(queue, m)) \in Nat
    BY Matured, LenProperties
  <2>3. Len(StillPending(queue, m)) =< MaxPending
    BY <1>1, <2>2, Matured, Delays
  <2> QED BY <2>1, <2>3, Matured DEF QueueInv
<1>2. ASSUME NEW t \in Tokens, NEW m, NEW anomalous, ObserveTop(t, m, anomalous)
      PROVE  /\ QueueInv' /\ enabled' = 4
             /\ written' = written \/ \E q \in Seq(Experiment) : \E x : written' = Rows(q, x)
  <2> DEFINE now   == [mid EXCEPT ![t] = m]
             after == StillPending(pending, now)
  <2>1. /\ enabled' = 4
        /\ pending' = Enqueued(after, <<New(t)>>) \/ pending' = after
        /\ written' = written \/ written' = Rows(pending, now)
    BY <1>2 DEF ObserveTop
  <2>2. after \in Seq(Experiment) /\ Len(after) =< Len(pending) /\ Len(after) \in Nat
    BY <1>0, Matured, LenProperties
  <2>3. <<New(t)>> \in Seq(Experiment)
    BY NewIsExperiment
  <2> HIDE DEF after, now
  <2>4. Len(after) =< MaxPending
    BY <1>0, <2>2, Delays
  <2> QED BY <1>0, <2>1, <2>2, <2>3, <2>4, EnqueuedType DEF QueueInv
<1>3. CASE Tick5
  <2>1. CASE Feels
    <3>1. Enqueued(pending, Opened) \in Seq(Experiment) /\ Len(Enqueued(pending, Opened)) =< MaxPending
      BY <1>0, OpenedType, EnqueuedType
    <3> QED BY <1>1, <2>1, <3>1 DEF Feels
  <2>2. CASE Advances(pending, mid)
    BY <1>0, <1>1, <2>2
  <2> QED BY <1>3, <2>1, <2>2 DEF Tick5
<1>4. ASSUME UNCHANGED <<pending, written>>
      PROVE  QueueInv' /\ written' = written
  BY <1>4 DEF QueueInv
<1>5. ASSUME NEW t \in Tokens, NEW m, BooksMove(t, m)
      PROVE  UNCHANGED <<pending, written, enabled, ticked>>
  BY <1>5 DEF BooksMove
<1>6. CASE GroupsMove
  BY <1>4, <1>6 DEF GroupsMove
<1>7. CASE TimePasses
  <2> DEFINE older(p) == [p EXCEPT !.age = IF @ < Grace THEN @ + 1 ELSE @]
             aged == [i \in DOMAIN pending |-> older(pending[i])]
  <2>1. pending' = aged /\ written' = written /\ ticked' = FALSE
    BY <1>7 DEF TimePasses
  <2>2. ASSUME NEW p \in Experiment PROVE older(p) \in Experiment
    <3> DEFINE a == IF p.age < Grace THEN p.age + 1 ELSE p.age
    <3>1. a \in 0 .. Grace /\ p.age =< a /\ p.age \in Nat
      BY ExperimentFields, Delays
    <3>2. older(p) = [token |-> p.token, age |-> a, first |-> p.first]
      BY ExperimentFields
    <3> HIDE DEF older, a
    <3> QED BY <3>1, <3>2, ExperimentFields, Delays DEF Experiment, Pending
  <2> HIDE DEF older
  <2>3. \A i \in 1 .. Len(pending) : pending[i] \in Experiment
    BY <1>0, ElementOfSeq
  <2>4. DOMAIN pending = 1 .. Len(pending)
    BY <1>0, LenProperties
  <2>5. aged \in [1 .. Len(pending) -> Experiment]
    BY <2>2, <2>3, <2>4
  <2>6. aged \in Seq(Experiment) /\ Len(aged) = Len(pending)
    <3> DEFINE n == Len(pending)
    <3>1. n \in Nat /\ aged \in [1 .. n -> Experiment]
      BY <1>0, <2>5
    <3> HIDE DEF n, aged
    <3>2. aged \in Seq(Experiment) /\ Len(aged) = n
      BY <3>1, SeqDef
    <3> QED BY <3>2 DEF n
  <2> HIDE DEF aged
  <2> QED BY <1>0, <2>1, <2>6 DEF QueueInv
<1>8. CASE UNCHANGED measurement
  BY <1>4, <1>8 DEF measurement
<1> QED BY <1>2, <1>3, <1>4, <1>5, <1>6, <1>7, <1>8 DEF MeasurementNext

LEMMA OldestIsInWindow ==
  ASSUME WindowsInv, NEW t \in Tokens
  PROVE  Oldest(t) \in {NoMid} \cup (0 .. Window) /\ Oldest(t) =< Window
<1> DEFINE known == {a \in 0 .. Window : mids[t][a] # NoMid}
<1>1. CASE known = {}
  BY <1>1, Delays DEF Oldest
<1>2. CASE known # {}
  <2> DEFINE back == {Window - a : a \in known}
  <2>1. back \in SUBSET Nat /\ back # {}
    BY <1>2, Delays
  <2>2. PICK b \in back : \A x \in back : b =< x
    <3> HIDE DEF back
    <3> QED BY <2>1, LeastNatural
  <2>3. PICK a \in known : b = Window - a
    OBVIOUS
  <2>4. ASSUME NEW x \in known PROVE x =< a
    <3>1. Window - x \in back /\ x \in 0 .. Window /\ a \in 0 .. Window
      OBVIOUS
    <3>2. b =< Window - x
      BY <2>2, <3>1
    <3> QED BY <2>3, <3>1, <3>2, Delays
  <2> DEFINE c == CHOOSE y \in known : \A x \in known : x =< y
  <2>5. c \in known
    <3> HIDE DEF known
    <3> QED BY <2>3, <2>4, Zenon
  <2>6. Oldest(t) = c
    BY <1>2 DEF Oldest
  <2> HIDE DEF c
  <2> QED BY <2>5, <2>6, Delays
<1> QED BY <1>1, <1>2

LEMMA WindowsMove ==
  ASSUME WindowsInv, [MeasurementNext]_measurement
  PROVE  WindowsInv'
<1> USE Delays
<1>1. ASSUME NEW t \in Tokens, NEW m \in Mids \cup {NoMid}, NEW anomalous, ObserveTop(t, m, anomalous)
      PROVE  WindowsInv'
  BY <1>1 DEF ObserveTop, WindowsInv
<1>2. CASE Tick5
  <2>1. ASSUME Feels PROVE mids' \in [Tokens -> [0 .. Window -> Mids \cup {NoMid}]]
    BY <2>1 DEF Feels, WindowsInv
  <2> QED BY <1>2, <2>1 DEF Tick5, WindowsInv
<1>3. ASSUME NEW t \in Tokens, NEW m \in Mids \cup {NoMid}, BooksMove(t, m)
      PROVE  WindowsInv'
  BY <1>3 DEF BooksMove, WindowsInv
<1>4. CASE GroupsMove
  BY <1>4 DEF GroupsMove, WindowsInv
<1>5. CASE TimePasses
  <2>1. ASSUME NEW t \in Tokens, NEW a \in 0 .. Window
        PROVE  (IF a = 0 THEN NoMid ELSE mids[t][a - 1]) \in Mids \cup {NoMid}
    <3>1. a # 0 => a - 1 \in 0 .. Window
      OBVIOUS
    <3> QED BY <3>1 DEF WindowsInv
  <2>2. mids' \in [Tokens -> [0 .. Window -> Mids \cup {NoMid}]]
    BY <1>5, <2>1 DEF TimePasses
  <2> QED BY <1>5, <2>2 DEF TimePasses, WindowsInv
<1>6. CASE UNCHANGED measurement
  BY <1>6 DEF measurement, WindowsInv
<1> QED BY <1>1, <1>2, <1>3, <1>4, <1>5, <1>6 DEF MeasurementNext

(* Only a jump triggers, and only after the cooldown of the last one.      *)
LEMMA CooldownMoves ==
  ASSUME WindowsInv, CooldownInv, [MeasurementNext]_measurement
  PROVE  /\ CooldownInv'
         /\ \A t \in Tokens : last'[t] = 0 /\ last[t] # 0 => Oldest(t) =< last[t]
<1> USE Delays
<1>0. \A t \in Tokens : /\ cooling[t] \in Nat /\ last[t] \in 0 .. Window + 1
                        /\ last[t] =< Window => cooling[t] >= Window - last[t]
  BY DEF CooldownInv
<1>1. ASSUME UNCHANGED <<cooling, last>>
      PROVE  CooldownInv' /\ last' = last
  BY <1>1 DEF CooldownInv
<1>2. ASSUME NEW t \in Tokens, NEW m, NEW anomalous, ObserveTop(t, m, anomalous)
      PROVE  CooldownInv' /\ last' = last
  <2>1. CASE Detects(t, anomalous)
    <3>1. cooling' = [cooling EXCEPT ![t] = Cooldown] /\ last' = last /\ cooling[t] = 0
      BY <1>2, <2>1 DEF ObserveTop, Detects
    <3> QED BY <1>0, <3>1 DEF CooldownInv
  <2>2. CASE ~Detects(t, anomalous)
    BY <1>1, <1>2, <2>2 DEF ObserveTop
  <2> QED BY <2>1, <2>2
<1>3. ASSUME Feels
      PROVE  CooldownInv' /\ \A t \in Tokens : last'[t] = 0 /\ last[t] # 0 => Oldest(t) =< last[t]
  <2>1. /\ cooling' = [t \in Tokens |-> IF Jumps(t) THEN Window ELSE cooling[t]]
        /\ last' = [t \in Tokens |-> IF Jumps(t) THEN 0 ELSE last[t]]
    BY <1>3 DEF Feels, CooldownAfterJump
  <2>2. CooldownInv'
    <3>1. ASSUME NEW t \in Tokens
          PROVE  /\ cooling'[t] \in Nat /\ last'[t] \in 0 .. Window + 1
                 /\ last'[t] =< Window => cooling'[t] >= Window - last'[t]
      <4>1. CASE Jumps(t)
        BY <2>1, <4>1
      <4>2. CASE ~Jumps(t)
        BY <1>0, <2>1, <4>2
      <4> QED BY <4>1, <4>2
    <3>2. cooling' = [t \in Tokens |-> cooling'[t]] /\ last' = [t \in Tokens |-> last'[t]]
      BY <2>1
    <3> QED BY <3>1, <3>2 DEF CooldownInv
  <2>3. ASSUME NEW t \in Tokens, last'[t] = 0, last[t] # 0
        PROVE  Oldest(t) =< last[t]
    <3>1. Jumps(t)
      BY <2>1, <2>3
    <3>2. cooling[t] = 0
      BY <3>1 DEF Jumps
    <3>3. last[t] >= Window
      BY <1>0, <3>2
    <3> QED BY <1>0, <3>3, OldestIsInWindow
  <2> QED BY <2>2, <2>3
<1>4. CASE Tick5
  <2>1. Feels \/ UNCHANGED <<cooling, last>>
    BY <1>4 DEF Tick5
  <2> QED BY <1>1, <1>3, <2>1
<1>5. ASSUME NEW t \in Tokens, NEW m, BooksMove(t, m)
      PROVE  CooldownInv' /\ last' = last
  BY <1>1, <1>5 DEF BooksMove
<1>6. CASE GroupsMove
  BY <1>1, <1>6 DEF GroupsMove
<1>7. CASE TimePasses
  <2>1. /\ cooling' = [t \in Tokens |-> IF cooling[t] > 0 THEN cooling[t] - 1 ELSE 0]
        /\ last' = [t \in Tokens |-> IF last[t] =< Window THEN last[t] + 1 ELSE last[t]]
    BY <1>7 DEF TimePasses
  <2>2. ASSUME NEW t \in Tokens
        PROVE  /\ cooling'[t] \in Nat /\ last'[t] \in 0 .. Window + 1
               /\ last'[t] =< Window => cooling'[t] >= Window - last'[t]
               /\ last'[t] # 0
    BY <1>0, <2>1
  <2>3. cooling' \in [Tokens -> Nat] /\ last' \in [Tokens -> 0 .. Window + 1]
    BY <2>1, <2>2
  <2> QED BY <2>2, <2>3 DEF CooldownInv
<1>8. CASE UNCHANGED measurement
  BY <1>1, <1>8 DEF measurement
<1> QED BY <1>2, <1>4, <1>5, <1>6, <1>7, <1>8 DEF MeasurementNext

LEMMA FlagsMove ==
  ASSUME Flags, [MeasurementNext]_measurement
  PROVE  Flags'
<1>1. groups' \in BOOLEAN
  BY DEF Flags, MeasurementNext, ObserveTop, Tick5, BooksMove, GroupsMove, TimePasses, measurement
<1>2. ticked' \in BOOLEAN
  BY DEF Flags, MeasurementNext, ObserveTop, Tick5, BooksMove, GroupsMove, TimePasses, measurement
<1> QED BY <1>1, <1>2 DEF Flags

LEMMA MeasurementMoves == MeasurementInv /\ [MeasurementNext]_measurement => MeasurementInv'
<1> SUFFICES ASSUME MeasurementInv, [MeasurementNext]_measurement PROVE MeasurementInv'
  OBVIOUS
<1>0. Flags /\ QueueInv /\ WindowsInv /\ CooldownInv /\ RowsInv /\ SlotsAreFreed
  BY DEF MeasurementInv
<1>1. Flags' /\ QueueInv' /\ WindowsInv' /\ CooldownInv'
  BY <1>0, FlagsMove, QueueMoves, WindowsMove, CooldownMoves
<1>2. RowsInv'
  <2>1. CASE written' = written
    BY <1>0, <2>1 DEF RowsInv
  <2>2. ASSUME NEW queue \in Seq(Experiment), NEW m, written' = Rows(queue, m)
        PROVE  RowsInv'
    BY <2>2, RowsAreRead DEF RowsInv
  <2> QED BY <1>0, <2>1, <2>2, QueueMoves
<1>3. SlotsAreFreed'
  BY <1>0, QueueMoves DEF SlotsAreFreed
<1> QED BY <1>1, <1>2, <1>3 DEF MeasurementInv

LEMMA MeasurementInvHolds == MeasurementSpec => []MeasurementInv
<1> QED BY MeasurementStarts, MeasurementMoves, PTL DEF MeasurementSpec

-----------------------------------------------------------------------------
(* Both motors keep their types, and MAX_PENDING bounds their experiments  *)
(* however many signals come (TypeOK).                                     *)
THEOREM MeasurementTypes == MeasurementSpec => []TypeOK
<1>1. MeasurementInv => TypeOK
  <2> SUFFICES ASSUME MeasurementInv PROVE TypeOK
    OBVIOUS
  <2>1. groups \in BOOLEAN /\ ticked \in BOOLEAN
    BY DEF MeasurementInv, Flags
  <2>2. pending \in Seq(Pending) /\ Len(pending) =< MaxPending
    <3>1. pending \in Seq(Experiment) /\ Len(pending) =< MaxPending /\ Experiment \subseteq Pending
      BY DEF MeasurementInv, QueueInv, Experiment
    <3> QED BY <3>1, SeqMonotonic
  <2>3. written \in SUBSET [first : 0 .. Grace, second : 0 .. Grace]
    BY DEF MeasurementInv, RowsInv
  <2>4. WindowsInv /\ CooldownInv
    BY DEF MeasurementInv
  <2> QED BY <2>1, <2>2, <2>3, <2>4, Zenon DEF TypeOK, WindowsInv, CooldownInv
<1> QED BY <1>1, MeasurementInvHolds, PTL

(* A row was read twice, each time no earlier than the delay it is filed   *)
(* under and in that order (RowsAreTimely).                                *)
THEOREM RowsAreTimelyHolds == MeasurementSpec => []RowsAreTimely
<1>1. MeasurementInv => RowsAreTimely
  BY DEF MeasurementInv, RowsInv, RowsAreTimely
<1> QED BY <1>1, MeasurementInvHolds, PTL

(* After a tick of motor 5 no experiment is older than the grace, whatever *)
(* books, groups and capture did (SlotsAreFreed).                          *)
THEOREM SlotsAreFreedHolds == MeasurementSpec => []SlotsAreFreed
<1>1. MeasurementInv => SlotsAreFreed
  BY DEF MeasurementInv
<1> QED BY <1>1, MeasurementInvHolds, PTL

(* One jump never triggers a leg twice (OneTriggerPerEpisode).             *)
THEOREM OneTriggerPerEpisodeHolds == MeasurementSpec => OneTriggerPerEpisode
<1>1. MeasurementInv /\ [MeasurementNext]_measurement
        => [\A t \in Tokens : last'[t] = 0 /\ last[t] # 0 => Oldest(t) =< last[t]]_measurement
  BY CooldownMoves DEF MeasurementInv
<1> QED BY <1>1, MeasurementInvHolds, PTL DEF MeasurementSpec, OneTriggerPerEpisode
=============================================================================
