------------------------------ MODULE Consensus ------------------------------
(***************************************************************************)
(* Motor 2 (src/motor_2_consensus): every cycle it fetches the odds of     *)
(* each sport, one after the other, matches every watched market with one  *)
(* event, takes the vig out of every bookmaker's quotes, compares the      *)
(* median with the asks of the book and records the signals that changed.  *)
(* The rows are written in one commit, which may fail.                     *)
(*                                                                         *)
(* Probabilities and prices are in percent (cents), edges in hundredths of *)
(* a percentage point.  The matcher reads names and dates; here a market   *)
(* has the set of events its question and date fit, with the team it asks  *)
(* about.  What the risk manager says of a dry run is left open.           *)
(***************************************************************************)
EXTENDS OddsApi, Sequences, Fees

CONSTANTS
  SportKeys,   \* the sports in the order they are fetched
  Markets,     \* watched markets
  Fits,        \* events that fit the question and date of a market
  Asks,        \* best asks in cents
  MinBooks,    \* MOTOR_2_MIN_BOOKS
  MinEdge,     \* MOTOR_2_MIN_EDGE_PP, in ten-thousandths
  MaxEdge,     \* MOTOR_2_MAX_PLAUSIBLE_EDGE_PP, in ten-thousandths
  FeeBps       \* FEE_RATE_BPS

ASSUME ConsensusAssumption ==
  /\ SportKeys \in Seq(Sports)
  /\ Fits \in [Markets -> SUBSET Events]
  /\ Asks \subseteq 1 .. 99
  /\ {MinBooks, MinEdge, MaxEdge} \subseteq Nat \ {0}
  /\ FeeBps \in Nat
  /\ BookLists \subseteq Seq({<< >>} \cup ((Nat \ {0}) \X (Nat \ {0})))

VARIABLES
  stage,       \* of cycle(): asleep, or fetching
  todo,        \* sports that are still to be fetched
  got,         \* events fetched by this cycle
  remembered,  \* _last_recorded: fingerprint of a market and side, or None
  stored,      \* history: fingerprint of the last row of a market and side, or None
  lost,        \* history: a commit with a row of a market and side failed since the last one that did not
  signals      \* history: what the cycle that has just ended recorded

motor == <<stage, todo, got, remembered, stored, lost, signals>>
vars == <<client, motor>>

Sides == {"YES", "NO"}
Keys  == Markets \X Sides

-----------------------------------------------------------------------------
(* consensus_fair_prob(), for the team the market asks about.  A quote of  *)
(* a bookmaker is a pair: the implied percentages of the team and of all   *)
(* other outcomes, or << >> when they are not valid.  A fair probability   *)
(* keeps the number of its bookmaker.                                      *)

WithoutVig(quote) == (100 * quote[1]) \div (quote[1] + quote[2])

FairProbs(books) ==
  [i \in {j \in DOMAIN books : books[j] # << >>} |-> WithoutVig(books[i])]

(* The k-th smallest element. *)
Kth(s, k) ==
  LET x == CHOOSE i \in DOMAIN s :
             /\ Cardinality({j \in DOMAIN s : s[j] < s[i]}) < k
             /\ Cardinality({j \in DOMAIN s : s[j] =< s[i]}) >= k
  IN  s[x]

Fair_FirstBook(books) ==
  LET p == FairProbs(books)
      n == Cardinality(DOMAIN p)
  IN  IF n < MinBooks THEN None ELSE p[CHOOSE i \in DOMAIN p : \A j \in DOMAIN p : i =< j]

Fair(books) ==
  LET p == FairProbs(books)
      n == Cardinality(DOMAIN p)
  IN  IF n < MinBooks THEN None
      ELSE (Kth(p, (n + 1) \div 2) + Kth(p, (n \div 2) + 1)) \div 2

-----------------------------------------------------------------------------
(* evaluate_match().                                                       *)

NoAsk == 0

NetEdge(prob, ask) == Cent * (prob - ask) - ClobFee(ask, FeeBps) - Slippage

Prob(fair, side) == IF side = "YES" THEN fair ELSE 100 - fair

(* The side with the larger difference; YES when they are equal. *)
BestSide(fair, ask) ==
  LET offered == {s \in Sides : ask[s] # NoAsk}
      gain(s) == Prob(fair, s) - ask[s]
  IN  IF offered = Sides
      THEN IF gain("YES") >= gain("NO") THEN "YES" ELSE "NO"
      ELSE CHOOSE s \in offered : TRUE

(* A row for every net edge of at least the minimum, whatever its status. *)
Status(net, deep, approved) ==
  CASE net > MaxEdge -> "edge_too_high"
    [] net =< MaxEdge /\ ~deep -> "low_liquidity"
    [] net =< MaxEdge /\ deep /\ ~approved -> "risk_blocked"
    [] OTHER -> "shadow_recorded"

(* match_market(): the events of the cycle that fit; one or nothing. *)
Matches(m, events) == {x \in events : x[1] \in Fits[m]}

Matched_First(m, events) == Matches(m, events) # {}
Matched(m, events) == Cardinality(Matches(m, events)) = 1

(* The signal of a market, None when it gets none. *)
Signal(m, events, quote) ==
  LET x    == CHOOSE y \in Matches(m, events) : TRUE
      fair == Fair(x[2])
      side == BestSide(fair, quote.ask)
      net  == NetEdge(Prob(fair, side), quote.ask[side])
  IN  IF \/ ~Matched(m, events)
         \/ fair = None
         \/ \A s \in Sides : quote.ask[s] = NoAsk
         \/ net < MinEdge
      THEN None
      ELSE [market |-> m, event |-> x, side |-> side, net |-> net,
            prob |-> Prob(fair, side), ask |-> quote.ask[side],
            status |-> Status(net, quote.deep, quote.approved)]

Fingerprint(s) == <<s.net, s.prob>>
KeyOf(s) == <<s.market, s.side>>

-----------------------------------------------------------------------------
(* cycle().                                                                *)

Quotes == [ask : [Sides -> Asks \cup {NoAsk}], deep : BOOLEAN, approved : BOOLEAN]

Init ==
  /\ ClientInit
  /\ stage = "asleep"
  /\ todo = << >>
  /\ got = {}
  /\ remembered = [k \in Keys |-> None]
  /\ stored = [k \in Keys |-> None]
  /\ lost = [k \in Keys |-> FALSE]
  /\ signals = {}

(* Without quota, or without watched markets (data capture is away), the   *)
(* cycle writes its funnel row and sleeps again.                           *)
CycleBegins ==
  /\ stage = "asleep"
  /\ trip' = Rearmed
  /\ \/ UNCHANGED <<stage, todo>>
     \/ ~Lasts(trip) /\ stage' = "fetching" /\ todo' = SportKeys
  /\ got' = {}
  /\ signals' = {}
  /\ UNCHANGED <<cache, call, reply, fetched, refused, remembered, stored, lost>>

FetchNext ==
  /\ stage = "fetching"
  /\ todo # << >>
  /\ call = None
  /\ reply = None
  /\ GetOdds(Head(todo))
  /\ UNCHANGED motor

Collects ==
  /\ reply # None
  /\ got' = got \cup reply.events
  /\ todo' = Tail(todo)
  /\ reply' = None
  /\ UNCHANGED <<cache, trip, call, fetched, refused, stage, remembered, stored, lost, signals>>

(* The answer is no JSON: the exception ends the cycle, nothing is written. *)
AnswerRaises ==
  /\ Sent
  /\ call' = None
  /\ stage' = "asleep"
  /\ todo' = << >>
  /\ got' = {}
  /\ UNCHANGED <<cache, trip, reply, fetched, refused, remembered, stored, lost, signals>>

Changed(s) == remembered[KeyOf(s)] # Fingerprint(s)

Remembers_OnlyApproved(new) ==
  [k \in Keys |-> IF \E s \in new : KeyOf(s) = k /\ s.status = "shadow_recorded"
                  THEN Fingerprint(CHOOSE s \in new : KeyOf(s) = k) ELSE remembered[k]]

Remembers(new) ==
  [k \in Keys |-> IF \E s \in new : KeyOf(s) = k
                  THEN Fingerprint(CHOOSE s \in new : KeyOf(s) = k) ELSE remembered[k]]

(* Evaluation, deduplication and commit run without an await.  A row is    *)
(* remembered before the commit, which may fail.                           *)
Evaluates(quotes, commits) ==
  LET all == {Signal(m, got, quotes[m]) : m \in Markets} \ {None}
      new == {s \in all : Changed(s)}
  IN  /\ stage = "fetching"
      /\ todo = << >>
      /\ stage' = "asleep"
      /\ remembered' = Remembers(new)
      /\ signals' = new
      /\ stored' = [k \in Keys |-> IF commits /\ \E s \in new : KeyOf(s) = k
                                   THEN Fingerprint(CHOOSE s \in new : KeyOf(s) = k)
                                   ELSE stored[k]]
      /\ lost' = [k \in Keys |-> IF \E s \in new : KeyOf(s) = k THEN ~commits ELSE lost[k]]
      /\ got' = {}
      /\ UNCHANGED <<client, todo>>

EvaluatesAny ==
  \E quotes \in [Markets -> Quotes], commits \in BOOLEAN : Evaluates(quotes, commits)

-----------------------------------------------------------------------------
Tick == ClientTick /\ UNCHANGED motor

RequestEnds == (Answered \/ Refused \/ Unauthorized \/ Failed) /\ UNCHANGED motor
BacksOff    == Retries /\ UNCHANGED motor
Outside     == (HealthAsks \/ MonthBegins) /\ UNCHANGED motor

Next ==
  \/ RequestEnds \/ BacksOff \/ Outside
  \/ CycleBegins \/ FetchNext \/ Collects \/ AnswerRaises \/ EvaluatesAny
  \/ Tick

Spec == Init /\ [][Next]_vars

(* The loop runs on, a request ends (the client has a timeout) and time    *)
(* passes.                                                                 *)
Fairness ==
  /\ WF_vars(CycleBegins) /\ WF_vars(FetchNext) /\ WF_vars(Collects) /\ WF_vars(EvaluatesAny)
  /\ WF_vars(RequestEnds) /\ WF_vars(BacksOff)
  /\ WF_vars(Tick)

FairSpec == Spec /\ Fairness

-----------------------------------------------------------------------------
(* "La API es PAGA: no se martilla", over retries, sports, cycles and     *)
(* health checks: no request leaves from an answer that the quota is used  *)
(* up until the cooldown is over or a month has begun, none for a sport    *)
(* answered within the time to live, and none is retried without end       *)
(* (odds_api.py:147-170, 192-210).                                         *)
CallsAreSpared ==
  [][~Sent /\ Sent' => /\ ~Lasts(refused)
                      /\ fetched[call'.sport] >= TTL
                      /\ call'.attempt =< RetryAttempts]_vars

(* "Un match falso cuesta el motor": a signal comes from an event that the *)
(* cycle fetched and that no other event it fetched, of whatever sport or  *)
(* age in the cache, competes with (matcher.py:88-124, engine.py:214-226). *)
(* A fetch that fails hides the events of its sport from this rule.        *)
NoAmbiguousSignal ==
  [][\A s \in signals' : stage = "fetching" /\ stage' = "asleep" /\ call = None
       => /\ s.event \in got
          /\ \A y \in got : y[1] \in Fits[s.market] => y = s.event]_vars

(* What is remembered as recorded is the last row of its market and side,  *)
(* unless the commit of that row failed: then it is not written again      *)
(* until the edge changes (engine.py:243-276).                             *)
RememberedIsStored ==
  \A k \in Keys : remembered[k] = stored[k] \/ lost[k]

(* A signal that is recorded as good has a plausible edge left after fee   *)
(* and slippage, and its probability lies between those of two of its      *)
(* bookmakers: one broken quote among three does not make it               *)
(* (engine.py:52-80, 135-197).                                             *)
SignalsArePlausible ==
  \A s \in signals : s.status = "shadow_recorded" =>
    LET fair == IF s.side = "YES" THEN s.prob ELSE 100 - s.prob
        p    == FairProbs(s.event[2])
    IN  /\ s.prob > s.ask
        /\ NetEdge(s.prob, s.ask) =< MaxEdge
        /\ Cardinality(DOMAIN p) >= 3 => \A i \in DOMAIN p :
             \E j, k \in DOMAIN p \ {i} : p[j] =< fair /\ fair =< p[k]

(* The breaker does not stay for ever: cycles go on asking for it and find *)
(* the cooldown over (odds_api.py:147-161, engine.py:209).                 *)
BreakerRearms == (trip # None) ~> (trip = None)
=============================================================================
