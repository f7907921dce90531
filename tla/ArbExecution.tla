---------------------------- MODULE ArbExecution ----------------------------
(***************************************************************************)
(* Motor 1 with real orders: ArbExecutor.execute()                         *)
(* (src/motor_1_arbitrage/executor.py) posting the two legs of an          *)
(* opportunity, the user channel (src/execution/service.py) applying fills *)
(* and cancellations to the database, and the exchange between them.       *)
(*                                                                         *)
(* Both run on one asyncio loop: an action here is what happens between    *)
(* two awaits.  The engine executes one opportunity at a time and awaits   *)
(* the answer to each POST and DELETE; while it waits, `at` says for what, *)
(* and every other action of the module may come first.                    *)
(*                                                                         *)
(* Contracts are counted in lots, the quantity of one fill event, and are  *)
(* filled at the limit price, the worst one a buy can get.  Positions are  *)
(* never closed by the code, so the exposure of the open rows is a running *)
(* total.                                                                  *)
(***************************************************************************)
EXTENDS Integers, Functions

CONSTANTS
  MaxExecs,               \* bound on the opportunities executed
  Opps,                   \* opportunities the engine may find executable
  MaxTrade, MaxExposure   \* max_trade_size_usd(), max_exposure_usd()

ASSUME OppsAssumption ==
  /\ Opps # {}
  /\ \A x \in Opps : /\ x.size \in Nat \ {0}
                     /\ x.yes \in Nat \ {0}
                     /\ x.no \in Nat \ {0}

ASSUME LimitsAssumption ==
  /\ MaxExecs \in Nat
  /\ MaxTrade \in Nat
  /\ MaxExposure \in Nat

VARIABLES
  gate,       \* what check_pre_trade() says of kill switch, pause and losses
  reserved,   \* _reserved_usd of each RiskManager instance
  openUsd,    \* sum of exposure_usd over the open Position rows
  at,         \* what the engine awaits: nothing, a POST, the DELETE
  n,          \* executions approved so far; n is the current one
  opp,        \* opp[k]: the opportunity of execution k =< n
  status,     \* Trade.status, "none" while there is no row
  known,      \* Trade.exchange_order_id is set
  fill,       \* Trade.fill_size
  contracts,  \* Position.contracts of each token
  order,      \* the order at the exchange
  matched,    \* lots the exchange has matched, hence on chain
  inflight,   \* fill events on their way through the user channel
  cancelled,  \* a cancellation event on its way
  orphans     \* history: orders the reservation was given up for too early

db       == <<status, known, fill, contracts, openUsd>>
exchange == <<order, matched>>
channel  == <<inflight, cancelled>>
engine   == <<at, n, opp>>
vars     == <<gate, reserved, db, exchange, channel, engine, orphans>>

Legs    == {"yes", "no"}
Execs   == 1 .. MaxExecs
Orders  == Execs \X Legs
Tokens  == {x.market : x \in Opps} \X Legs
Risks   == {"engine", "user"}
Gates   == {"open", "closed"}
Status  == {"none", "pending", "placed", "filled", "cancelled", "error"}

OppOf(o)  == opp[o[1]]
Price(o)  == IF o[2] = "yes" THEN OppOf(o).yes ELSE OppOf(o).no
Size(o)   == OppOf(o).size
Token(o)  == <<OppOf(o).market, o[2]>>

SizeUsd_OneLeg(x) == x.size * x.yes
SizeUsd(x) == x.size * (x.yes + x.no)

Created  == {o \in Orders : status[o] # "none"}
Current(leg) == <<n, leg>>

TypeOK ==
  /\ gate \in Gates
  /\ reserved \in [Risks -> Nat]
  /\ openUsd \in Nat
  /\ at \in {"idle", "yes", "no", "cancel"}
  /\ n \in 0 .. MaxExecs
  /\ opp \in [Execs -> Opps]
  /\ status \in [Orders -> Status]
  /\ known \in [Orders -> BOOLEAN]
  /\ fill \in [Orders -> Nat]
  /\ contracts \in [Tokens -> Nat]
  /\ order \in [Orders -> {"none", "sent", "live", "closed"}]
  /\ matched \in [Orders -> Nat]
  /\ inflight \in [Orders -> Nat]
  /\ cancelled \in [Orders -> BOOLEAN]
  /\ orphans \subseteq Orders

Init ==
  /\ gate = "open"
  /\ reserved = [r \in Risks |-> 0]
  /\ openUsd = 0
  /\ at = "idle"
  /\ n = 0
  /\ opp = [k \in Execs |-> CHOOSE x \in Opps : TRUE]
  /\ status = [o \in Orders |-> "none"]
  /\ known = [o \in Orders |-> FALSE]
  /\ fill = [o \in Orders |-> 0]
  /\ contracts = [t \in Tokens |-> 0]
  /\ order = [o \in Orders |-> "none"]
  /\ matched = [o \in Orders |-> 0]
  /\ inflight = [o \in Orders |-> 0]
  /\ cancelled = [o \in Orders |-> FALSE]
  /\ orphans = {}

-----------------------------------------------------------------------------
(* The risk manager as the executor uses it.                               *)

CurrentExposure_Bare == openUsd
CurrentExposure == openUsd + reserved["engine"]

Approves_GateUnchecked(x) ==
  /\ SizeUsd(x) =< MaxTrade
  /\ CurrentExposure + SizeUsd(x) =< MaxExposure

Approves(x) ==
  /\ gate = "open"
  /\ SizeUsd(x) =< MaxTrade
  /\ CurrentExposure + SizeUsd(x) =< MaxExposure

(* release_reservation() of one instance. *)
Released_NoFloor(r, usd) == [reserved EXCEPT ![r] = @ - usd]

Released_All(r, usd) == [reserved EXCEPT ![r] = 0]

Released(r, usd) ==
  [reserved EXCEPT ![r] = IF usd > @ THEN 0 ELSE @ - usd]

(* The instance user_channel_service() passes to handle_user_event(): one  *)
(* of its own, not the one the executor reserves on.                       *)
UserChannelRisk == "user"

-----------------------------------------------------------------------------
(* ArbExecutor.execute().                                                  *)

(* The Trade row of a leg is written, its POST is on the wire. *)
BeginLeg(o) ==
  /\ status' = [status EXCEPT ![o] = "pending"]
  /\ order' = [order EXCEPT ![o] = "sent"]
  /\ at' = o[2]

(* check_and_reserve() approves; up to the await of the first POST. *)
Execute(x) ==
  /\ at = "idle"
  /\ n < MaxExecs
  /\ Approves(x)
  /\ n' = n + 1
  /\ opp' = [opp EXCEPT ![n + 1] = x]
  /\ reserved' = [reserved EXCEPT !["engine"] = @ + SizeUsd(x)]
  /\ BeginLeg(<<n + 1, "yes">>)
  /\ UNCHANGED <<gate, openUsd, known, fill, contracts, matched, channel, orphans>>

(* The answer to a POST: the Trade is placed, with the order's id if the   *)
(* answer carries one, and the next leg begins.                            *)
Placed(leg, hasId) ==
  /\ known' = [known EXCEPT ![Current(leg)] = hasId]
  /\ IF leg = "yes"
     THEN /\ status' = [status EXCEPT ![Current("yes")] = "placed", ![Current("no")] = "pending"]
          /\ at' = "no"
     ELSE /\ status' = [status EXCEPT ![Current("no")] = "placed"]
          /\ at' = "idle"
  /\ UNCHANGED <<gate, reserved, openUsd, n, opp, fill, contracts, matched, channel, orphans>>

SendNext(leg, os) == IF leg = "yes" THEN [os EXCEPT ![Current("no")] = "sent"] ELSE os

PostAnswered(leg) ==
  /\ at = leg
  /\ order[Current(leg)] \in {"live", "closed"}
  /\ order' = SendNext(leg, order)
  /\ Placed(leg, TRUE)

(* A 2xx answer without orderID: nothing rests at the exchange, the Trade  *)
(* is placed all the same, and no event will ever find it.                 *)
PostAnsweredWithoutId(leg) ==
  /\ at = leg
  /\ order[Current(leg)] = "sent"
  /\ order' = SendNext(leg, [order EXCEPT ![Current(leg)] = "closed"])
  /\ Placed(leg, FALSE)

(* The end of the except branch: every leg with a Trade row becomes        *)
(* "error" whatever its status was, and the reservation is given up - also *)
(* for lots that can still be matched, or whose fills are not booked yet.  *)
Unaccounted(os, o) == os[o] \in {"sent", "live"} \/ matched[o] > fill[o]

Rollback(os) ==
  LET legs == {o \in Created : o[1] = n}
  IN  /\ order' = os
      /\ status' = [o \in Orders |-> IF o \in legs THEN "error" ELSE status[o]]
      /\ reserved' = Released("engine", SizeUsd(opp[n]))
      /\ orphans' = orphans \cup {o \in legs : Unaccounted(os, o)}
      /\ at' = "idle"
      /\ UNCHANGED <<gate, openUsd, n, opp, known, fill, contracts, matched, inflight>>

(* post_order() raises.  The exchange may have refused the order or never  *)
(* seen it, or only its answer was late: then the order is or will be live *)
(* and the code has no id to cancel it with.  A first leg with an id is    *)
(* cancelled before the rollback ends.                                     *)
PostRaises(leg) ==
  /\ at = leg
  /\ \E os \in {order} \cup (IF order[Current(leg)] = "sent"
                             THEN {[order EXCEPT ![Current(leg)] = "closed"]}
                             ELSE {}) :
       IF leg = "no" /\ known[Current("yes")]
       THEN /\ order' = os
            /\ at' = "cancel"
            /\ UNCHANGED <<gate, reserved, db, matched, channel, n, opp, orphans>>
       ELSE Rollback(os) /\ UNCHANGED cancelled

(* The first leg is placed, but the second one is not sent: build_order()  *)
(* or its Trade row raises.  (Without an id for the first leg there is     *)
(* nothing to cancel: the same as its POST raising.)                       *)
SecondLegNotSent ==
  /\ at = "yes"
  /\ order[Current("yes")] \in {"live", "closed"}
  /\ known' = [known EXCEPT ![Current("yes")] = TRUE]
  /\ status' = [status EXCEPT ![Current("yes")] = "placed"]
  /\ at' = "cancel"
  /\ UNCHANGED <<gate, reserved, openUsd, n, opp, fill, contracts, exchange, channel, orphans>>

(* The DELETE closes the first leg, and the exchange tells the channel. *)
CancelCloses ==
  /\ at = "cancel"
  /\ order[Current("yes")] = "live"
  /\ Rollback([order EXCEPT ![Current("yes")] = "closed"])
  /\ cancelled' = [cancelled EXCEPT ![Current("yes")] = TRUE]

(* The DELETE changes nothing: the order is already closed, or the request *)
(* failed.  The exception is logged and the rollback goes on.              *)
CancelFails_Retried ==
  /\ at = "cancel"
  /\ UNCHANGED vars

CancelFails ==
  /\ at = "cancel"
  /\ Rollback(order)
  /\ UNCHANGED cancelled

EngineStep ==
  \/ \E leg \in Legs : PostAnswered(leg) \/ PostAnsweredWithoutId(leg) \/ PostRaises(leg)
  \/ SecondLegNotSent
  \/ CancelCloses
  \/ CancelFails

-----------------------------------------------------------------------------
(* handle_user_event().                                                    *)

(* A fill of an order whose id is in the database.  Trade and Position     *)
(* change in one transaction, then the reservation is released.            *)
BookFill_FirstFillFills(o) ==
  /\ inflight[o] > 0
  /\ known[o]
  /\ inflight' = [inflight EXCEPT ![o] = @ - 1]
  /\ fill' = [fill EXCEPT ![o] = @ + 1]
  /\ status' = [status EXCEPT ![o] = "filled"]
  /\ contracts' = [contracts EXCEPT ![Token(o)] = @ + 1]
  /\ openUsd' = openUsd + Price(o)
  /\ reserved' = Released(UserChannelRisk, Price(o))
  /\ UNCHANGED <<gate, known, exchange, cancelled, engine, orphans>>

BookFill_PositionReplaced(o) ==
  /\ inflight[o] > 0
  /\ known[o]
  /\ inflight' = [inflight EXCEPT ![o] = @ - 1]
  /\ fill' = [fill EXCEPT ![o] = @ + 1]
  /\ status' = IF fill[o] + 1 >= Size(o) THEN [status EXCEPT ![o] = "filled"] ELSE status
  /\ contracts' = [contracts EXCEPT ![Token(o)] = 1]
  /\ openUsd' = openUsd + Price(o) - contracts[Token(o)] * Price(o)
  /\ reserved' = Released(UserChannelRisk, Price(o))
  /\ UNCHANGED <<gate, known, exchange, cancelled, engine, orphans>>

BookFill_WholeOrder(o) ==
  /\ inflight[o] > 0
  /\ known[o]
  /\ inflight' = [inflight EXCEPT ![o] = @ - 1]
  /\ fill' = [fill EXCEPT ![o] = Size(o)]
  /\ status' = [status EXCEPT ![o] = "filled"]
  /\ contracts' = [contracts EXCEPT ![Token(o)] = @ + Size(o)]
  /\ openUsd' = openUsd + Size(o) * Price(o)
  /\ reserved' = Released(UserChannelRisk, Price(o))
  /\ UNCHANGED <<gate, known, exchange, cancelled, engine, orphans>>

BookFill(o) ==
  /\ inflight[o] > 0
  /\ known[o]
  /\ inflight' = [inflight EXCEPT ![o] = @ - 1]
  /\ fill' = [fill EXCEPT ![o] = @ + 1]
  /\ status' = IF fill[o] + 1 >= Size(o) THEN [status EXCEPT ![o] = "filled"] ELSE status
  /\ contracts' = [contracts EXCEPT ![Token(o)] = @ + 1]
  /\ openUsd' = openUsd + Price(o)
  /\ reserved' = Released(UserChannelRisk, Price(o))
  /\ UNCHANGED <<gate, known, exchange, cancelled, engine, orphans>>

(* "Fill de orden desconocida": the POST has not been answered yet, or     *)
(* never will be.  The event is dropped for good.                          *)
DropUnknownFill(o) ==
  /\ inflight[o] > 0
  /\ ~known[o]
  /\ inflight' = [inflight EXCEPT ![o] = @ - 1]
  /\ UNCHANGED <<gate, reserved, db, exchange, cancelled, engine, orphans>>

(* A cancellation, of an order in the database or not.  No reservation is  *)
(* released here.                                                          *)
HandleCancellation(o) ==
  /\ cancelled[o]
  /\ cancelled' = [cancelled EXCEPT ![o] = FALSE]
  /\ status' = IF known[o] /\ status[o] # "filled"
               THEN [status EXCEPT ![o] = "cancelled"] ELSE status
  /\ UNCHANGED <<gate, reserved, known, fill, contracts, openUsd, exchange, inflight, engine, orphans>>

-----------------------------------------------------------------------------
(* The world outside: the exchange, the WebSocket, the container.          *)

ExchangeAccepts(o) ==
  /\ order[o] = "sent"
  /\ order' = [order EXCEPT ![o] = "live"]
  /\ UNCHANGED <<gate, reserved, db, matched, channel, engine, orphans>>

ExchangeMatches(o) ==
  /\ order[o] = "live"
  /\ matched' = [matched EXCEPT ![o] = @ + 1]
  /\ inflight' = [inflight EXCEPT ![o] = @ + 1]
  /\ order' = IF matched[o] + 1 = Size(o) THEN [order EXCEPT ![o] = "closed"] ELSE order
  /\ UNCHANGED <<gate, reserved, db, cancelled, engine, orphans>>

(* The exchange closes a resting order by itself (market resolved). *)
ExchangeCancels(o) ==
  /\ order[o] = "live"
  /\ order' = [order EXCEPT ![o] = "closed"]
  /\ cancelled' = [cancelled EXCEPT ![o] = TRUE]
  /\ UNCHANGED <<gate, reserved, db, matched, inflight, engine, orphans>>

(* An event is lost: the user channel reconnects and nothing is sent again, *)
(* or handle_user_event() raises and the consumer goes on with the next.   *)
EventLost(o) ==
  /\ \/ /\ inflight[o] > 0
        /\ inflight' = [inflight EXCEPT ![o] = @ - 1]
        /\ UNCHANGED cancelled
     \/ /\ cancelled[o]
        /\ cancelled' = [cancelled EXCEPT ![o] = FALSE]
        /\ UNCHANGED inflight
  /\ UNCHANGED <<gate, reserved, db, exchange, engine, orphans>>

(* The container dies and comes back: the database stays, the engine, the  *)
(* reservations and the connection do not.                                 *)
Crash ==
  /\ at' = "idle"
  /\ reserved' = [r \in Risks |-> 0]
  /\ inflight' = [o \in Orders |-> 0]
  /\ cancelled' = [o \in Orders |-> FALSE]
  /\ orphans' = orphans \cup {o \in Created : Unaccounted(order, o)}
  /\ UNCHANGED <<gate, db, exchange, n, opp>>

(* Kill switch, pauses and losses are the business of RiskManager: here    *)
(* the gate closes and reopens at any time.                                *)
GateMoves ==
  /\ gate' \in Gates \ {gate}
  /\ UNCHANGED <<reserved, db, exchange, channel, engine, orphans>>

Next ==
  \/ \E x \in Opps : Execute(x)
  \/ EngineStep
  \/ \E o \in Orders : \/ BookFill(o)
                       \/ DropUnknownFill(o)
                       \/ HandleCancellation(o)
                       \/ ExchangeAccepts(o)
                       \/ ExchangeMatches(o)
                       \/ ExchangeCancels(o)
                       \/ EventLost(o)
  \/ Crash
  \/ GateMoves

Spec == Init /\ [][Next]_vars

(* httpx gives every request a timeout: each await of the engine ends, in  *)
(* an answer or in an exception.                                           *)
FairSpec == Spec /\ WF_vars(EngineStep)

-----------------------------------------------------------------------------
(* Properties.                                                             *)

(* Trade and Position tell the same story, whatever events were lost, came *)
(* early or crossed a crash (executor.py:149-192): the contracts of a      *)
(* token are the fills of its trades, the open exposure is their cost.     *)
FillsOf(t) == [o \in {q \in Created : Token(q) = t} |-> fill[o]]
CostOf(os) == [o \in os |-> fill[o] * Price(o)]

PositionsAreTheFills ==
  /\ \A t \in Tokens : contracts[t] = SumFunction(FillsOf(t))
  /\ openUsd = SumFunction(CostOf(Created))

(* The database never claims more than the exchange matched, and books     *)
(* nothing for an order it cannot name: a difference with the chain is     *)
(* always a fill that was missed (executor.py:157-160, 161-166).           *)
BooksNeverAhead ==
  \A o \in Orders :
    /\ fill[o] + inflight[o] =< matched[o]
    /\ fill[o] > 0 => known[o]

(* A final status is true of the exchange although it is written by two    *)
(* coroutines in any order (executor.py:118-119, 164-165, 212-213): filled *)
(* means every lot was matched, cancelled that no further one will be and  *)
(* that some lot is not in the books.                                      *)
FinalStatusIsTrue ==
  \A o \in Orders :
    /\ status[o] = "filled" => matched[o] = Size(o)
    /\ status[o] = "cancelled" => order[o] = "closed" /\ fill[o] < Size(o)

(* The 25% limit holds of the real commitment, not of the books: what the  *)
(* exchange matched or may still match of every order, except those whose  *)
(* reservation was given up while they could still cost money, stays       *)
(* within max_exposure_usd() (manager.py:200-246, executor.py:62-65).      *)
Commitment(o) == Price(o) * IF order[o] = "closed" THEN matched[o] ELSE Size(o)

CommitmentWithinLimit ==
  LET accounted == Created \ orphans
  IN  SumFunction([o \in accounted |-> Commitment(o)]) =< MaxExposure

(* current_exposure_usd() never understates what these orders can cost:    *)
(* open rows and reservation together cover it, whatever was rolled back,  *)
(* booked late or lost in a restart (manager.py:127-132).                  *)
ExposureCoversCommitment ==
  LET accounted == Created \ orphans
  IN  SumFunction([o \in accounted |-> Commitment(o)]) =< CurrentExposure

(* Once kill switch, pause or stop-loss closed the gate, the only order    *)
(* still sent is the second leg of the pair that is being executed.        *)
ClosedGateOnlyEndsPair ==
  [][gate # "open" => Created' \subseteq Created \cup {<<n, "no">>}]_vars

(* No execution hangs: the engine, which awaits two POSTs and a DELETE in  *)
(* turn, comes back to its tick loop (engine.py:234-236).                  *)
ExecutionEnds == at # "idle" ~> at = "idle"

(* Seen from the exposure limit, motor 1 keeps the promise of RiskGate     *)
(* (a closed gate, whatever closed it, is shown as a pause): capital is    *)
(* committed through an open gate alone and within max_exposure_usd(),     *)
(* and fills, rollbacks and crashes only give it back.                     *)
Gate == INSTANCE RiskGate WITH gate   <- IF gate = "open" THEN "open" ELSE "paused",
                               booked <- openUsd,
                               held   <- reserved["engine"]

ImplementsGate == Gate!Spec

(* What the code says of reservations, "hasta que [...] el fill se         *)
(* persista como Position" (manager.py:236-237): with every trade filled,  *)
(* every fill booked and the engine idle, nothing is reserved.             *)
AllFilled ==
  /\ at = "idle"
  /\ \A o \in Created : status[o] = "filled"

ReservationEndsWithFill == AllFilled => reserved["engine"] = 0
=============================================================================
