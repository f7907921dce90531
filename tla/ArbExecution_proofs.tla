------------------------ MODULE ArbExecution_proofs ------------------------
(***************************************************************************)
(* Theorems about ArbExecution, for any number of executions, any          *)
(* opportunities and any limits.  BooksNeverAhead and FinalStatusIsTrue    *)
(* are not inductive: what makes them hold is how an order's status, its   *)
(* id, its state at the exchange and the events still on their way fit     *)
(* together, which OrderInv says of each order and EngineInv of the one    *)
(* that is not sent yet.                                                   *)
(***************************************************************************)
EXTENDS ArbExecution, NumberLemmas

(* An order exists at the exchange when its Trade row exists; its id is    *)
(* known, it is matched and its cancellation is announced only once the    *)
(* exchange has accepted it; no cancellation follows the last match.       *)
OrderInv(o) ==
  /\ status[o] = "none" <=> order[o] = "none"
  /\ order[o] \in {"none", "sent"} =>
       /\ ~known[o] /\ ~cancelled[o] /\ matched[o] = 0
       /\ status[o] \in {"none", "pending", "error"}
  /\ order[o] = "live" => ~cancelled[o] /\ matched[o] < Size(o)
  /\ cancelled[o] => matched[o] < Size(o)
  /\ fill[o] + inflight[o] =< matched[o]
  /\ matched[o] =< Size(o)
  /\ fill[o] > 0 => known[o]
  /\ status[o] = "filled" => fill[o] = Size(o)
  /\ status[o] = "cancelled" => order[o] = "closed" /\ fill[o] < Size(o)

EngineInv ==
  /\ at # "idle" => n \in Execs
  /\ at = "yes" => order[Current("no")] = "none"
  /\ \A o \in Orders : o[1] > n => order[o] = "none"

IInv == TypeOK /\ EngineInv /\ \A o \in Orders : OrderInv(o)

-----------------------------------------------------------------------------
(* Types.                                                                  *)

LEMMA OrderTypes ==
  ASSUME opp \in [Execs -> Opps], NEW o \in Orders
  PROVE  /\ Price(o) \in Nat \ {0}
         /\ Size(o) \in Nat \ {0}
         /\ Token(o) \in Tokens
<1>1. o[1] \in Execs /\ o[2] \in Legs
  BY DEF Orders
<1>2. OppOf(o) \in Opps
  BY <1>1 DEF OppOf
<1> QED
  BY <1>1, <1>2, OppsAssumption DEF OppsAssumption, Price, Size, Token, Tokens

LEMMA CurrentTypes ==
  ASSUME NEW k \in Execs, NEW leg \in Legs
  PROVE  <<k, leg>> \in Orders
BY DEF Orders

LEMMA SizeUsdType == ASSUME NEW x \in Opps PROVE SizeUsd(x) \in Nat \ {0}
<1>1. x.size \in Nat \ {0} /\ x.yes \in Nat \ {0} /\ x.no \in Nat \ {0}
  BY OppsAssumption DEF OppsAssumption
<1>2. x.yes + x.no \in Nat \ {0}
  BY <1>1
<1>3. \A a, b \in Nat \ {0} : a * b \in Nat \ {0}
  OBVIOUS
<1> QED
  BY <1>1, <1>2, <1>3 DEF SizeUsd

LEMMA ReleasedType ==
  ASSUME reserved \in [Risks -> Nat], NEW r \in Risks, NEW usd \in Nat
  PROVE  /\ Released(r, usd) \in [Risks -> Nat]
         /\ \A q \in Risks : Released(r, usd)[q] =< reserved[q]
         /\ \A q \in Risks \ {r} : Released(r, usd)[q] = reserved[q]
BY DEF Released

LEMMA TypeInit == Init => TypeOK /\ EngineInv /\ \A o \in Orders : OrderInv(o)
<1> SUFFICES ASSUME Init PROVE TypeOK /\ EngineInv /\ \A o \in Orders : OrderInv(o)
  OBVIOUS
<1>1. opp \in [Execs -> Opps]
  BY OppsAssumption DEF Init, OppsAssumption
<1>2. TypeOK
  BY <1>1, LimitsAssumption DEF Init, TypeOK, Gates, Risks, Status, LimitsAssumption
<1>3. EngineInv
  BY DEF Init, EngineInv
<1>4. ASSUME NEW o \in Orders PROVE OrderInv(o)
  BY <1>1, <1>4, OrderTypes DEF Init, OrderInv
<1> QED
  BY <1>2, <1>3, <1>4

(* The rollback, the same for each action that ends in one.                *)
LEMMA RollbackTypes ==
  ASSUME TypeOK, n \in Execs,
         NEW os \in [Orders -> {"none", "sent", "live", "closed"}], Rollback(os),
         cancelled' \in [Orders -> BOOLEAN]
  PROVE  TypeOK'
<1>1. opp[n] \in Opps
  BY DEF TypeOK
<1>2. reserved' \in [Risks -> Nat]
  BY <1>1, SizeUsdType, ReleasedType DEF Rollback, TypeOK, Risks
<1>3. status' \in [Orders -> Status]
  BY DEF Rollback, TypeOK, Status
<1>4. orphans' \subseteq Orders
  BY DEF Rollback, TypeOK, Created
<1> QED
  BY <1>2, <1>3, <1>4 DEF Rollback, TypeOK

LEMMA PlacedTypes ==
  ASSUME TypeOK, NEW leg \in Legs, n \in Execs, NEW hasId \in BOOLEAN, Placed(leg, hasId),
         order' \in [Orders -> {"none", "sent", "live", "closed"}]
  PROVE  TypeOK'
<1>1. Current("yes") \in Orders /\ Current("no") \in Orders
  BY CurrentTypes DEF Current, Legs
<1>2. known' \in [Orders -> BOOLEAN]
  BY DEF Placed, TypeOK
<1>3. status' \in [Orders -> Status]
  BY DEF Placed, TypeOK, Status
<1>4. at' \in {"no", "idle"}
  BY DEF Placed
<1> QED
  BY <1>2, <1>3, <1>4 DEF Placed, TypeOK, channel

LEMMA TypeStep ==
  ASSUME TypeOK, EngineInv, [Next]_vars
  PROVE  TypeOK'
<1> DEFINE OrderStates == {"none", "sent", "live", "closed"}
<1>0. at # "idle" => n \in Execs
  BY DEF EngineInv
<1>1. ASSUME NEW x \in Opps, Execute(x) PROVE TypeOK'
  <2>1. n + 1 \in Execs /\ n' = n + 1
    BY <1>1, LimitsAssumption DEF Execute, TypeOK, Execs, LimitsAssumption
  <2>2. <<n + 1, "yes">> \in Orders
    BY <2>1, CurrentTypes DEF Legs
  <2>3. reserved' \in [Risks -> Nat]
    <3>1. SizeUsd(x) \in Nat
      BY SizeUsdType
    <3>2. reserved \in [Risks -> Nat]
      BY DEF TypeOK
    <3>3. reserved' = [reserved EXCEPT !["engine"] = @ + SizeUsd(x)]
      BY <1>1 DEF Execute
    <3> QED
      BY <3>1, <3>2, <3>3 DEF Risks
  <2>4. status' \in [Orders -> Status] /\ order' \in [Orders -> OrderStates]
    BY <1>1 DEF Execute, BeginLeg, TypeOK, Status
  <2>5. at' = "yes" /\ opp' \in [Execs -> Opps] /\ n' \in 0 .. MaxExecs
    BY <1>1, <2>1, LimitsAssumption DEF Execute, BeginLeg, TypeOK, Execs, LimitsAssumption
  <2> QED
    BY <1>1, <2>3, <2>4, <2>5 DEF Execute, TypeOK, channel
<1>2. ASSUME NEW leg \in Legs, PostAnswered(leg) PROVE TypeOK'
  <2>1. order' \in [Orders -> OrderStates]
    BY <1>2 DEF PostAnswered, SendNext, TypeOK
  <2> QED
    BY <1>0, <1>2, <2>1, PlacedTypes DEF PostAnswered, Legs
<1>3. ASSUME NEW leg \in Legs, PostAnsweredWithoutId(leg) PROVE TypeOK'
  <2>1. order' \in [Orders -> OrderStates]
    BY <1>3 DEF PostAnsweredWithoutId, SendNext, TypeOK
  <2> QED
    BY <1>0, <1>3, <2>1, PlacedTypes DEF PostAnsweredWithoutId, Legs
<1>4. ASSUME NEW leg \in Legs, PostRaises(leg) PROVE TypeOK'
  <2>1. PICK os : /\ os = order \/ os = [order EXCEPT ![Current(leg)] = "closed"]
                  /\ IF leg = "no" /\ known[Current("yes")]
                     THEN /\ order' = os
                          /\ at' = "cancel"
                          /\ UNCHANGED <<gate, reserved, db, matched, channel, n, opp, orphans>>
                     ELSE Rollback(os) /\ UNCHANGED cancelled
    BY <1>4 DEF PostRaises
  <2>2. os \in [Orders -> OrderStates]
    BY <2>1 DEF TypeOK
  <2>3. CASE leg = "no" /\ known[Current("yes")]
    BY <2>1, <2>2, <2>3 DEF TypeOK, db, channel
  <2>4. CASE ~(leg = "no" /\ known[Current("yes")])
    <3>1. Rollback(os) /\ UNCHANGED cancelled
      BY <2>1, <2>4
    <3>2. n \in Execs
      BY <1>0, <1>4 DEF PostRaises, Legs
    <3>3. cancelled' \in [Orders -> BOOLEAN]
      BY <3>1 DEF TypeOK
    <3> QED
      BY <2>2, <3>1, <3>2, <3>3, RollbackTypes
  <2> QED
    BY <2>3, <2>4
<1>5. CASE SecondLegNotSent
  BY <1>5 DEF SecondLegNotSent, TypeOK, Status, exchange, channel
<1>6. CASE CancelCloses
  <2>1. [order EXCEPT ![Current("yes")] = "closed"] \in [Orders -> OrderStates]
    BY DEF TypeOK
  <2>2. cancelled' \in [Orders -> BOOLEAN]
    BY <1>6 DEF CancelCloses, TypeOK
  <2> QED
    BY <1>0, <1>6, <2>1, <2>2, RollbackTypes DEF CancelCloses
<1>7. CASE CancelFails
  <2>1. order \in [Orders -> OrderStates] /\ cancelled' \in [Orders -> BOOLEAN]
    BY <1>7 DEF CancelFails, TypeOK
  <2> QED
    BY <1>0, <1>7, <2>1, RollbackTypes DEF CancelFails
<1>8. ASSUME NEW o \in Orders, BookFill(o) PROVE TypeOK'
  <2>1. Price(o) \in Nat /\ Token(o) \in Tokens
    BY OrderTypes DEF TypeOK
  <2>2. reserved' \in [Risks -> Nat]
    BY <1>8, <2>1, ReleasedType DEF BookFill, TypeOK, UserChannelRisk, Risks
  <2>3. /\ inflight' \in [Orders -> Nat]
        /\ fill' \in [Orders -> Nat]
        /\ contracts' \in [Tokens -> Nat]
        /\ openUsd' \in Nat
    BY <1>8, <2>1 DEF BookFill, TypeOK
  <2>4. status' \in [Orders -> Status]
    BY <1>8 DEF BookFill, TypeOK, Status
  <2> QED
    BY <1>8, <2>2, <2>3, <2>4 DEF BookFill, TypeOK, exchange, engine
<1>9. ASSUME NEW o \in Orders, DropUnknownFill(o) PROVE TypeOK'
  BY <1>9 DEF DropUnknownFill, TypeOK, db, exchange, engine
<1>10. ASSUME NEW o \in Orders, HandleCancellation(o) PROVE TypeOK'
  BY <1>10 DEF HandleCancellation, TypeOK, Status, exchange, engine
<1>11. ASSUME NEW o \in Orders, ExchangeAccepts(o) PROVE TypeOK'
  BY <1>11 DEF ExchangeAccepts, TypeOK, db, channel, engine
<1>12. ASSUME NEW o \in Orders, ExchangeMatches(o) PROVE TypeOK'
  BY <1>12 DEF ExchangeMatches, TypeOK, db, engine
<1>13. ASSUME NEW o \in Orders, ExchangeCancels(o) PROVE TypeOK'
  BY <1>13 DEF ExchangeCancels, TypeOK, db, engine
<1>14. ASSUME NEW o \in Orders, EventLost(o) PROVE TypeOK'
  <2>1. inflight' \in [Orders -> Nat]
    <3>1. CASE UNCHANGED inflight
      BY <3>1 DEF TypeOK
    <3>2. CASE inflight[o] > 0 /\ inflight' = [inflight EXCEPT ![o] = @ - 1]
      BY <3>2 DEF TypeOK
    <3> QED
      BY <1>14, <3>1, <3>2 DEF EventLost
  <2>2. cancelled' \in [Orders -> BOOLEAN]
    BY <1>14 DEF EventLost, TypeOK
  <2> QED
    BY <1>14, <2>1, <2>2 DEF EventLost, TypeOK, db, exchange, engine
<1>15. CASE Crash
  BY <1>15 DEF Crash, TypeOK, Created, db, exchange
<1>16. CASE GateMoves
  BY <1>16 DEF GateMoves, TypeOK, db, exchange, channel, engine
<1>17. CASE UNCHANGED vars
  BY <1>17 DEF vars, TypeOK, db, exchange, channel, engine
<1> QED
  BY <1>1, <1>2, <1>3, <1>4, <1>5, <1>6, <1>7, <1>8, <1>9, <1>10, <1>11, <1>12,
     <1>13, <1>14, <1>15, <1>16, <1>17 DEF Next, EngineStep

-----------------------------------------------------------------------------
(* One order.                                                              *)

(* Its row and its state at the exchange stay; events may be consumed. *)
LEMMA OrderUntouched ==
  ASSUME TypeOK, TypeOK', NEW o \in Orders, OrderInv(o),
         status'[o] = status[o], known'[o] = known[o], fill'[o] = fill[o],
         order'[o] = order[o], matched'[o] = matched[o], Size(o)' = Size(o),
         inflight'[o] =< inflight[o], cancelled'[o] => cancelled[o]
  PROVE  OrderInv(o)'
<1>1. /\ fill[o] \in Nat /\ matched[o] \in Nat /\ inflight[o] \in Nat /\ inflight'[o] \in Nat
      /\ Size(o) \in Nat
  BY OrderTypes DEF TypeOK
<1> QED
  BY <1>1 DEF OrderInv

(* It is closed, or its row is marked, while the fills stay as they are.   *)
LEMMA OrderClosed ==
  ASSUME TypeOK, TypeOK', NEW o \in Orders, OrderInv(o),
         known'[o] = known[o], fill'[o] = fill[o], matched'[o] = matched[o],
         Size(o)' = Size(o), inflight'[o] =< inflight[o],
         \/ status'[o] = status[o]
         \/ status[o] # "none" /\ status'[o] = "error",
         \/ order'[o] = order[o] /\ cancelled'[o] = cancelled[o]
         \/ /\ order[o] = "sent" /\ order'[o] = "closed"
            /\ cancelled'[o] = cancelled[o]
         \/ order[o] = "live" /\ order'[o] = "closed"
  PROVE  OrderInv(o)'
<1>1. /\ fill[o] \in Nat /\ matched[o] \in Nat /\ inflight[o] \in Nat /\ inflight'[o] \in Nat
      /\ Size(o) \in Nat \ {0}
  BY OrderTypes DEF TypeOK
<1> QED
  BY <1>1 DEF OrderInv

(* The answer to its POST is in. *)
LEMMA OrderPlaced ==
  ASSUME TypeOK, TypeOK', NEW o \in Orders, OrderInv(o),
         fill'[o] = fill[o], matched'[o] = matched[o], Size(o)' = Size(o),
         inflight'[o] = inflight[o], cancelled'[o] = cancelled[o],
         status'[o] = "placed",
         \/ order[o] \in {"live", "closed"} /\ order'[o] = order[o] /\ known'[o]
         \/ order[o] = "sent" /\ order'[o] = "closed" /\ known'[o] = known[o]
  PROVE  OrderInv(o)'
<1>1. /\ fill[o] \in Nat /\ matched[o] \in Nat /\ inflight[o] \in Nat
      /\ Size(o) \in Nat \ {0}
  BY OrderTypes DEF TypeOK
<1> QED
  BY <1>1 DEF OrderInv

(* It is sent, for the first time. *)
LEMMA OrderSent ==
  ASSUME TypeOK, TypeOK', NEW o \in Orders, OrderInv(o), order[o] = "none",
         fill'[o] = fill[o], matched'[o] = matched[o], known'[o] = known[o],
         inflight'[o] = inflight[o], cancelled'[o] = cancelled[o],
         \/ order'[o] = "sent" /\ status'[o] = "pending"
         \/ order'[o] = "none" /\ status'[o] = status[o]
  PROVE  OrderInv(o)'
<1>1. /\ fill[o] \in Nat /\ matched[o] \in Nat /\ inflight[o] \in Nat
      /\ Size(o)' \in Nat \ {0}
  <2>1. opp'[o[1]] \in Opps
    BY DEF TypeOK, Orders
  <2>2. Size(o)' \in Nat \ {0}
    BY <2>1, OppsAssumption DEF Size, OppOf, OppsAssumption
  <2> QED
    BY <2>2 DEF TypeOK
<1> QED
  BY <1>1 DEF OrderInv

-----------------------------------------------------------------------------
(* The steps of the engine.                                                *)

LEMMA ExecuteStep ==
  ASSUME IInv, TypeOK', NEW x \in Opps, Execute(x)
  PROVE  EngineInv' /\ \A o \in Orders : OrderInv(o)'
<1> USE DEF IInv
<1>1. /\ n \in Nat /\ n' = n + 1 /\ n + 1 \in Execs /\ at' = "yes"
      /\ \A o \in Orders : o[1] \in Execs /\ o[2] \in Legs
  BY LimitsAssumption DEF Execute, BeginLeg, TypeOK, Execs, Orders, LimitsAssumption
<1>2. <<n + 1, "yes">> \in Orders /\ <<n + 1, "no">> \in Orders
  BY <1>1, CurrentTypes DEF Legs
<1>3. ASSUME NEW o \in Orders, o[1] # n + 1 PROVE OrderInv(o)'
  <2>1. Size(o)' = Size(o)
    BY <1>1, <1>3 DEF Execute, Size, OppOf, TypeOK
  <2>2. o # <<n + 1, "yes">>
    BY <1>3
  <2>3. UNCHANGED <<status[o], known[o], fill[o], order[o], matched[o], inflight[o], cancelled[o]>>
    BY <1>3, <2>2 DEF Execute, BeginLeg, TypeOK, channel
  <2>4. inflight'[o] =< inflight[o]
    BY <2>3 DEF TypeOK
  <2> QED
    BY <2>1, <2>3, <2>4, OrderUntouched
<1>4. ASSUME NEW o \in Orders, o[1] = n + 1 PROVE OrderInv(o)'
  <2>1. order[o] = "none"
    BY <1>1, <1>4 DEF EngineInv
  <2>2. UNCHANGED <<known[o], fill[o], matched[o], inflight[o], cancelled[o]>>
    BY DEF Execute, channel
  <2>3. \/ order'[o] = "sent" /\ status'[o] = "pending"
        \/ order'[o] = "none" /\ status'[o] = status[o]
    BY <2>1 DEF Execute, BeginLeg, TypeOK
  <2> QED
    BY <2>1, <2>2, <2>3, OrderSent
<1>5. EngineInv'
  <2>1. ASSUME NEW o \in Orders, o[1] > n, o # <<n + 1, "yes">> PROVE order'[o] = "none"
    BY <2>1 DEF EngineInv, Execute, BeginLeg, TypeOK
  <2>2. order'[<<n + 1, "no">>] = "none"
    BY <1>1, <1>2, <2>1
  <2>3. ASSUME NEW o \in Orders, o[1] > n + 1 PROVE order'[o] = "none"
    <3>1. o[1] \in Int /\ o[1] > n /\ o[1] # n + 1
      BY <1>1, <2>3 DEF Execs
    <3>2. o # <<n + 1, "yes">>
      BY <3>1
    <3> QED
      BY <2>1, <3>1, <3>2
  <2> QED
    BY <1>1, <2>2, <2>3 DEF EngineInv, Current
<1> QED
  BY <1>3, <1>4, <1>5

LEMMA RollbackStep ==
  ASSUME IInv, TypeOK', n \in Execs, NEW os, Rollback(os),
         \A o \in Orders :
           \/ os[o] = order[o] /\ cancelled'[o] = cancelled[o]
           \/ order[o] = "sent" /\ os[o] = "closed" /\ cancelled'[o] = cancelled[o]
           \/ order[o] = "live" /\ os[o] = "closed"
  PROVE  EngineInv' /\ \A o \in Orders : OrderInv(o)'
<1> USE DEF IInv
<1>1. ASSUME NEW o \in Orders PROVE OrderInv(o)'
  <2>1. \/ status'[o] = status[o]
        \/ status[o] # "none" /\ status'[o] = "error"
    BY DEF Rollback, Created
  <2>2. /\ known'[o] = known[o] /\ fill'[o] = fill[o] /\ matched'[o] = matched[o]
        /\ inflight'[o] = inflight[o] /\ order'[o] = os[o]
        /\ Size(o)' = Size(o)
    BY DEF Rollback, Size, OppOf
  <2>3. inflight'[o] =< inflight[o]
    BY <2>2 DEF TypeOK
  <2> QED
    BY <2>1, <2>2, <2>3, OrderClosed
<1>2. EngineInv'
  <2>1. at' = "idle" /\ n' = n /\ order' = os
    BY DEF Rollback
  <2>2. ASSUME NEW o \in Orders, order[o] = "none" PROVE os[o] = "none"
    BY <2>2
  <2> QED
    BY <2>1, <2>2 DEF EngineInv
<1> QED
  BY <1>1, <1>2

(* An answer moves its own leg and, if it was the first, starts the second. *)
LEMMA PlacedStep ==
  ASSUME IInv, TypeOK', NEW leg \in Legs, at = leg, NEW hasId \in BOOLEAN, Placed(leg, hasId),
         \/ /\ hasId /\ order[Current(leg)] \in {"live", "closed"}
            /\ order' = SendNext(leg, order)
         \/ /\ ~hasId /\ order[Current(leg)] = "sent"
            /\ order' = SendNext(leg, [order EXCEPT ![Current(leg)] = "closed"])
  PROVE  EngineInv' /\ \A o \in Orders : OrderInv(o)'
<1> USE DEF IInv
<1>1. n \in Execs /\ n \in Nat
  BY DEF EngineInv, Legs, TypeOK
<1>2. Current("yes") \in Orders /\ Current("no") \in Orders /\ Current("yes") # Current("no")
  BY <1>1, CurrentTypes DEF Current, Legs
<1>3. leg = "yes" => order[Current("no")] = "none"
  BY DEF EngineInv
<1>4. leg \in {"yes", "no"}
  BY DEF Legs
<1>5. ASSUME NEW o \in Orders, o = Current(leg) PROVE OrderInv(o)'
  <2>1. /\ fill'[o] = fill[o] /\ matched'[o] = matched[o] /\ inflight'[o] = inflight[o]
        /\ cancelled'[o] = cancelled[o] /\ Size(o)' = Size(o)
    BY DEF Placed, channel, Size, OppOf
  <2>2. status'[o] = "placed" /\ known'[o] = hasId
    BY <1>2, <1>4, <1>5 DEF Placed, TypeOK
  <2>3. \/ hasId /\ order[o] \in {"live", "closed"} /\ order'[o] = order[o]
        \/ ~hasId /\ order[o] = "sent" /\ order'[o] = "closed"
    BY <1>2, <1>4, <1>5 DEF SendNext, TypeOK
  <2>4. order[o] = "sent" => ~known[o]
    BY DEF OrderInv
  <2>5. known[o] \in BOOLEAN
    BY DEF TypeOK
  <2>6. CASE hasId
    BY <2>1, <2>2, <2>3, <2>6, OrderPlaced
  <2>7. CASE ~hasId
    <3>1. known'[o] = known[o]
      BY <2>2, <2>3, <2>4, <2>5, <2>7
    <3> QED
      BY <2>1, <2>2, <2>3, <2>7, <3>1, OrderPlaced
  <2> QED
    BY <2>6, <2>7
<1>6. ASSUME NEW o \in Orders, leg = "yes", o = Current("no") PROVE OrderInv(o)'
  <2>1. order'[o] = "sent" /\ status'[o] = "pending" /\ known'[o] = known[o]
    BY <1>2, <1>6 DEF SendNext, Placed, TypeOK
  <2>2. /\ fill'[o] = fill[o] /\ matched'[o] = matched[o] /\ inflight'[o] = inflight[o]
        /\ cancelled'[o] = cancelled[o]
    BY DEF Placed, channel
  <2> QED
    BY <1>3, <1>6, <2>1, <2>2, OrderSent
<1>7. ASSUME NEW o \in Orders, o # Current(leg), ~(leg = "yes" /\ o = Current("no"))
      PROVE  OrderInv(o)' /\ order'[o] = order[o]
  <2>1. /\ status'[o] = status[o] /\ known'[o] = known[o] /\ order'[o] = order[o]
    BY <1>2, <1>4, <1>7 DEF SendNext, Placed, TypeOK
  <2>2. /\ fill'[o] = fill[o] /\ matched'[o] = matched[o] /\ inflight'[o] = inflight[o]
        /\ cancelled'[o] = cancelled[o] /\ Size(o)' = Size(o)
    BY DEF Placed, channel, Size, OppOf
  <2>3. inflight'[o] =< inflight[o]
    BY <2>2 DEF TypeOK
  <2> QED
    BY <2>1, <2>2, <2>3, OrderUntouched
<1>8. EngineInv'
  <2>1. at' # "yes" /\ n' = n
    BY DEF Placed
  <2>2. ASSUME NEW o \in Orders, o[1] > n PROVE order'[o] = "none"
    <3>1. o # Current("yes") /\ o # Current("no")
      BY <1>1, <2>2 DEF Current
    <3>2. order'[o] = order[o]
      BY <1>4, <1>7, <3>1
    <3> QED
      BY <2>2, <3>2 DEF EngineInv
  <2> QED
    BY <1>1, <2>1, <2>2 DEF EngineInv
<1> QED
  BY <1>5, <1>6, <1>7, <1>8

-----------------------------------------------------------------------------
(* The steps of the user channel and of the exchange: each touches one     *)
(* order.                                                                  *)

LEMMA BookFillStep ==
  ASSUME IInv, TypeOK', NEW o \in Orders, BookFill(o)
  PROVE  \A q \in Orders : OrderInv(q)' /\ order'[q] = order[q]
<1> USE DEF IInv
<1>1. ASSUME NEW q \in Orders PROVE Size(q)' = Size(q) /\ order'[q] = order[q]
  BY DEF BookFill, engine, exchange, Size, OppOf
<1>2. ASSUME NEW q \in Orders, q # o PROVE OrderInv(q)'
  <2>1. /\ status'[q] = status[q] /\ known'[q] = known[q] /\ fill'[q] = fill[q]
        /\ order'[q] = order[q] /\ matched'[q] = matched[q] /\ inflight'[q] = inflight[q]
        /\ cancelled'[q] = cancelled[q]
    BY <1>2 DEF BookFill, TypeOK, exchange
  <2>2. inflight'[q] =< inflight[q]
    BY <2>1 DEF TypeOK
  <2> QED
    BY <1>1, <2>1, <2>2, OrderUntouched
<1>3. OrderInv(o)'
  <2>1. /\ fill[o] \in Nat /\ matched[o] \in Nat /\ inflight[o] \in Nat /\ inflight[o] > 0
        /\ Size(o) \in Nat \ {0} /\ known[o]
    BY OrderTypes DEF BookFill, TypeOK
  <2>2. /\ fill'[o] = fill[o] + 1 /\ inflight'[o] = inflight[o] - 1
        /\ known'[o] = known[o] /\ order'[o] = order[o] /\ matched'[o] = matched[o]
        /\ cancelled'[o] = cancelled[o]
    BY DEF BookFill, TypeOK, exchange
  <2>3. status'[o] = IF fill[o] + 1 >= Size(o) THEN "filled" ELSE status[o]
    BY DEF BookFill, TypeOK
  <2>4. order[o] \notin {"none", "sent"} /\ status[o] # "none"
    BY <2>1 DEF OrderInv, TypeOK
  <2>5. OrderInv(o)
    OBVIOUS
  <2> QED
    BY <1>1, <2>1, <2>2, <2>3, <2>4, <2>5 DEF OrderInv
<1> QED
  BY <1>1, <1>2, <1>3

LEMMA HandleCancellationStep ==
  ASSUME IInv, TypeOK', NEW o \in Orders, HandleCancellation(o)
  PROVE  \A q \in Orders : OrderInv(q)' /\ order'[q] = order[q]
<1> USE DEF IInv
<1>1. ASSUME NEW q \in Orders
      PROVE  /\ Size(q)' = Size(q) /\ order'[q] = order[q] /\ known'[q] = known[q]
             /\ fill'[q] = fill[q] /\ matched'[q] = matched[q] /\ inflight'[q] = inflight[q]
             /\ inflight'[q] =< inflight[q]
  BY DEF HandleCancellation, engine, exchange, Size, OppOf, TypeOK
<1>2. ASSUME NEW q \in Orders, q # o PROVE OrderInv(q)'
  <2>1. status'[q] = status[q] /\ cancelled'[q] = cancelled[q]
    BY <1>2 DEF HandleCancellation, TypeOK
  <2> QED
    BY <1>1, <2>1, OrderUntouched
<1>3. OrderInv(o)'
  <2>1. cancelled[o] /\ ~cancelled'[o]
    BY DEF HandleCancellation, TypeOK
  <2>2. status'[o] = IF known[o] /\ status[o] # "filled" THEN "cancelled" ELSE status[o]
    BY DEF HandleCancellation, TypeOK
  <2>3. order[o] = "closed" /\ matched[o] < Size(o)
    BY <2>1 DEF OrderInv, TypeOK
  <2>4. /\ fill[o] \in Nat /\ matched[o] \in Nat /\ inflight[o] \in Nat
        /\ Size(o) \in Nat \ {0}
    BY OrderTypes DEF TypeOK
  <2> QED
    BY <1>1, <2>1, <2>2, <2>3, <2>4 DEF OrderInv
<1> QED
  BY <1>1, <1>2, <1>3

LEMMA EventGoneStep ==
  ASSUME IInv, TypeOK', NEW o \in Orders, DropUnknownFill(o) \/ EventLost(o)
  PROVE  \A q \in Orders : OrderInv(q)' /\ order'[q] = order[q]
<1> SUFFICES ASSUME NEW q \in Orders PROVE OrderInv(q)' /\ order'[q] = order[q]
  OBVIOUS
<1> USE DEF IInv
<1>1. /\ Size(q)' = Size(q) /\ order'[q] = order[q] /\ known'[q] = known[q]
      /\ fill'[q] = fill[q] /\ matched'[q] = matched[q] /\ status'[q] = status[q]
  BY DEF DropUnknownFill, EventLost, engine, exchange, db, Size, OppOf
<1>2. inflight'[q] =< inflight[q]
  <2>1. \/ inflight' = inflight
        \/ inflight[o] > 0 /\ inflight' = [inflight EXCEPT ![o] = @ - 1]
    BY DEF DropUnknownFill, EventLost
  <2> QED
    BY <2>1 DEF TypeOK
<1>3. cancelled'[q] => cancelled[q]
  BY DEF DropUnknownFill, EventLost, TypeOK
<1> QED
  BY <1>1, <1>2, <1>3, OrderUntouched

LEMMA ExchangeStep ==
  ASSUME IInv, TypeOK', NEW o \in Orders,
         ExchangeAccepts(o) \/ ExchangeMatches(o) \/ ExchangeCancels(o)
  PROVE  \A q \in Orders : OrderInv(q)' /\ (order[q] = "none" => order'[q] = "none")
<1> USE DEF IInv
<1>1. ASSUME NEW q \in Orders
      PROVE  /\ Size(q)' = Size(q) /\ known'[q] = known[q]
             /\ fill'[q] = fill[q] /\ status'[q] = status[q]
  BY DEF ExchangeAccepts, ExchangeMatches, ExchangeCancels, engine, db, Size, OppOf
<1>2. ASSUME NEW q \in Orders, q # o PROVE OrderInv(q)' /\ order'[q] = order[q]
  <2>1. /\ order'[q] = order[q] /\ matched'[q] = matched[q] /\ inflight'[q] = inflight[q]
        /\ cancelled'[q] = cancelled[q]
    BY <1>2 DEF ExchangeAccepts, ExchangeMatches, ExchangeCancels, channel, TypeOK
  <2>2. inflight'[q] =< inflight[q]
    BY <2>1 DEF TypeOK
  <2> QED
    BY <1>1, <2>1, <2>2, OrderUntouched
<1>3. /\ fill[o] \in Nat /\ matched[o] \in Nat /\ inflight[o] \in Nat
      /\ Size(o) \in Nat \ {0}
  BY OrderTypes DEF TypeOK
<1>4. CASE ExchangeAccepts(o)
  <2>1. /\ order[o] = "sent" /\ order'[o] = "live" /\ matched'[o] = matched[o]
        /\ inflight'[o] = inflight[o] /\ cancelled'[o] = cancelled[o]
    BY <1>4 DEF ExchangeAccepts, channel, TypeOK
  <2>2. OrderInv(o)'
    BY <1>1, <1>3, <2>1 DEF OrderInv
  <2> QED
    BY <1>2, <2>1, <2>2
<1>5. CASE ExchangeMatches(o)
  <2>1. /\ order[o] = "live" /\ matched'[o] = matched[o] + 1
        /\ inflight'[o] = inflight[o] + 1 /\ cancelled'[o] = cancelled[o]
        /\ order'[o] = IF matched[o] + 1 = Size(o) THEN "closed" ELSE "live"
    BY <1>5 DEF ExchangeMatches, TypeOK
  <2>2. OrderInv(o)'
    BY <1>1, <1>3, <2>1 DEF OrderInv
  <2> QED
    BY <1>2, <2>1, <2>2
<1>6. CASE ExchangeCancels(o)
  <2>1. /\ order[o] = "live" /\ order'[o] = "closed" /\ matched'[o] = matched[o]
        /\ inflight'[o] = inflight[o] /\ inflight'[o] =< inflight[o]
    BY <1>6 DEF ExchangeCancels, TypeOK
  <2>2. OrderInv(o)'
    BY <1>1, <2>1, OrderClosed
  <2> QED
    BY <1>2, <2>1, <2>2
<1> QED
  BY <1>4, <1>5, <1>6

-----------------------------------------------------------------------------
(* The inductive step.                                                     *)

LEMMA NothingSent ==
  ASSUME IInv, n' = n, at' = at,
         \A o \in Orders : order[o] = "none" => order'[o] = "none"
  PROVE  EngineInv'
<1>1. at = "yes" => Current("no") \in Orders
  BY CurrentTypes DEF IInv, EngineInv, Current, Legs
<1> QED
  BY <1>1 DEF IInv, EngineInv, Current

LEMMA InvStep ==
  ASSUME IInv, [Next]_vars
  PROVE  IInv'
<1>0. TypeOK'
  BY TypeStep DEF IInv
<1> SUFFICES EngineInv' /\ \A o \in Orders : OrderInv(o)'
  BY <1>0 DEF IInv
<1>1. ASSUME NEW x \in Opps, Execute(x)
      PROVE  EngineInv' /\ \A o \in Orders : OrderInv(o)'
  BY <1>0, <1>1, ExecuteStep
<1>2. ASSUME NEW leg \in Legs, PostAnswered(leg) \/ PostAnsweredWithoutId(leg)
      PROVE  EngineInv' /\ \A o \in Orders : OrderInv(o)'
  BY <1>0, <1>2, PlacedStep DEF PostAnswered, PostAnsweredWithoutId
<1>3. ASSUME NEW leg \in Legs, PostRaises(leg)
      PROVE  EngineInv' /\ \A o \in Orders : OrderInv(o)'
  <2>1. at = leg /\ n \in Execs
    BY <1>3 DEF PostRaises, IInv, EngineInv, Legs
  <2>2. PICK os : /\ \/ os = order
                     \/ /\ order[Current(leg)] = "sent"
                        /\ os = [order EXCEPT ![Current(leg)] = "closed"]
                  /\ IF leg = "no" /\ known[Current("yes")]
                     THEN /\ order' = os
                          /\ at' = "cancel"
                          /\ UNCHANGED <<gate, reserved, db, matched, channel, n, opp, orphans>>
                     ELSE Rollback(os) /\ UNCHANGED cancelled
    BY <1>3 DEF PostRaises
  <2>3. \A o \in Orders : \/ os[o] = order[o]
                          \/ order[o] = "sent" /\ os[o] = "closed"
    BY <2>2 DEF IInv, TypeOK
  <2>4. CASE leg = "no" /\ known[Current("yes")]
    <3>1. order' = os /\ at' = "cancel"
          /\ UNCHANGED <<gate, reserved, db, matched, channel, n, opp, orphans>>
      BY <2>2, <2>4
    <3>2. ASSUME NEW o \in Orders PROVE OrderInv(o)'
      <4>1. /\ status'[o] = status[o] /\ known'[o] = known[o] /\ fill'[o] = fill[o]
            /\ matched'[o] = matched[o] /\ inflight'[o] = inflight[o]
            /\ cancelled'[o] = cancelled[o] /\ Size(o)' = Size(o)
        BY <3>1 DEF db, channel, Size, OppOf
      <4>2. inflight'[o] =< inflight[o]
        BY <4>1 DEF IInv, TypeOK
      <4> QED
        BY <1>0, <2>3, <3>1, <4>1, <4>2, OrderClosed DEF IInv
    <3>3. EngineInv'
      BY <2>1, <2>3, <3>1 DEF IInv, EngineInv
    <3> QED
      BY <3>2, <3>3
  <2>5. CASE ~(leg = "no" /\ known[Current("yes")])
    BY <1>0, <2>1, <2>2, <2>3, <2>5, RollbackStep
  <2> QED
    BY <2>4, <2>5
<1>4. CASE SecondLegNotSent
  <2>1. n \in Execs /\ Current("yes") \in Orders
    BY <1>4, CurrentTypes DEF SecondLegNotSent, IInv, EngineInv, Current, Legs
  <2>2. ASSUME NEW o \in Orders PROVE OrderInv(o)'
    <3>1. /\ fill'[o] = fill[o] /\ matched'[o] = matched[o] /\ inflight'[o] = inflight[o]
          /\ order'[o] = order[o] /\ cancelled'[o] = cancelled[o] /\ Size(o)' = Size(o)
      BY <1>4 DEF SecondLegNotSent, exchange, channel, Size, OppOf
    <3>2. CASE o = Current("yes")
      <4>1. status'[o] = "placed" /\ known'[o] /\ order[o] \in {"live", "closed"}
        BY <1>4, <3>2 DEF SecondLegNotSent, IInv, TypeOK
      <4> QED
        BY <1>0, <3>1, <4>1, OrderPlaced DEF IInv
    <3>3. CASE o # Current("yes")
      <4>1. status'[o] = status[o] /\ known'[o] = known[o]
        BY <1>4, <3>3 DEF SecondLegNotSent, IInv, TypeOK
      <4>2. inflight'[o] =< inflight[o]
        BY <3>1 DEF IInv, TypeOK
      <4> QED
        BY <1>0, <3>1, <4>1, <4>2, OrderUntouched DEF IInv
    <3> QED
      BY <3>2, <3>3
  <2>3. EngineInv'
    BY <1>4, <2>1 DEF SecondLegNotSent, exchange, IInv, EngineInv
  <2> QED
    BY <2>2, <2>3
<1>5. CASE CancelCloses
  <2>1. n \in Execs
    BY <1>5 DEF CancelCloses, IInv, EngineInv
  <2>2. \A o \in Orders :
          LET os == [order EXCEPT ![Current("yes")] = "closed"]
          IN  \/ os[o] = order[o] /\ cancelled'[o] = cancelled[o]
              \/ order[o] = "live" /\ os[o] = "closed"
    BY <1>5 DEF CancelCloses, IInv, TypeOK
  <2> QED
    BY <1>0, <1>5, <2>1, <2>2, RollbackStep DEF CancelCloses
<1>6. CASE CancelFails
  BY <1>0, <1>6, RollbackStep DEF CancelFails, IInv, EngineInv
<1>7. ASSUME NEW o \in Orders, BookFill(o)
      PROVE  EngineInv' /\ \A q \in Orders : OrderInv(q)'
  BY <1>0, <1>7, BookFillStep, NothingSent DEF BookFill, engine
<1>8. ASSUME NEW o \in Orders, HandleCancellation(o)
      PROVE  EngineInv' /\ \A q \in Orders : OrderInv(q)'
  BY <1>0, <1>8, HandleCancellationStep, NothingSent DEF HandleCancellation, engine
<1>9. ASSUME NEW o \in Orders, DropUnknownFill(o) \/ EventLost(o)
      PROVE  EngineInv' /\ \A q \in Orders : OrderInv(q)'
  BY <1>0, <1>9, EventGoneStep, NothingSent DEF DropUnknownFill, EventLost, engine
<1>10. ASSUME NEW o \in Orders, ExchangeAccepts(o) \/ ExchangeMatches(o) \/ ExchangeCancels(o)
      PROVE  EngineInv' /\ \A q \in Orders : OrderInv(q)'
  BY <1>0, <1>10, ExchangeStep, NothingSent
  DEF ExchangeAccepts, ExchangeMatches, ExchangeCancels, engine
<1>11. CASE Crash
  <2>1. ASSUME NEW o \in Orders PROVE OrderInv(o)'
    <3>1. /\ status'[o] = status[o] /\ known'[o] = known[o] /\ fill'[o] = fill[o]
          /\ order'[o] = order[o] /\ matched'[o] = matched[o] /\ Size(o)' = Size(o)
      BY <1>11 DEF Crash, db, exchange, Size, OppOf
    <3>2. inflight'[o] =< inflight[o] /\ ~cancelled'[o]
      BY <1>11 DEF Crash, IInv, TypeOK
    <3> QED
      BY <1>0, <3>1, <3>2, OrderUntouched DEF IInv
  <2>2. EngineInv'
    BY <1>11 DEF Crash, exchange, IInv, EngineInv
  <2> QED
    BY <2>1, <2>2
<1>12. CASE GateMoves \/ UNCHANGED vars
  <2>1. UNCHANGED <<db, exchange, channel, engine>>
    BY <1>12 DEF GateMoves, vars
  <2>2. ASSUME NEW o \in Orders PROVE OrderInv(o)'
    <3>1. /\ status'[o] = status[o] /\ known'[o] = known[o] /\ fill'[o] = fill[o]
          /\ order'[o] = order[o] /\ matched'[o] = matched[o] /\ Size(o)' = Size(o)
          /\ inflight'[o] = inflight[o] /\ cancelled'[o] = cancelled[o]
      BY <2>1 DEF db, exchange, channel, engine, Size, OppOf
    <3>2. inflight'[o] =< inflight[o]
      BY <3>1 DEF IInv, TypeOK
    <3> QED
      BY <1>0, <3>1, <3>2, OrderUntouched DEF IInv
  <2>3. EngineInv'
    BY <2>1, NothingSent DEF exchange, engine
  <2> QED
    BY <2>2, <2>3
<1> QED
  BY <1>1, <1>2, <1>3, <1>4, <1>5, <1>6, <1>7, <1>8, <1>9, <1>10, <1>11, <1>12
  DEF Next, EngineStep

-----------------------------------------------------------------------------
(* Theorems.                                                               *)

LEMMA Invariance == Spec => []IInv
<1>1. Init => IInv
  BY TypeInit DEF IInv
<1>2. IInv /\ [Next]_vars => IInv'
  BY InvStep
<1> QED
  BY <1>1, <1>2, PTL DEF Spec

(* Every execution, fill and rollback keeps the tables, the reservations   *)
(* and the channel in their types: no quantity ever turns negative.        *)
THEOREM TypeCorrect == Spec => []TypeOK
<1>1. IInv => TypeOK
  BY DEF IInv
<1> QED
  BY <1>1, Invariance, PTL

(* The database never books more than the exchange matched, whatever was   *)
(* lost, early or cut by a crash (executor.py:149-192).                    *)
THEOREM BooksNeverAheadHolds == Spec => []BooksNeverAhead
<1>1. IInv => BooksNeverAhead
  BY DEF IInv, OrderInv, BooksNeverAhead
<1> QED
  BY <1>1, Invariance, PTL

(* "filled" and "cancelled" are true of the exchange, although engine and  *)
(* user channel write them in any order (executor.py:118-119, 164, 212).   *)
THEOREM FinalStatusHolds == Spec => []FinalStatusIsTrue
<1>1. ASSUME IInv, NEW o \in Orders
      PROVE  /\ status[o] = "filled" => matched[o] = Size(o)
             /\ status[o] = "cancelled" => order[o] = "closed" /\ fill[o] < Size(o)
  <2>1. /\ fill[o] \in Nat /\ inflight[o] \in Nat /\ matched[o] \in Nat
        /\ Size(o) \in Nat
    BY <1>1, OrderTypes DEF IInv, TypeOK
  <2>2. OrderInv(o)
    BY <1>1 DEF IInv
  <2> QED
    BY <2>1, <2>2 DEF OrderInv
<1>2. IInv => FinalStatusIsTrue
  BY <1>1 DEF FinalStatusIsTrue
<1> QED
  BY <1>2, Invariance, PTL

-----------------------------------------------------------------------------
(* What a closed gate lets through.                                        *)

(* Only the engine's steps create a Trade row: those that answer a POST    *)
(* create the second leg, Execute the first, and it needs an open gate.    *)
LEMMA CreatedStep ==
  ASSUME IInv, [Next]_vars, gate # "open"
  PROVE  Created' \subseteq Created \cup {<<n, "no">>}
<1> SUFFICES ASSUME NEW o \in Orders, o # <<n, "no">>, status[o] = "none"
             PROVE  status'[o] = "none"
  BY DEF Created
<1>0. order[o] = "none" /\ ~known[o]
  BY DEF IInv, OrderInv
<1>1. ASSUME NEW x \in Opps, Execute(x) PROVE FALSE
  BY <1>1 DEF Execute, Approves
<1>2. ASSUME NEW leg \in Legs, PostAnswered(leg) \/ PostAnsweredWithoutId(leg)
      PROVE  status'[o] = "none"
  <2>1. order[Current(leg)] # "none"
    BY <1>2 DEF PostAnswered, PostAnsweredWithoutId
  <2>2. o # Current(leg)
    BY <1>0, <2>1
  <2>3. PICK hasId \in BOOLEAN : Placed(leg, hasId)
    BY <1>2 DEF PostAnswered, PostAnsweredWithoutId
  <2>4. CASE leg = "yes"
    BY <2>2, <2>3, <2>4 DEF Placed, Current, IInv, TypeOK
  <2>5. CASE leg # "yes"
    <3>1. leg = "no"
      BY <2>5 DEF Legs
    <3> QED
      BY <2>2, <2>3, <3>1 DEF Placed, Current, IInv, TypeOK
  <2> QED
    BY <2>4, <2>5
<1>3. ASSUME NEW os, Rollback(os) PROVE status'[o] = "none"
  BY <1>3 DEF Rollback, Created
<1>4. ASSUME NEW leg \in Legs, PostRaises(leg) PROVE status'[o] = "none"
  BY <1>3, <1>4 DEF PostRaises, db
<1>5. CASE SecondLegNotSent
  <2>1. o # Current("yes")
    BY <1>0, <1>5 DEF SecondLegNotSent
  <2> QED
    BY <1>5, <2>1 DEF SecondLegNotSent, IInv, TypeOK
<1>6. CASE CancelCloses \/ CancelFails
  BY <1>3, <1>6 DEF CancelCloses, CancelFails
<1>7. ASSUME NEW q \in Orders, BookFill(q) \/ HandleCancellation(q)
      PROVE  status'[o] = "none"
  <2>1. CASE q = o
    BY <1>0, <1>7, <2>1 DEF BookFill, HandleCancellation
  <2>2. CASE q # o
    BY <1>7, <2>2 DEF BookFill, HandleCancellation, IInv, TypeOK
  <2> QED
    BY <2>1, <2>2
<1>8. ASSUME NEW q \in Orders, \/ DropUnknownFill(q) \/ EventLost(q) \/ ExchangeAccepts(q)
                               \/ ExchangeMatches(q) \/ ExchangeCancels(q)
      PROVE  status'[o] = "none"
  BY <1>8 DEF DropUnknownFill, EventLost, ExchangeAccepts, ExchangeMatches, ExchangeCancels, db
<1>9. CASE Crash \/ GateMoves \/ UNCHANGED vars
  BY <1>9 DEF Crash, GateMoves, vars, db
<1> QED
  BY <1>1, <1>2, <1>4, <1>5, <1>6, <1>7, <1>8, <1>9 DEF Next, EngineStep

(* Behind a closed gate nothing is sent but the second leg of the pair in  *)
(* execution (manager.py:200-242, executor.py:65-105).                     *)
THEOREM ClosedGateHolds == Spec => ClosedGateOnlyEndsPair
<1>1. IInv /\ [Next]_vars =>
        [gate # "open" => Created' \subseteq Created \cup {<<n, "no">>}]_vars
  BY CreatedStep
<1> QED
  BY <1>1, Invariance, PTL DEF Spec, ClosedGateOnlyEndsPair

-----------------------------------------------------------------------------
(* Refinement.                                                             *)

LEMMA GateInit == Init => Gate!Init
BY DEF Init, Gate!Init, Gate!Gates, Risks

(* Giving back what was reserved, in a step that leaves gate and rows. *)
LEMMA GiveBack ==
  ASSUME UNCHANGED <<gate, openUsd>>, reserved'["engine"] \in 0 .. reserved["engine"]
  PROVE  [Gate!Next]_(Gate!vars)
BY DEF Gate!Next, Gate!Return

LEMMA RollbackGivesBack ==
  ASSUME IInv, IInv', n \in Execs, NEW os, Rollback(os)
  PROVE  [Gate!Next]_(Gate!vars)
<1>1. opp[n] \in Opps /\ reserved \in [Risks -> Nat] /\ reserved' \in [Risks -> Nat]
  BY DEF IInv, TypeOK
<1>2. reserved' = Released("engine", SizeUsd(opp[n])) /\ UNCHANGED <<gate, openUsd>>
  BY DEF Rollback
<1>3. SizeUsd(opp[n]) \in Nat /\ "engine" \in Risks
  BY <1>1, SizeUsdType DEF Risks
<1>4. reserved'["engine"] =< reserved["engine"]
  BY <1>1, <1>2, <1>3, ReleasedType
<1>5. reserved'["engine"] \in 0 .. reserved["engine"]
  BY <1>1, <1>3, <1>4
<1> QED
  BY <1>2, <1>5, GiveBack

LEMMA GateStep ==
  ASSUME IInv, IInv', [Next]_vars
  PROVE  [Gate!Next]_(Gate!vars)
<1>0. /\ reserved["engine"] \in Nat /\ reserved'["engine"] \in Nat
      /\ openUsd \in Nat /\ openUsd' \in Nat /\ gate \in {"open", "closed"}
  BY DEF IInv, TypeOK, Risks, Gates
<1>1. ASSUME NEW x \in Opps, Execute(x) PROVE [Gate!Next]_(Gate!vars)
  <2>1. SizeUsd(x) \in Nat \ {0}
    BY SizeUsdType
  <2>2. reserved'["engine"] = reserved["engine"] + SizeUsd(x)
    BY <1>1 DEF Execute, IInv, TypeOK, Risks
  <2>3. /\ gate = "open" /\ UNCHANGED <<gate, openUsd>>
        /\ openUsd + reserved["engine"] + SizeUsd(x) =< MaxExposure
    BY <1>1 DEF Execute, Approves, CurrentExposure
  <2>4. Gate!Approve
    BY <1>0, <2>1, <2>2, <2>3, LimitsAssumption DEF Gate!Approve, LimitsAssumption
  <2> QED
    BY <2>4 DEF Gate!Next
<1>2. ASSUME NEW leg \in Legs, PostAnswered(leg) \/ PostAnsweredWithoutId(leg)
      PROVE  [Gate!Next]_(Gate!vars)
  BY <1>2 DEF PostAnswered, PostAnsweredWithoutId, Placed, Gate!vars
<1>3. ASSUME NEW leg \in Legs, PostRaises(leg) PROVE [Gate!Next]_(Gate!vars)
  <2>1. n \in Execs
    BY <1>3 DEF PostRaises, IInv, EngineInv, Legs
  <2>2. (\E os : Rollback(os)) \/ UNCHANGED <<gate, reserved, openUsd>>
    BY <1>3 DEF PostRaises, db
  <2> QED
    BY <2>1, <2>2, RollbackGivesBack DEF Gate!vars
<1>4. CASE SecondLegNotSent
  BY <1>4 DEF SecondLegNotSent, Gate!vars
<1>5. CASE CancelCloses \/ CancelFails
  <2>1. n \in Execs /\ \E os : Rollback(os)
    BY <1>5 DEF CancelCloses, CancelFails, IInv, EngineInv
  <2> QED
    BY <2>1, RollbackGivesBack
<1>6. ASSUME NEW o \in Orders, BookFill(o) PROVE [Gate!Next]_(Gate!vars)
  <2>1. Price(o) \in Nat
    BY OrderTypes DEF IInv, TypeOK
  <2>2. reserved'["engine"] = reserved["engine"] /\ UNCHANGED gate
    BY <1>6, <2>1, ReleasedType DEF BookFill, IInv, TypeOK, UserChannelRisk, Risks
  <2>3. Gate!Rebook
    BY <1>0, <2>2 DEF Gate!Rebook
  <2> QED
    BY <2>3 DEF Gate!Next
<1>7. ASSUME NEW o \in Orders,
             \/ DropUnknownFill(o) \/ HandleCancellation(o) \/ ExchangeAccepts(o)
             \/ ExchangeMatches(o) \/ ExchangeCancels(o) \/ EventLost(o)
      PROVE  [Gate!Next]_(Gate!vars)
  BY <1>7 DEF DropUnknownFill, HandleCancellation, ExchangeAccepts, ExchangeMatches,
              ExchangeCancels, EventLost, db, Gate!vars
<1>8. CASE Crash
  <2>1. reserved'["engine"] = 0 /\ UNCHANGED <<gate, openUsd>>
    BY <1>8 DEF Crash, db, Risks
  <2> QED
    BY <1>0, <2>1, GiveBack
<1>9. CASE GateMoves
  BY <1>0, <1>9 DEF GateMoves, Gates, db, Gate!Next, Gate!Turn, Gate!GateTurns,
                    Gate!Closes, Gate!Reopens
<1>10. CASE UNCHANGED vars
  BY <1>10 DEF vars, db, Gate!vars
<1> QED
  BY <1>1, <1>2, <1>3, <1>4, <1>5, <1>6, <1>7, <1>8, <1>9, <1>10 DEF Next, EngineStep

(* Motor 1 keeps the promise of RiskGate for any opportunities and limits. *)
THEOREM ArbExecutionImplementsGate == Spec => ImplementsGate
<1>1. Init => Gate!Init
  BY GateInit
<1>2. IInv /\ IInv' /\ [Next]_vars => [Gate!Next]_(Gate!vars)
  BY GateStep
<1> QED
  BY <1>1, <1>2, Invariance, PTL DEF Spec, ImplementsGate, Gate!Spec
-----------------------------------------------------------------------------
(* The sums: the books agree with the fills, the exposure that             *)
(* check_pre_trade() reads covers what the orders can cost, and what they  *)
(* can cost stays within max_exposure_usd().                               *)
(*                                                                         *)
(* Exposure covers commitment is not inductive: a rollback gives up the    *)
(* reservation of one execution, so it has to be known that the rest still *)
(* covers the other ones.  Held(o) says for which orders the reservation   *)
(* is still needed, and SumInv that it is at least their whole worth.      *)

Worth(o) == Size(o) * Price(o)

(* The order belongs to the execution under way, or it can still cost more *)
(* than the books say and its reservation has not been given up.           *)
Held(o) ==
  \/ at # "idle" /\ o[1] = n
  \/ o \in Created \ orphans /\ Unaccounted(order, o)

(* The second leg of a pair counts from the approval on. *)
Planned(o) == at = "yes" /\ o = Current("no")

Committed(o) ==
  IF Planned(o) THEN Worth(o)
  ELSE IF o \in Created \ orphans THEN Commitment(o) ELSE 0

HeldWorth      == [o \in Orders |-> IF Held(o) THEN Worth(o) ELSE 0]
CommittedWorth == [o \in Orders |-> Committed(o)]
Cost           == [o \in Orders |-> fill[o] * Price(o)]
TokenFills(t)  == [o \in Orders |-> IF Token(o) = t THEN fill[o] ELSE 0]

(* The books: open exposure and contracts are what the fills add up to.    *)
BooksInv ==
  /\ openUsd = SumFunctionOnSet(Cost, Orders)
  /\ \A t \in Tokens : contracts[t] = SumFunctionOnSet(TokenFills(t), Orders)

SumInv ==
  /\ BooksInv
  /\ SumFunctionOnSet(HeldWorth, Orders) =< reserved["engine"]
  /\ SumFunctionOnSet(CommittedWorth, Orders) =< MaxExposure

-----------------------------------------------------------------------------
(* Arithmetic and types.                                                   *)

LEMMA OrdersFinite == IsFiniteSet(Orders)
<1>1. IsFiniteSet(Execs)
  BY LimitsAssumption, FS_Interval DEF Execs, LimitsAssumption
<1>2. IsFiniteSet(Legs)
  <2>1. Legs = {"yes"} \cup {"no"}
    BY DEF Legs
  <2> QED
    BY <2>1, FS_Singleton, FS_Union
<1> QED
  BY <1>1, <1>2, FS_Product DEF Orders

LEMMA TimesMonotone ==
  ASSUME NEW a \in Nat, NEW b \in Nat, NEW c \in Nat, a =< b
  PROVE  a * c =< b * c /\ a * c \in Nat /\ b * c \in Nat
<1>1. (b - a) * c \in Nat
  OBVIOUS
<1>2. b * c = a * c + (b - a) * c
  OBVIOUS
<1>3. a * c \in Nat
  OBVIOUS
<1> QED
  BY <1>1, <1>2, <1>3

LEMMA WorthTypes ==
  ASSUME IInv, NEW o \in Orders
  PROVE  /\ Price(o) \in Nat /\ Size(o) \in Nat /\ fill[o] \in Nat /\ matched[o] \in Nat
         /\ matched[o] =< Size(o)
         /\ Worth(o) \in Nat
         /\ Cost[o] \in Nat
         /\ Commitment(o) \in Nat /\ Commitment(o) =< Worth(o)
         /\ Committed(o) \in Nat
         /\ HeldWorth[o] \in Nat
         /\ \A t \in Tokens : TokenFills(t)[o] \in Nat
<1>1. /\ Price(o) \in Nat /\ Size(o) \in Nat /\ fill[o] \in Nat /\ matched[o] \in Nat
      /\ matched[o] =< Size(o)
  BY OrderTypes DEF IInv, TypeOK, OrderInv
<1>2. /\ matched[o] * Price(o) =< Size(o) * Price(o)
      /\ matched[o] * Price(o) \in Nat /\ Size(o) * Price(o) \in Nat
  BY <1>1, TimesMonotone
<1>3. fill[o] * Price(o) \in Nat
  BY <1>1, TimesMonotone
<1>4. Commitment(o) \in Nat /\ Commitment(o) =< Worth(o)
  <2>1. Price(o) * matched[o] = matched[o] * Price(o) /\ Price(o) * Size(o) = Size(o) * Price(o)
    BY <1>1
  <2>2. CASE order[o] = "closed"
    BY <1>2, <2>1, <2>2 DEF Commitment, Worth
  <2>3. CASE order[o] # "closed"
    BY <1>2, <2>1, <2>3 DEF Commitment, Worth
  <2> QED
    BY <2>2, <2>3
<1>5. Worth(o) \in Nat
  BY <1>2 DEF Worth
<1> QED
  BY <1>1, <1>3, <1>4, <1>5 DEF Cost, Committed, HeldWorth, TokenFills

(* The same after a step. *)
LEMMA WorthTypesNext ==
  ASSUME IInv', NEW o \in Orders
  PROVE  /\ Price(o)' \in Nat /\ fill'[o] \in Nat
         /\ Worth(o)' \in Nat
         /\ Cost'[o] \in Nat
         /\ Commitment(o)' \in Nat /\ Commitment(o)' =< Worth(o)'
         /\ Committed(o)' \in Nat /\ CommittedWorth'[o] = Committed(o)'
         /\ HeldWorth'[o] = IF Held(o)' THEN Worth(o)' ELSE 0
         /\ HeldWorth'[o] \in Nat
         /\ \A t \in Tokens : TokenFills(t)'[o] \in Nat
<1>1. opp'[o[1]] \in Opps
  BY DEF IInv, TypeOK, Orders
<1>2. Price(o)' \in Nat /\ Size(o)' \in Nat
  BY <1>1, OppsAssumption DEF Price, Size, OppOf, OppsAssumption
<1>3. fill'[o] \in Nat /\ matched'[o] \in Nat /\ matched'[o] =< Size(o)'
  BY DEF IInv, TypeOK, OrderInv
<1>4. /\ matched'[o] * Price(o)' =< Size(o)' * Price(o)'
      /\ matched'[o] * Price(o)' \in Nat /\ Size(o)' * Price(o)' \in Nat
  BY <1>2, <1>3, TimesMonotone
<1>5. Worth(o)' \in Nat /\ Worth(o)' = Size(o)' * Price(o)'
  BY <1>4 DEF Worth
<1>6. Commitment(o)' \in Nat /\ Commitment(o)' =< Worth(o)'
  <2>1. /\ Price(o)' * matched'[o] = matched'[o] * Price(o)'
        /\ Price(o)' * Size(o)' = Size(o)' * Price(o)'
    BY <1>2, <1>3
  <2>2. CASE order'[o] = "closed"
    BY <1>4, <1>5, <2>1, <2>2 DEF Commitment
  <2>3. CASE order'[o] # "closed"
    BY <1>4, <1>5, <2>1, <2>3 DEF Commitment
  <2> QED
    BY <2>2, <2>3
<1>7. fill'[o] * Price(o)' \in Nat
  BY <1>2, <1>3, TimesMonotone
<1> QED
  BY <1>2, <1>3, <1>5, <1>6, <1>7 DEF Cost, Committed, CommittedWorth, HeldWorth, TokenFills

-----------------------------------------------------------------------------
(* What a step other than an approval does to one order.                   *)

NoExecute == \A x \in Opps : ~Execute(x)

Moves(o) ==
  /\ n' = n /\ opp' = opp
  /\ orphans \subseteq orphans'
  /\ at = "idle" => at' = "idle"
  /\ at' = "yes" => at = "yes"
  /\ fill[o] =< fill'[o]
  /\ \/ order'[o] = order[o] /\ matched'[o] = matched[o]
     \/ order[o] \in {"sent", "live"}
     \/ at = "yes" /\ o = Current("no")

LEMMA OrderMoves ==
  ASSUME IInv, IInv', [Next]_vars, NoExecute, NEW o \in Orders
  PROVE  Moves(o)
<1> USE DEF Moves
<1>0. fill[o] \in Nat /\ fill[o] =< fill[o]
  BY DEF IInv, TypeOK
<1>1. ASSUME NEW leg \in Legs, PostAnswered(leg) \/ PostAnsweredWithoutId(leg)
      PROVE  Moves(o)
  <2>1. /\ n' = n /\ opp' = opp /\ orphans' = orphans /\ fill' = fill /\ matched' = matched
        /\ at = leg /\ at' \in {"no", "idle"}
    BY <1>1 DEF PostAnswered, PostAnsweredWithoutId, Placed
  <2>2. CASE o = Current("no") /\ leg = "yes"
    BY <1>0, <2>1, <2>2
  <2>3. CASE ~(o = Current("no") /\ leg = "yes")
    <3>1. order'[o] = order[o] \/ order[o] = "sent"
      BY <1>1, <2>3 DEF PostAnswered, PostAnsweredWithoutId, SendNext, IInv, TypeOK
    <3> QED
      BY <1>0, <2>1, <3>1 DEF Legs
  <2> QED
    BY <2>2, <2>3
<1>2. ASSUME NEW os, Rollback(os), at # "idle", os[o] = order[o] \/ order[o] \in {"sent", "live"}
      PROVE  Moves(o)
  BY <1>0, <1>2 DEF Rollback
<1>3. ASSUME NEW leg \in Legs, PostRaises(leg) PROVE Moves(o)
  <2>1. PICK os : /\ \/ os = order
                     \/ /\ order[Current(leg)] = "sent"
                        /\ os = [order EXCEPT ![Current(leg)] = "closed"]
                  /\ IF leg = "no" /\ known[Current("yes")]
                     THEN /\ order' = os
                          /\ at' = "cancel"
                          /\ UNCHANGED <<gate, reserved, db, matched, channel, n, opp, orphans>>
                     ELSE Rollback(os) /\ UNCHANGED cancelled
    BY <1>3 DEF PostRaises
  <2>2. os[o] = order[o] \/ order[o] \in {"sent", "live"}
    BY <2>1 DEF IInv, TypeOK
  <2>3. at # "idle"
    BY <1>3 DEF PostRaises, Legs
  <2> QED
    BY <1>0, <1>2, <2>1, <2>2, <2>3 DEF db
<1>4. CASE SecondLegNotSent
  BY <1>0, <1>4 DEF SecondLegNotSent, exchange
<1>5. CASE CancelCloses \/ CancelFails
  <2>1. [order EXCEPT ![Current("yes")] = "closed"][o] = order[o] \/ order[o] = "live" \/ CancelFails
    BY <1>5 DEF CancelCloses, IInv, TypeOK
  <2> QED
    BY <1>2, <1>5, <2>1 DEF CancelCloses, CancelFails
<1>6. ASSUME NEW q \in Orders, BookFill(q) PROVE Moves(o)
  <2>1. fill'[o] = fill[o] \/ fill'[o] = fill[o] + 1
    BY <1>6 DEF BookFill, IInv, TypeOK
  <2>2. fill[o] =< fill'[o]
    BY <1>0, <2>1
  <2> QED
    BY <1>6, <2>2 DEF BookFill, exchange, engine
<1>7. ASSUME NEW q \in Orders, DropUnknownFill(q) \/ HandleCancellation(q) \/ EventLost(q)
      PROVE  Moves(o)
  BY <1>0, <1>7 DEF DropUnknownFill, HandleCancellation, EventLost, db, exchange, engine
<1>8. ASSUME NEW q \in Orders, ExchangeAccepts(q) \/ ExchangeMatches(q) \/ ExchangeCancels(q)
      PROVE  Moves(o)
  <2>1. \/ order'[o] = order[o] /\ matched'[o] = matched[o]
        \/ order[o] \in {"sent", "live"}
    BY <1>8 DEF ExchangeAccepts, ExchangeMatches, ExchangeCancels, IInv, TypeOK
  <2> QED
    BY <1>0, <1>8, <2>1 DEF ExchangeAccepts, ExchangeMatches, ExchangeCancels, db, engine
<1>9. CASE Crash
  BY <1>0, <1>9 DEF Crash, db, exchange
<1>10. CASE GateMoves \/ UNCHANGED vars
  BY <1>0, <1>10 DEF GateMoves, vars, db, exchange, engine
<1> QED
  BY <1>1, <1>3, <1>4, <1>5, <1>6, <1>7, <1>8, <1>9, <1>10 DEF Next, EngineStep, NoExecute

LEMMA SameWorth ==
  ASSUME opp' = opp, NEW o \in Orders
  PROVE  Worth(o)' = Worth(o) /\ Size(o)' = Size(o) /\ Price(o)' = Price(o) /\ Token(o)' = Token(o)
BY DEF Worth, Size, Price, Token, OppOf

LEMMA HeldShrinks ==
  ASSUME IInv, IInv', NEW o \in Orders, Moves(o), Held(o)'
  PROVE  Held(o)
<1>1. CASE at' # "idle" /\ o[1] = n'
  BY <1>1 DEF Moves, Held
<1>2. CASE o \in Created' \ orphans' /\ Unaccounted(order, o)'
  <2>1. o \notin orphans /\ order'[o] # "none" /\ (order[o] # "none" => o \in Created)
    BY <1>2 DEF Moves, Created, IInv, OrderInv
  <2>2. CASE order'[o] = order[o] /\ matched'[o] = matched[o]
    <3>1. fill[o] \in Nat /\ matched[o] \in Nat /\ fill'[o] \in Nat /\ fill[o] =< fill'[o]
      BY DEF IInv, TypeOK, Moves
    <3>2. Unaccounted(order, o)
      BY <1>2, <2>2, <3>1 DEF Unaccounted
    <3> QED
      BY <2>1, <2>2, <3>2 DEF Held
  <2>3. CASE order[o] \in {"sent", "live"}
    BY <2>1, <2>3 DEF Held, Unaccounted
  <2>4. CASE at = "yes" /\ o = Current("no")
    BY <2>4 DEF Held, Current
  <2> QED
    BY <2>2, <2>3, <2>4 DEF Moves
<1> QED
  BY <1>1, <1>2 DEF Held

LEMMA CommittedShrinks ==
  ASSUME IInv, IInv', NEW o \in Orders, Moves(o)
  PROVE  Committed(o)' =< Committed(o)
<1>1. /\ Worth(o)' = Worth(o) /\ Size(o)' = Size(o) /\ Price(o)' = Price(o)
      /\ Current("no")' = Current("no")
  BY SameWorth DEF Moves, Current
<1>2. /\ Worth(o) \in Nat /\ Commitment(o) \in Nat /\ Commitment(o) =< Worth(o)
      /\ Committed(o) \in Nat
  BY WorthTypes
<1>3. Commitment(o)' \in Nat /\ Commitment(o)' =< Worth(o)'
  BY WorthTypesNext
<1>4. CASE Planned(o)
  <2>1. Committed(o) = Worth(o)
    BY <1>4 DEF Committed
  <2>2. Committed(o)' =< Worth(o)'
    BY <1>1, <1>2, <1>3 DEF Committed
  <2> QED
    BY <1>1, <2>1, <2>2
<1>5. CASE ~Planned(o) /\ o \in Created' \ orphans'
  <2>1. ~Planned(o)' /\ Committed(o)' = Commitment(o)'
    BY <1>1, <1>5 DEF Committed, Planned, Moves
  <2>2. o \in Created \ orphans
    BY <1>5 DEF Moves, Created, Planned, IInv, OrderInv
  <2>3. Committed(o) = Commitment(o)
    BY <1>5, <2>2 DEF Committed
  <2>4. CASE order'[o] = order[o] /\ matched'[o] = matched[o]
    <3>1. Commitment(o)' = Commitment(o)
      BY <1>1, <2>4 DEF Commitment
    <3> QED
      BY <1>2, <2>1, <2>3, <3>1
  <2>5. CASE order[o] \in {"sent", "live"}
    <3>1. Commitment(o) = Worth(o)
      <4>1. Price(o) \in Nat /\ Size(o) \in Nat
        BY WorthTypes
      <4>2. Price(o) * Size(o) = Size(o) * Price(o)
        BY <4>1
      <4> QED
        BY <2>5, <4>2 DEF Commitment, Worth
    <3> QED
      BY <1>1, <1>3, <2>1, <2>3, <3>1
  <2> QED
    BY <1>5, <2>4, <2>5 DEF Moves, Planned
<1>6. CASE ~Planned(o) /\ o \notin Created' \ orphans'
  <2>1. Committed(o)' = 0
    BY <1>1, <1>6 DEF Committed, Planned, Moves
  <2> QED
    BY <1>2, <2>1
<1> QED
  BY <1>4, <1>5, <1>6

(* A rollback leaves nothing for the reservation of its execution to cover. *)
LEMMA RollbackFrees ==
  ASSUME IInv, IInv', n \in Execs, NEW os, Rollback(os), NEW o \in Orders, o[1] = n
  PROVE  ~Held(o)'
<1>1. at' = "idle" /\ order' = os /\ fill' = fill /\ matched' = matched
      /\ orphans' = orphans \cup {q \in {p \in Created : p[1] = n} : Unaccounted(os, q)}
  BY DEF Rollback
<1>2. o \in Created' => o \in Created
  BY DEF Rollback, Created
<1>3. CASE o \in Created
  <2>1. Unaccounted(os, o) => o \in orphans'
    BY <1>1, <1>3
  <2>2. Unaccounted(order, o)' => Unaccounted(os, o)
    BY <1>1 DEF Unaccounted
  <2> QED
    BY <1>1, <2>1, <2>2 DEF Held
<1>4. CASE o \notin Created
  BY <1>1, <1>2, <1>4 DEF Held
<1> QED
  BY <1>3, <1>4

-----------------------------------------------------------------------------
(* What the sums are worth to the properties.                              *)

Accounted(o) == IF o \in Created \ orphans THEN Commitment(o) ELSE 0

LEMMA AccountedSum ==
  ASSUME IInv
  PROVE  LET accounted == Created \ orphans
         IN  SumFunction([o \in accounted |-> Commitment(o)])
               = SumFunctionOnSet([o \in Orders |-> Accounted(o)], Orders)
<1> DEFINE A == Created \ orphans
           F == [o \in Orders |-> Accounted(o)]
           C == [o \in A |-> Commitment(o)]
<1>1. A \in SUBSET Orders /\ IsFiniteSet(A) /\ IsFiniteSet(Orders)
  BY OrdersFinite, FS_Subset DEF Created
<1>2. /\ \A o \in Orders : F[o] \in Int
      /\ \A o \in Orders \ A : F[o] = 0
      /\ \A o \in A : F[o] \in Int /\ F[o] = C[o]
  BY <1>1, WorthTypes DEF Accounted
<1>3. SumFunction(C) = SumFunctionOnSet(C, A)
  BY DEF SumFunction, SumFunctionOnSet, FoldFunction
<1> HIDE DEF F, C, A
<1>4. SumFunctionOnSet(F, Orders) = SumFunctionOnSet(F, A)
  BY <1>1, <1>2, SumExtend
<1>5. SumFunctionOnSet(F, A) = SumFunctionOnSet(C, A)
  BY <1>1, <1>2, SumSame
<1>6. SumFunction(C) = SumFunctionOnSet(F, Orders)
  BY <1>3, <1>4, <1>5
<1> QED
  BY <1>6 DEF A, C, F

LEMMA CoverFromSums ==
  ASSUME IInv, SumInv
  PROVE  ExposureCoversCommitment
<1> DEFINE F == [o \in Orders |-> Accounted(o)]
           H == [o \in Orders |-> Cost[o] + HeldWorth[o]]
<1>1. \A o \in Orders : /\ F[o] \in Int /\ H[o] \in Int /\ F[o] =< H[o]
                        /\ Cost[o] \in Int /\ HeldWorth[o] \in Int
                        /\ H[o] = Cost[o] + HeldWorth[o]
  <2> SUFFICES ASSUME NEW o \in Orders
               PROVE  /\ F[o] \in Int /\ H[o] \in Int /\ F[o] =< H[o]
                      /\ Cost[o] \in Int /\ HeldWorth[o] \in Int
                      /\ H[o] = Cost[o] + HeldWorth[o]
    OBVIOUS
  <2>1. /\ Cost[o] \in Nat /\ HeldWorth[o] \in Nat /\ Commitment(o) \in Nat
        /\ Commitment(o) =< Worth(o) /\ Worth(o) \in Nat
        /\ fill[o] \in Nat /\ matched[o] \in Nat /\ Price(o) \in Nat
    BY WorthTypes
  <2>2. F[o] = Accounted(o) /\ H[o] = Cost[o] + HeldWorth[o]
    OBVIOUS
  <2> HIDE DEF F, H
  <2>3. CASE o \notin Created \ orphans
    BY <2>1, <2>2, <2>3 DEF Accounted
  <2>4. CASE o \in Created \ orphans /\ Unaccounted(order, o)
    <3>1. HeldWorth[o] = Worth(o) /\ Accounted(o) = Commitment(o)
      BY <2>4 DEF HeldWorth, Held, Accounted
    <3> QED
      BY <2>1, <2>2, <3>1
  <2>5. CASE o \in Created \ orphans /\ ~Unaccounted(order, o)
    <3>1. order[o] = "closed" /\ matched[o] =< fill[o]
      BY <2>1, <2>5 DEF Unaccounted, Created, IInv, TypeOK, OrderInv
    <3>2. Accounted(o) = Price(o) * matched[o] /\ Cost[o] = fill[o] * Price(o)
      BY <2>5, <3>1 DEF Accounted, Commitment, Cost
    <3>3. matched[o] * Price(o) =< fill[o] * Price(o)
      BY <2>1, <3>1, TimesMonotone
    <3>4. Price(o) * matched[o] = matched[o] * Price(o)
      BY <2>1
    <3> QED
      BY <2>1, <2>2, <3>2, <3>3, <3>4
  <2> QED
    BY <2>3, <2>4, <2>5
<1>2. IsFiniteSet(Orders)
  BY OrdersFinite
<1> HIDE DEF F, H
<1>3. SumFunctionOnSet(F, Orders) =< SumFunctionOnSet(H, Orders)
  BY <1>1, <1>2, SumMonotone
<1>4. SumFunctionOnSet(H, Orders) = SumFunctionOnSet(Cost, Orders) + SumFunctionOnSet(HeldWorth, Orders)
  BY <1>1, <1>2, SumAdd
<1>5. /\ SumFunctionOnSet(F, Orders) \in Int
      /\ SumFunctionOnSet(HeldWorth, Orders) \in Int
      /\ openUsd \in Int /\ reserved["engine"] \in Int
  BY <1>1, <1>2, SumType DEF IInv, TypeOK, Risks
<1>6. SumFunctionOnSet(F, Orders) =< CurrentExposure
  BY <1>3, <1>4, <1>5 DEF SumInv, BooksInv, CurrentExposure
<1> QED
  BY <1>6, AccountedSum DEF F, ExposureCoversCommitment

LEMMA BooksFromSums ==
  ASSUME IInv, SumInv
  PROVE  PositionsAreTheFills
<1>1. IsFiniteSet(Orders)
  BY OrdersFinite
<1>2. ASSUME NEW o \in Orders
      PROVE  /\ Cost[o] \in Int /\ \A t \in Tokens : TokenFills(t)[o] \in Int
             /\ o \notin Created => fill[o] = 0 /\ Cost[o] = 0
  <2>1. Price(o) \in Nat /\ Cost[o] \in Int /\ \A t \in Tokens : TokenFills(t)[o] \in Int
    BY WorthTypes
  <2>2. o \notin Created => fill[o] = 0
    BY DEF Created, IInv, TypeOK, OrderInv
  <2> QED
    BY <2>1, <2>2 DEF Cost
<1>3. openUsd = SumFunction(CostOf(Created))
  <2>1. Created \in SUBSET Orders /\ IsFiniteSet(Created)
    BY <1>1, FS_Subset DEF Created
  <2>2. SumFunctionOnSet(Cost, Orders) = SumFunctionOnSet(Cost, Created)
    BY <1>1, <1>2, <2>1, SumExtend
  <2>3. \A o \in Created : Cost[o] \in Int /\ Cost[o] = CostOf(Created)[o]
    BY <1>2, <2>1 DEF Cost, CostOf
  <2>4. SumFunctionOnSet(Cost, Created) = SumFunctionOnSet(CostOf(Created), Created)
    BY <2>1, <2>3, SumSame
  <2>5. SumFunction(CostOf(Created)) = SumFunctionOnSet(CostOf(Created), Created)
    BY DEF SumFunction, SumFunctionOnSet, FoldFunction, CostOf
  <2> QED
    BY <2>2, <2>4, <2>5 DEF SumInv, BooksInv
<1>4. ASSUME NEW t \in Tokens PROVE contracts[t] = SumFunction(FillsOf(t))
  <2> DEFINE R == {q \in Created : Token(q) = t}
  <2>1. R \in SUBSET Orders /\ IsFiniteSet(R)
    BY <1>1, FS_Subset DEF Created
  <2>2. \A o \in Orders \ R : TokenFills(t)[o] = 0
    BY <1>2 DEF TokenFills
  <2>3. \A o \in R : TokenFills(t)[o] \in Int /\ TokenFills(t)[o] = FillsOf(t)[o]
    BY <1>2, <2>1 DEF TokenFills, FillsOf
  <2>4. SumFunction(FillsOf(t)) = SumFunctionOnSet(FillsOf(t), R)
    BY DEF SumFunction, SumFunctionOnSet, FoldFunction, FillsOf
  <2> HIDE DEF R
  <2>5. SumFunctionOnSet(TokenFills(t), Orders) = SumFunctionOnSet(TokenFills(t), R)
    BY <1>1, <1>2, <2>1, <2>2, SumExtend
  <2>6. SumFunctionOnSet(TokenFills(t), R) = SumFunctionOnSet(FillsOf(t), R)
    BY <2>1, <2>3, SumSame
  <2> QED
    BY <2>4, <2>5, <2>6 DEF SumInv, BooksInv
<1> QED
  BY <1>3, <1>4 DEF PositionsAreTheFills

LEMMA LimitFromSums ==
  ASSUME IInv, SumInv
  PROVE  CommitmentWithinLimit
<1> DEFINE F == [o \in Orders |-> Accounted(o)]
<1>1. \A o \in Orders : F[o] \in Int /\ CommittedWorth[o] \in Int /\ F[o] =< CommittedWorth[o]
  <2> SUFFICES ASSUME NEW o \in Orders
               PROVE  F[o] \in Int /\ CommittedWorth[o] \in Int /\ F[o] =< CommittedWorth[o]
    OBVIOUS
  <2>1. /\ Commitment(o) \in Nat /\ Commitment(o) =< Worth(o) /\ Worth(o) \in Nat
        /\ CommittedWorth[o] = Committed(o)
    BY WorthTypes DEF CommittedWorth
  <2> QED
    BY <2>1 DEF Accounted, Committed
<1>2. IsFiniteSet(Orders)
  BY OrdersFinite
<1> HIDE DEF F
<1>3. SumFunctionOnSet(F, Orders) =< SumFunctionOnSet(CommittedWorth, Orders)
  BY <1>1, <1>2, SumMonotone
<1>4. SumFunctionOnSet(F, Orders) \in Int /\ SumFunctionOnSet(CommittedWorth, Orders) \in Int
  BY <1>1, <1>2, SumType
<1>5. SumFunctionOnSet(F, Orders) =< MaxExposure
  BY <1>3, <1>4, LimitsAssumption DEF SumInv, LimitsAssumption
<1> QED
  BY <1>5, AccountedSum DEF F, CommitmentWithinLimit

-----------------------------------------------------------------------------
(* The steps.                                                              *)

LEMMA SumInit == ASSUME Init, IInv PROVE SumInv
<1>1. ASSUME NEW o \in Orders
      PROVE  /\ Cost[o] = 0 /\ HeldWorth[o] = 0 /\ CommittedWorth[o] = 0
             /\ \A t \in Tokens : TokenFills(t)[o] = 0
  <2>1. /\ fill[o] = 0 /\ at = "idle" /\ o \notin Created
    BY DEF Init, Created
  <2>2. Price(o) \in Nat
    BY WorthTypes
  <2> QED
    BY <2>1, <2>2 DEF Cost, HeldWorth, Held, CommittedWorth, Committed, Planned, TokenFills
<1>2. /\ SumFunctionOnSet(Cost, Orders) = 0
      /\ SumFunctionOnSet(HeldWorth, Orders) = 0
      /\ SumFunctionOnSet(CommittedWorth, Orders) = 0
      /\ \A t \in Tokens : SumFunctionOnSet(TokenFills(t), Orders) = 0
  BY <1>1, OrdersFinite, SumZero
<1> QED
  BY <1>2, LimitsAssumption DEF Init, SumInv, BooksInv, Risks, LimitsAssumption

(* The books change with a fill alone, and both of them by that fill. *)

LEMMA BooksKept ==
  ASSUME IInv, IInv', BooksInv, openUsd' = openUsd, contracts' = contracts,
         \A o \in Orders : /\ fill'[o] = fill[o]
                           /\ \/ fill[o] = 0
                              \/ Price(o)' = Price(o) /\ Token(o)' = Token(o)
  PROVE  BooksInv'
<1>1. ASSUME NEW o \in Orders
      PROVE  /\ Cost[o] \in Int /\ Cost'[o] = Cost[o]
             /\ \A t \in Tokens : TokenFills(t)[o] \in Int /\ TokenFills(t)'[o] = TokenFills(t)[o]
  <2>1. /\ Price(o) \in Nat /\ Price(o)' \in Nat /\ Cost[o] \in Int
        /\ \A t \in Tokens : TokenFills(t)[o] \in Int
    BY WorthTypes, WorthTypesNext
  <2>2. CASE fill[o] = 0
    BY <2>1, <2>2 DEF Cost, TokenFills
  <2>3. CASE Price(o)' = Price(o) /\ Token(o)' = Token(o)
    BY <2>1, <2>3 DEF Cost, TokenFills
  <2> QED
    BY <2>2, <2>3
<1>2. SumFunctionOnSet(Cost, Orders) = SumFunctionOnSet(Cost', Orders)
  BY <1>1, OrdersFinite, SumSame
<1>3. ASSUME NEW t \in Tokens
      PROVE  SumFunctionOnSet(TokenFills(t), Orders) = SumFunctionOnSet(TokenFills(t)', Orders)
  BY <1>1, OrdersFinite, SumSame
<1>4. Tokens' = Tokens
  BY DEF Tokens
<1> QED
  BY <1>2, <1>3, <1>4 DEF BooksInv

LEMMA BooksFill ==
  ASSUME IInv, IInv', BooksInv, NEW q \in Orders, BookFill(q)
  PROVE  BooksInv'
<1>1. /\ fill' = [fill EXCEPT ![q] = @ + 1] /\ opp' = opp
      /\ contracts' = [contracts EXCEPT ![Token(q)] = @ + 1]
      /\ openUsd' = openUsd + Price(q)
  BY DEF BookFill, engine
<1>2. ASSUME NEW o \in Orders
      PROVE  /\ Price(o) \in Nat /\ fill[o] \in Nat
             /\ Price(o)' = Price(o) /\ Token(o)' = Token(o)
             /\ fill'[o] = IF o = q THEN fill[o] + 1 ELSE fill[o]
             /\ Cost[o] \in Int /\ Cost'[o] \in Int
             /\ \A t \in Tokens : TokenFills(t)[o] \in Int /\ TokenFills(t)'[o] \in Int
  <2>1. fill'[o] = IF o = q THEN fill[o] + 1 ELSE fill[o]
    BY <1>1 DEF IInv, TypeOK
  <2> QED
    BY <1>1, <2>1, SameWorth, WorthTypes, WorthTypesNext
<1>3. openUsd' = SumFunctionOnSet(Cost', Orders)
  <2>1. \A o \in Orders \ {q} : Cost[o] = Cost'[o]
    BY <1>2 DEF Cost
  <2>2. Cost'[q] - Cost[q] = Price(q)
    <3>1. Cost'[q] = (fill[q] + 1) * Price(q) /\ Cost[q] = fill[q] * Price(q)
      BY <1>2 DEF Cost
    <3>2. (fill[q] + 1) * Price(q) = fill[q] * Price(q) + Price(q) /\ fill[q] * Price(q) \in Int
      BY <1>2
    <3> QED
      BY <1>2, <3>1, <3>2
  <2>3. SumFunctionOnSet(Cost', Orders) = SumFunctionOnSet(Cost, Orders) + (Cost'[q] - Cost[q])
    BY <1>2, <2>1, OrdersFinite, SumUpdate
  <2> QED
    BY <1>1, <2>2, <2>3 DEF BooksInv
<1>4. ASSUME NEW t \in Tokens
      PROVE  contracts'[t] = SumFunctionOnSet(TokenFills(t)', Orders)
  <2>1. \A o \in Orders \ {q} : TokenFills(t)[o] = TokenFills(t)'[o]
    BY <1>2 DEF TokenFills
  <2>2. TokenFills(t)'[q] - TokenFills(t)[q] = IF Token(q) = t THEN 1 ELSE 0
    BY <1>2 DEF TokenFills
  <2>3. SumFunctionOnSet(TokenFills(t)', Orders)
          = SumFunctionOnSet(TokenFills(t), Orders) + (TokenFills(t)'[q] - TokenFills(t)[q])
    BY <1>2, <2>1, OrdersFinite, SumUpdate
  <2>4. contracts[t] \in Nat /\ contracts[t] = SumFunctionOnSet(TokenFills(t), Orders)
    BY DEF IInv, TypeOK, BooksInv
  <2>5. contracts'[t] = contracts[t] + IF Token(q) = t THEN 1 ELSE 0
    BY <1>1, <2>4 DEF IInv, TypeOK
  <2> QED
    BY <2>2, <2>3, <2>4, <2>5
<1>5. Tokens' = Tokens
  BY DEF Tokens
<1> QED
  BY <1>3, <1>4, <1>5 DEF BooksInv

LEMMA NotYetSent ==
  ASSUME IInv, NEW o \in Orders, o[1] = n + 1
  PROVE  order[o] = "none" /\ o \notin Created /\ fill[o] = 0 /\ ~Held(o)
<1>1. n \in Nat /\ n + 1 > n
  BY LimitsAssumption DEF IInv, TypeOK, LimitsAssumption
<1>2. order[o] = "none"
  BY <1>1 DEF IInv, EngineInv
<1>3. status[o] = "none" /\ matched[o] = 0
  BY <1>2 DEF IInv, OrderInv
<1>4. fill[o] = 0
  BY <1>3 DEF IInv, OrderInv, TypeOK
<1> QED
  BY <1>1, <1>2, <1>3, <1>4 DEF Created, Held

LEMMA BooksStep ==
  ASSUME IInv, IInv', BooksInv, [Next]_vars
  PROVE  BooksInv'
<1>1. ASSUME NEW x \in Opps, Execute(x) PROVE BooksInv'
  <2>1. UNCHANGED <<openUsd, contracts, fill>> /\ opp' = [opp EXCEPT ![n + 1] = x]
    BY <1>1 DEF Execute
  <2>2. ASSUME NEW o \in Orders
        PROVE  fill[o] = 0 \/ (Price(o)' = Price(o) /\ Token(o)' = Token(o))
    <3>1. CASE o[1] = n + 1
      BY <3>1, NotYetSent
    <3>2. CASE o[1] # n + 1
      BY <2>1, <3>2 DEF Price, Token, OppOf, IInv, TypeOK
    <3> QED
      BY <3>1, <3>2
  <2> QED
    BY <2>1, <2>2, BooksKept
<1>2. ASSUME NEW q \in Orders, BookFill(q) PROVE BooksInv'
  BY <1>2, BooksFill
<1>3. ASSUME UNCHANGED <<openUsd, contracts, fill, opp>> PROVE BooksInv'
  BY <1>3, BooksKept, SameWorth
<1>4. ASSUME NEW os, Rollback(os) PROVE BooksInv'
  BY <1>3, <1>4 DEF Rollback
<1>5. ASSUME NEW leg \in Legs, PostAnswered(leg) \/ PostAnsweredWithoutId(leg) PROVE BooksInv'
  BY <1>3, <1>5 DEF PostAnswered, PostAnsweredWithoutId, Placed
<1>6. ASSUME NEW leg \in Legs, PostRaises(leg) PROVE BooksInv'
  BY <1>3, <1>4, <1>6 DEF PostRaises, db
<1>7. CASE SecondLegNotSent
  BY <1>3, <1>7 DEF SecondLegNotSent
<1>8. CASE CancelCloses \/ CancelFails
  BY <1>4, <1>8 DEF CancelCloses, CancelFails
<1>9. ASSUME NEW q \in Orders, DropUnknownFill(q) \/ HandleCancellation(q) \/ EventLost(q)
      PROVE  BooksInv'
  BY <1>3, <1>9 DEF DropUnknownFill, HandleCancellation, EventLost, db, engine
<1>10. ASSUME NEW q \in Orders, ExchangeAccepts(q) \/ ExchangeMatches(q) \/ ExchangeCancels(q)
      PROVE  BooksInv'
  BY <1>3, <1>10 DEF ExchangeAccepts, ExchangeMatches, ExchangeCancels, db, engine
<1>11. CASE Crash \/ GateMoves \/ UNCHANGED vars
  BY <1>3, <1>11 DEF Crash, GateMoves, vars, db, engine
<1> QED
  BY <1>1, <1>2, <1>5, <1>6, <1>7, <1>8, <1>9, <1>10, <1>11 DEF Next, EngineStep

(* What an approval does to each order. *)
LEMMA ApprovalMoves ==
  ASSUME IInv, IInv', NEW x \in Opps, Execute(x), NEW o \in Orders
  PROVE  /\ o[1] = n + 1 => /\ Worth(o)' = x.size * (IF o[2] = "yes" THEN x.yes ELSE x.no)
                            /\ Committed(o)' =< Worth(o)'
         /\ o[1] # n + 1 => /\ Worth(o)' = Worth(o)
                            /\ Held(o)' => Held(o)
                            /\ Committed(o)' = Committed(o)
<1>1. /\ n \in Nat /\ n' = n + 1 /\ at = "idle" /\ at' = "yes"
      /\ opp' = [opp EXCEPT ![n + 1] = x]
      /\ UNCHANGED <<fill, matched, orphans>>
      /\ status' = [status EXCEPT ![<<n + 1, "yes">>] = "pending"]
      /\ order' = [order EXCEPT ![<<n + 1, "yes">>] = "sent"]
  BY LimitsAssumption DEF Execute, BeginLeg, IInv, TypeOK, LimitsAssumption
<1>2. CASE o[1] = n + 1
  <2>1. opp'[o[1]] = x
    BY <1>1, <1>2 DEF IInv, TypeOK, Orders
  <2>2. Worth(o)' = x.size * (IF o[2] = "yes" THEN x.yes ELSE x.no)
    BY <2>1 DEF Worth, Size, Price, OppOf
  <2>3. Committed(o)' =< Worth(o)'
    BY WorthTypesNext DEF Committed
  <2> QED
    BY <1>2, <2>2, <2>3
<1>3. CASE o[1] # n + 1
  <2>1. opp'[o[1]] = opp[o[1]]
    BY <1>1, <1>3 DEF IInv, TypeOK, Orders
  <2>2. Worth(o)' = Worth(o) /\ Price(o)' = Price(o) /\ Size(o)' = Size(o)
    BY <2>1 DEF Worth, Size, Price, OppOf
  <2>3. o # <<n + 1, "yes">> /\ o # <<n + 1, "no">>
    BY <1>3
  <2>4. order'[o] = order[o] /\ status'[o] = status[o]
    BY <1>1, <2>3 DEF IInv, TypeOK
  <2>5. o \in Created' \ orphans' <=> o \in Created \ orphans
    BY <1>1, <2>4 DEF Created
  <2>6. ~Planned(o) /\ ~Planned(o)'
    BY <1>1, <2>3 DEF Planned, Current
  <2>7. Committed(o)' = Committed(o)
    BY <1>1, <2>2, <2>4, <2>5, <2>6 DEF Committed, Commitment
  <2>8. Held(o)' => Held(o)
    BY <1>1, <1>3, <2>4, <2>5 DEF Held, Unaccounted
  <2> QED
    BY <1>3, <2>2, <2>7, <2>8
<1> QED
  BY <1>2, <1>3

(* The two legs of one execution, and what they are worth together. *)
LEMMA PairWorth ==
  ASSUME NEW x \in Opps
  PROVE  /\ x.size * x.yes + x.size * x.no = SizeUsd(x)
         /\ x.size * x.yes \in Nat /\ x.size * x.no \in Nat /\ SizeUsd(x) \in Nat
<1>1. x.size \in Nat /\ x.yes \in Nat /\ x.no \in Nat
  BY OppsAssumption DEF OppsAssumption
<1>2. x.size * (x.yes + x.no) = x.size * x.yes + x.size * x.no
  BY <1>1
<1>3. \A a, b \in Nat : a * b \in Nat
  OBVIOUS
<1> QED
  BY <1>1, <1>2, <1>3, SizeUsdType DEF SizeUsd

LEMMA ApprovalSums ==
  ASSUME IInv, IInv', SumInv, NEW x \in Opps, Execute(x)
  PROVE  /\ SumFunctionOnSet(HeldWorth', Orders) =< reserved'["engine"]
         /\ SumFunctionOnSet(CommittedWorth', Orders) =< MaxExposure
<1>1. n + 1 \in Execs /\ n \in Nat
  BY LimitsAssumption DEF Execute, IInv, TypeOK, Execs, LimitsAssumption
<1>2. PICK a \in Orders, b \in Orders :
        /\ a # b /\ a[1] = n + 1 /\ b[1] = n + 1 /\ a[2] = "yes" /\ b[2] = "no"
        /\ \A o \in Orders \ {a, b} : o[1] # n + 1
  <2>1. <<n + 1, "yes">> \in Orders /\ <<n + 1, "no">> \in Orders
    BY <1>1, CurrentTypes DEF Legs
  <2>2. \A o \in Orders \ {<<n + 1, "yes">>, <<n + 1, "no">>} : o[1] # n + 1
    BY DEF Orders, Legs
  <2> QED
    BY <2>1, <2>2
<1>3. \A o \in Orders \ {a, b} : o[1] # n + 1
  BY <1>2
<1>4. /\ Worth(a)' = x.size * x.yes /\ Worth(b)' = x.size * x.no
      /\ Committed(a)' =< Worth(a)' /\ Committed(b)' =< Worth(b)'
  BY <1>2, ApprovalMoves
<1>5. Worth(a)' + Worth(b)' = SizeUsd(x) /\ Worth(a)' \in Nat /\ Worth(b)' \in Nat
  BY <1>4, PairWorth
<1>6. /\ HeldWorth[a] = 0 /\ HeldWorth[b] = 0
      /\ CommittedWorth[a] = 0 /\ CommittedWorth[b] = 0
  BY <1>2, NotYetSent DEF HeldWorth, CommittedWorth, Committed, Planned, Execute
<1>7. \A o \in Orders : /\ HeldWorth[o] \in Int /\ HeldWorth'[o] \in Int
                        /\ CommittedWorth[o] \in Int /\ CommittedWorth'[o] \in Int
  BY WorthTypes, WorthTypesNext DEF CommittedWorth
<1>8. \A o \in Orders \ {a, b} : HeldWorth'[o] =< HeldWorth[o]
  <2> SUFFICES ASSUME NEW o \in Orders \ {a, b} PROVE HeldWorth'[o] =< HeldWorth[o]
    OBVIOUS
  <2>1. Worth(o)' = Worth(o) /\ (Held(o)' => Held(o)) /\ Worth(o) \in Nat
    BY <1>3, ApprovalMoves, WorthTypes
  <2> QED
    BY <2>1 DEF HeldWorth
<1>9. \A o \in Orders \ {a, b} : CommittedWorth'[o] =< CommittedWorth[o]
  <2> SUFFICES ASSUME NEW o \in Orders \ {a, b} PROVE CommittedWorth'[o] =< CommittedWorth[o]
    OBVIOUS
  <2>1. Committed(o)' = Committed(o) /\ Committed(o) \in Nat
    BY <1>3, ApprovalMoves, WorthTypes
  <2> QED
    BY <2>1 DEF CommittedWorth
<1>10. /\ SumFunctionOnSet(HeldWorth, Orders) \in Int
       /\ SumFunctionOnSet(CommittedWorth, Orders) \in Int
       /\ SumFunctionOnSet(HeldWorth', Orders) \in Int
       /\ SumFunctionOnSet(CommittedWorth', Orders) \in Int
  BY <1>7, OrdersFinite, SumType
<1>11. SumFunctionOnSet(HeldWorth', Orders)
         =< SumFunctionOnSet(HeldWorth, Orders)
            + (HeldWorth'[a] - HeldWorth[a]) + (HeldWorth'[b] - HeldWorth[b])
  BY <1>2, <1>7, <1>8, OrdersFinite, SumTwo
<1>12. SumFunctionOnSet(CommittedWorth', Orders)
         =< SumFunctionOnSet(CommittedWorth, Orders)
            + (CommittedWorth'[a] - CommittedWorth[a]) + (CommittedWorth'[b] - CommittedWorth[b])
  BY <1>2, <1>7, <1>9, OrdersFinite, SumTwo
<1>13. HeldWorth'[a] =< Worth(a)' /\ HeldWorth'[b] =< Worth(b)'
  BY <1>2, <1>5, WorthTypesNext
<1>14. CommittedWorth'[a] =< Worth(a)' /\ CommittedWorth'[b] =< Worth(b)'
  BY <1>2, <1>4, WorthTypesNext
<1>15. /\ reserved["engine"] \in Nat /\ openUsd \in Nat
       /\ reserved'["engine"] = reserved["engine"] + SizeUsd(x)
       /\ openUsd + reserved["engine"] + SizeUsd(x) =< MaxExposure
       /\ SizeUsd(x) \in Nat /\ MaxExposure \in Nat
  BY PairWorth, LimitsAssumption
  DEF Execute, Approves, CurrentExposure, IInv, TypeOK, Risks, LimitsAssumption
<1>16. SumFunctionOnSet(CommittedWorth, Orders) =< openUsd + reserved["engine"]
  <2>1. at = "idle"
    BY DEF Execute
  <2>2. CommittedWorth = [o \in Orders |-> Accounted(o)]
    BY <2>1 DEF CommittedWorth, Committed, Planned, Accounted
  <2> QED
    BY <2>2, CoverFromSums, AccountedSum DEF ExposureCoversCommitment, CurrentExposure
<1>17. SumFunctionOnSet(HeldWorth', Orders) =< reserved'["engine"]
  <2>1. HeldWorth'[a] \in Int /\ HeldWorth'[b] \in Int
    BY <1>2, <1>7
  <2>2. SumFunctionOnSet(HeldWorth, Orders) =< reserved["engine"]
    BY DEF SumInv
  <2> QED
    BY <1>5, <1>6, <1>10, <1>11, <1>13, <1>15, <2>1, <2>2
<1>18. SumFunctionOnSet(CommittedWorth', Orders) =< MaxExposure
  <2>1. CommittedWorth'[a] \in Int /\ CommittedWorth'[b] \in Int
    BY <1>2, <1>7
  <2> QED
    BY <1>5, <1>6, <1>10, <1>12, <1>14, <1>15, <1>16, <2>1
<1> QED
  BY <1>17, <1>18

LEMMA HeldPointwise ==
  ASSUME IInv, IInv', NEW o \in Orders, Moves(o)
  PROVE  /\ HeldWorth[o] \in Int /\ HeldWorth'[o] \in Int
         /\ HeldWorth'[o] =< HeldWorth[o]
<1>1. /\ HeldWorth[o] \in Nat /\ HeldWorth'[o] \in Nat
      /\ HeldWorth'[o] = IF Held(o)' THEN Worth(o)' ELSE 0
      /\ Worth(o) \in Nat
  BY WorthTypes, WorthTypesNext
<1>2. Worth(o)' = Worth(o) /\ (Held(o)' => Held(o))
  BY HeldShrinks, SameWorth DEF Moves
<1>3. HeldWorth[o] = IF Held(o) THEN Worth(o) ELSE 0
  BY DEF HeldWorth
<1> QED
  BY <1>1, <1>2, <1>3

LEMMA HeldKept ==
  ASSUME IInv, IInv', SumInv, \A o \in Orders : Moves(o),
         reserved'["engine"] = reserved["engine"]
  PROVE  SumFunctionOnSet(HeldWorth', Orders) =< reserved'["engine"]
<1>1. SumFunctionOnSet(HeldWorth', Orders) =< SumFunctionOnSet(HeldWorth, Orders)
  BY HeldPointwise, OrdersFinite, SumMonotone
<1>2. /\ SumFunctionOnSet(HeldWorth, Orders) \in Int
      /\ SumFunctionOnSet(HeldWorth', Orders) \in Int
  BY HeldPointwise, OrdersFinite, SumType
<1>3. reserved["engine"] \in Nat
  BY DEF IInv, TypeOK, Risks
<1> QED
  BY <1>1, <1>2, <1>3 DEF SumInv

LEMMA HeldRollback ==
  ASSUME IInv, IInv', SumInv, \A o \in Orders : Moves(o), at # "idle",
         NEW os, Rollback(os)
  PROVE  SumFunctionOnSet(HeldWorth', Orders) =< reserved'["engine"]
<1>1. n \in Execs /\ opp[n] \in Opps
  BY DEF IInv, EngineInv, TypeOK
<1>2. PICK a \in Orders, b \in Orders :
        a # b /\ a[1] = n /\ b[1] = n /\ a[2] = "yes" /\ b[2] = "no"
  <2>1. <<n, "yes">> \in Orders /\ <<n, "no">> \in Orders
    BY <1>1, CurrentTypes DEF Legs
  <2> QED
    BY <2>1
<1>3. HeldWorth'[a] = 0 /\ HeldWorth'[b] = 0
  BY <1>1, <1>2, RollbackFrees, WorthTypesNext
<1>4. HeldWorth[a] + HeldWorth[b] = SizeUsd(opp[n])
  <2>1. HeldWorth[a] = Worth(a) /\ HeldWorth[b] = Worth(b)
    BY <1>2 DEF HeldWorth, Held
  <2>2. Worth(a) = opp[n].size * opp[n].yes /\ Worth(b) = opp[n].size * opp[n].no
    BY <1>2 DEF Worth, Size, Price, OppOf
  <2> QED
    BY <1>1, <2>1, <2>2, PairWorth
<1>5. SumFunctionOnSet(HeldWorth', Orders)
        =< SumFunctionOnSet(HeldWorth, Orders)
           + (HeldWorth'[a] - HeldWorth[a]) + (HeldWorth'[b] - HeldWorth[b])
  BY <1>2, HeldPointwise, OrdersFinite, SumTwo
<1>6. /\ SumFunctionOnSet(HeldWorth, Orders) \in Int
      /\ SumFunctionOnSet(HeldWorth', Orders) \in Int
      /\ HeldWorth[a] \in Int /\ HeldWorth[b] \in Int
  BY <1>2, HeldPointwise, OrdersFinite, SumType
<1>7. SumFunctionOnSet(HeldWorth, Orders) =< reserved["engine"] /\ reserved["engine"] \in Nat
  BY DEF SumInv, IInv, TypeOK, Risks
<1>8. /\ SizeUsd(opp[n]) \in Nat
      /\ reserved'["engine"] = IF SizeUsd(opp[n]) > reserved["engine"] THEN 0
                               ELSE reserved["engine"] - SizeUsd(opp[n])
  BY <1>1, PairWorth DEF Rollback, Released, IInv, TypeOK, Risks
<1>9. reserved'["engine"] >= reserved["engine"] - SizeUsd(opp[n]) /\ reserved'["engine"] \in Int
  BY <1>7, <1>8
<1> QED
  BY <1>3, <1>4, <1>5, <1>6, <1>7, <1>8, <1>9

LEMMA HeldCrash ==
  ASSUME IInv, IInv', Crash
  PROVE  SumFunctionOnSet(HeldWorth', Orders) =< reserved'["engine"]
<1>1. ASSUME NEW o \in Orders PROVE HeldWorth'[o] = 0
  <2>1. /\ at' = "idle" /\ status' = status /\ fill' = fill /\ order' = order /\ matched' = matched
        /\ orphans' = orphans \cup {q \in Created : Unaccounted(order, q)}
    BY DEF Crash, db, exchange
  <2>2. ~Held(o)'
    BY <2>1 DEF Held, Unaccounted, Created
  <2> QED
    BY <2>2, WorthTypesNext
<1>2. SumFunctionOnSet(HeldWorth', Orders) = 0
  BY <1>1, OrdersFinite, SumZero
<1>3. reserved'["engine"] = 0
  BY DEF Crash, Risks
<1> QED
  BY <1>2, <1>3

(* No step but an approval adds to the commitment. *)
LEMMA CommittedKept ==
  ASSUME IInv, IInv', SumInv, \A o \in Orders : Moves(o)
  PROVE  SumFunctionOnSet(CommittedWorth', Orders) =< MaxExposure
<1>1. \A o \in Orders : /\ CommittedWorth[o] \in Int /\ CommittedWorth'[o] \in Int
                        /\ CommittedWorth'[o] =< CommittedWorth[o]
  BY WorthTypes, WorthTypesNext, CommittedShrinks DEF CommittedWorth
<1>2. SumFunctionOnSet(CommittedWorth', Orders) =< SumFunctionOnSet(CommittedWorth, Orders)
  BY <1>1, OrdersFinite, SumMonotone
<1>3. /\ SumFunctionOnSet(CommittedWorth, Orders) \in Int
      /\ SumFunctionOnSet(CommittedWorth', Orders) \in Int
  BY <1>1, OrdersFinite, SumType
<1> QED
  BY <1>2, <1>3, LimitsAssumption DEF SumInv, LimitsAssumption

(* The engine's reservation goes down in a rollback and a crash only. *)
LEMMA ReservedMoves ==
  ASSUME IInv, [Next]_vars, NoExecute
  PROVE  \/ reserved'["engine"] = reserved["engine"]
         \/ at # "idle" /\ \E os : Rollback(os)
         \/ Crash
<1>1. ASSUME NEW leg \in Legs, PostAnswered(leg) \/ PostAnsweredWithoutId(leg)
      PROVE  reserved' = reserved
  BY <1>1 DEF PostAnswered, PostAnsweredWithoutId, Placed
<1>2. ASSUME NEW leg \in Legs, PostRaises(leg)
      PROVE  reserved' = reserved \/ (at # "idle" /\ \E os : Rollback(os))
  BY <1>2 DEF PostRaises, Legs
<1>3. SecondLegNotSent => reserved' = reserved
  BY DEF SecondLegNotSent
<1>4. CancelCloses \/ CancelFails => at # "idle" /\ \E os : Rollback(os)
  BY DEF CancelCloses, CancelFails
<1>5. ASSUME NEW q \in Orders, BookFill(q) PROVE reserved'["engine"] = reserved["engine"]
  BY <1>5 DEF BookFill, Released, UserChannelRisk, IInv, TypeOK, Risks
<1>6. ASSUME NEW q \in Orders, \/ DropUnknownFill(q) \/ HandleCancellation(q) \/ EventLost(q)
                               \/ ExchangeAccepts(q) \/ ExchangeMatches(q) \/ ExchangeCancels(q)
      PROVE  reserved' = reserved
  BY <1>6 DEF DropUnknownFill, HandleCancellation, EventLost,
              ExchangeAccepts, ExchangeMatches, ExchangeCancels
<1>7. GateMoves \/ UNCHANGED vars => reserved' = reserved
  BY DEF GateMoves, vars
<1> QED
  BY <1>1, <1>2, <1>3, <1>4, <1>5, <1>6, <1>7 DEF Next, EngineStep, NoExecute

LEMMA SumInvStep ==
  ASSUME IInv, IInv', SumInv, [Next]_vars
  PROVE  SumInv'
<1>1. BooksInv'
  BY BooksStep DEF SumInv
<1> SUFFICES /\ SumFunctionOnSet(HeldWorth', Orders) =< reserved'["engine"]
             /\ SumFunctionOnSet(CommittedWorth', Orders) =< MaxExposure
  BY <1>1 DEF SumInv
<1>2. CASE ~NoExecute
  BY <1>2, ApprovalSums DEF NoExecute
<1>3. CASE NoExecute
  <2>1. \A o \in Orders : Moves(o)
    BY <1>3, OrderMoves
  <2>2. SumFunctionOnSet(CommittedWorth', Orders) =< MaxExposure
    BY <2>1, CommittedKept
  <2>3. SumFunctionOnSet(HeldWorth', Orders) =< reserved'["engine"]
    BY <1>3, <2>1, ReservedMoves, HeldKept, HeldRollback, HeldCrash
  <2> QED
    BY <2>2, <2>3
<1> QED
  BY <1>2, <1>3

LEMMA SumInvariance == Spec => [](IInv /\ SumInv)
<1>1. Init => IInv /\ SumInv
  BY TypeInit, SumInit DEF IInv
<1>2. IInv /\ SumInv /\ [Next]_vars => (IInv /\ SumInv)'
  BY InvStep, SumInvStep
<1> QED
  BY <1>1, <1>2, PTL DEF Spec

-----------------------------------------------------------------------------
(* Theorems.                                                               *)

(* current_exposure_usd() covers what the orders can cost, whatever was    *)
(* rolled back, booked late or lost in a restart (manager.py:127-132).     *)
THEOREM ExposureCoversCommitmentHolds == Spec => []ExposureCoversCommitment
<1>1. IInv /\ SumInv => ExposureCoversCommitment
  BY CoverFromSums
<1> QED
  BY <1>1, SumInvariance, PTL

(* The real commitment stays within max_exposure_usd(): an approval adds   *)
(* to a commitment its exposure covers, and nothing else adds to it        *)
(* (manager.py:200-246, executor.py:62-65).                                *)
THEOREM CommitmentWithinLimitHolds == Spec => []CommitmentWithinLimit
<1>1. IInv /\ SumInv => CommitmentWithinLimit
  BY LimitFromSums
<1> QED
  BY <1>1, SumInvariance, PTL

(* The contracts of a token are the fills of its trades and the open       *)
(* exposure is their cost (executor.py:149-192).                           *)
THEOREM PositionsAreTheFillsHolds == Spec => []PositionsAreTheFills
<1>1. IInv /\ SumInv => PositionsAreTheFills
  BY BooksFromSums
<1> QED
  BY <1>1, SumInvariance, PTL
=============================================================================
