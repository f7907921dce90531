------------------------------ MODULE Reconcile ------------------------------
(***************************************************************************)
(* Reconciliation of the wallet's positions with the database              *)
(* (src/reconcile/service.py): every interval the service awaits the       *)
(* positions from the data API, compares them with the open Position rows  *)
(* and, when they differ, records the mismatch and pauses trading for 24   *)
(* hours.  Meanwhile orders are filled on chain, the user channel books    *)
(* the fills it hears of, the database may refuse a commit and the process *)
(* may die.  What the status and the pause mean to the risk manager and to *)
(* the NO-GO list is in RiskManager and Runner; here they only decide      *)
(* whether money may be traded.                                            *)
(*                                                                         *)
(* Nothing in the program closes a Position row (closed_at is only read):  *)
(* a position redeemed on chain stays in the books.                        *)
(***************************************************************************)
EXTENDS Integers

CONSTANTS
  Tokens,
  MaxContracts,  \* bound: contracts of a token, in chain or books
  PauseTicks,    \* intervals in the 24 hours of the pause
  MaxDeaths,     \* bound: deaths of the process
  NotAList       \* an answer that is no list of positions

ASSUME ReconcileAssumption ==
  /\ MaxContracts \in Nat \ {0}
  /\ PauseTicks \in Nat \ {0, 1}
  /\ MaxDeaths \in Nat
  /\ NotAList \notin [Tokens -> Nat]

VARIABLES
  chain,     \* contracts of the wallet on chain
  coming,    \* fills on chain whose event the user channel has yet to handle
  db,        \* contracts of the open Position rows
  synced,    \* on_chain_synced of the rows
  phase,     \* where the service is in its cycle
  answer,    \* what the API answered to this cycle
  status,    \* reconcile_status
  pause,     \* intervals until paused_until
  money,     \* the process was started with real money, not in forced shadow
  deaths,    \* deaths so far
  matched,   \* history: what the last clean cycle found on chain
  excuse     \* history: a human lifted the pause or a cycle raised since the last one that ended

books == <<chain, coming, db, synced>>
vars == <<chain, coming, db, synced, phase, answer, status, pause, money, deaths, matched, excuse>>

Contracts == [Tokens -> 0 .. MaxContracts]

TypeOK ==
  /\ chain \in Contracts
  /\ coming \in Contracts
  /\ db \in Contracts
  /\ synced \in [Tokens -> BOOLEAN]
  /\ phase \in {"starting", "asking", "answered", "sleeping"}
  /\ answer \in Contracts \cup {NotAList}
  /\ status \in {"none", "ok", "mismatch"}
  /\ pause \in 0 .. PauseTicks
  /\ money \in BOOLEAN
  /\ deaths \in 0 .. MaxDeaths
  /\ matched \in Contracts
  /\ excuse \in BOOLEAN

Nothing == [t \in Tokens |-> 0]

Init ==
  /\ chain = Nothing
  /\ coming = Nothing
  /\ db = Nothing
  /\ synced = [t \in Tokens |-> FALSE]
  /\ phase = "starting"
  /\ answer = NotAList
  /\ status = "none"
  /\ pause = 0
  /\ money = TRUE
  /\ deaths = 0
  /\ matched = Nothing
  /\ excuse = FALSE

Trades == money /\ pause = 0

-----------------------------------------------------------------------------
(* The wallet and the user channel.                                        *)

(* An order fills; it may have rested since before a pause. *)
Fills(t) ==
  /\ chain[t] < MaxContracts
  /\ db[t] + coming[t] < MaxContracts
  /\ chain' = [chain EXCEPT ![t] = @ + 1]
  /\ coming' = [coming EXCEPT ![t] = @ + 1]
  /\ UNCHANGED <<db, synced, phase, answer, status, pause, money, deaths, matched, excuse>>

BooksFill_Twice(t) ==
  /\ coming[t] > 0
  /\ db' = [db EXCEPT ![t] = @ + 1]
  /\ synced' = [synced EXCEPT ![t] = FALSE]
  /\ UNCHANGED <<chain, coming, phase, answer, status, pause, money, deaths, matched, excuse>>

BooksFill_KeepsFlag(t) ==
  /\ coming[t] > 0
  /\ coming' = [coming EXCEPT ![t] = @ - 1]
  /\ db' = [db EXCEPT ![t] = @ + 1]
  /\ UNCHANGED <<chain, synced, phase, answer, status, pause, money, deaths, matched, excuse>>

(* _handle_fill(): a new or a changed row has not been matched yet. *)
BooksFill(t) ==
  /\ coming[t] > 0
  /\ coming' = [coming EXCEPT ![t] = @ - 1]
  /\ db' = [db EXCEPT ![t] = @ + 1]
  /\ synced' = [synced EXCEPT ![t] = FALSE]
  /\ UNCHANGED <<chain, phase, answer, status, pause, money, deaths, matched, excuse>>

LosesEvent(t) ==
  /\ coming[t] > 0
  /\ coming' = [coming EXCEPT ![t] = @ - 1]
  /\ UNCHANGED <<chain, db, synced, phase, answer, status, pause, money, deaths, matched, excuse>>

(* The market has resolved and the winning shares are redeemed. *)
Redeems(t) ==
  /\ chain[t] > 0
  /\ chain' = [chain EXCEPT ![t] = 0]
  /\ UNCHANGED <<coming, db, synced, phase, answer, status, pause, money, deaths, matched, excuse>>

-----------------------------------------------------------------------------
(* The service: reconcile_once() and the loop around it.                   *)

Asks ==
  /\ phase = "starting"
  /\ phase' = "asking"
  /\ UNCHANGED <<books, answer, status, pause, money, deaths, matched, excuse>>

(* The API answers; fills may still come before the task runs again. *)
Answers ==
  /\ phase = "asking"
  /\ phase' = "answered"
  /\ answer' = chain
  /\ UNCHANGED <<books, status, pause, money, deaths, matched, excuse>>

AnswersNoList ==
  /\ phase = "asking"
  /\ phase' = "answered"
  /\ answer' = NotAList
  /\ UNCHANGED <<books, status, pause, money, deaths, matched, excuse>>

(* Transport error, HTTP error or malformed answer: retried next interval. *)
Raises ==
  /\ phase = "asking"
  /\ phase' = "sleeping"
  /\ excuse' = TRUE
  /\ UNCHANGED <<books, answer, status, pause, money, deaths, matched>>

(* An answer that is not a list counts as no positions at all. *)
OnChain == IF answer = NotAList THEN Nothing ELSE answer

ComparesClean_KeepsMismatch ==
  /\ phase = "answered"
  /\ OnChain = db
  /\ phase' = "sleeping"
  /\ status' = IF status = "none" THEN "ok" ELSE status
  /\ synced' = [t \in Tokens |-> db[t] > 0]
  /\ matched' = OnChain
  /\ excuse' = FALSE
  /\ UNCHANGED <<chain, coming, db, answer, pause, money, deaths>>

ComparesClean ==
  /\ phase = "answered"
  /\ OnChain = db
  /\ phase' = "sleeping"
  /\ status' = "ok"
  /\ synced' = [t \in Tokens |-> db[t] > 0]
  /\ matched' = OnChain
  /\ excuse' = FALSE
  /\ UNCHANGED <<chain, coming, db, answer, pause, money, deaths>>

FindsMismatch_NoPause ==
  /\ phase = "answered"
  /\ OnChain # db
  /\ phase' = "sleeping"
  /\ status' = "mismatch"
  /\ excuse' = FALSE
  /\ UNCHANGED <<books, answer, pause, money, deaths, matched>>

FindsMismatch_NoStatus ==
  /\ phase = "answered"
  /\ OnChain # db
  /\ phase' = "sleeping"
  /\ pause' = PauseTicks
  /\ excuse' = FALSE
  /\ UNCHANGED <<books, answer, status, money, deaths, matched>>

FindsMismatch ==
  /\ phase = "answered"
  /\ OnChain # db
  /\ phase' = "sleeping"
  /\ status' = "mismatch"
  /\ pause' = PauseTicks
  /\ excuse' = FALSE
  /\ UNCHANGED <<books, answer, money, deaths, matched>>

(* Status, event and pause (or the rows) are commits of their own: the     *)
(* database refuses one, the status or one that follows it.                *)
CommitFails ==
  /\ phase = "answered"
  /\ phase' = "sleeping"
  /\ \/ status' = IF OnChain = db THEN "ok" ELSE "mismatch"
     \/ UNCHANGED status
  /\ excuse' = TRUE
  /\ UNCHANGED <<books, answer, pause, money, deaths, matched>>

Sleeps ==
  /\ phase = "sleeping"
  /\ phase' = "starting"
  /\ pause' = IF pause > 0 THEN pause - 1 ELSE 0
  /\ UNCHANGED <<books, answer, status, money, deaths, matched, excuse>>

-----------------------------------------------------------------------------
(* Human and process.                                                      *)

Resume ==
  /\ pause > 0
  /\ pause' = 0
  /\ excuse' = TRUE
  /\ UNCHANGED <<books, phase, answer, status, money, deaths, matched>>

(* The process dies, also after the status is written and before the pause *)
(* is; what the user channel had yet to handle is never sent again.  At the *)
(* next start the NO-GO list refuses money while the status is a mismatch. *)
Dies ==
  /\ deaths < MaxDeaths
  /\ deaths' = deaths + 1
  /\ \/ UNCHANGED status
     \/ phase = "answered" /\ OnChain # db /\ status' = "mismatch"
  /\ phase' = "starting"
  /\ coming' = Nothing
  /\ money' = (status' # "mismatch")
  /\ UNCHANGED <<chain, db, synced, answer, pause, matched, excuse>>

-----------------------------------------------------------------------------
Next ==
  \/ \E t \in Tokens : Fills(t) \/ BooksFill(t) \/ LosesEvent(t) \/ Redeems(t)
  \/ Asks \/ Answers \/ AnswersNoList \/ Raises
  \/ ComparesClean \/ FindsMismatch \/ CommitFails
  \/ Sleeps \/ Resume \/ Dies

Spec == Init /\ [][Next]_vars

(* The loop never ends while the process lives; the API and the database   *)
(* work again and again.                                                   *)
Fairness ==
  /\ WF_vars(Asks) /\ WF_vars(Sleeps)
  /\ SF_vars(Answers)
  /\ SF_vars(ComparesClean) /\ SF_vars(FindsMismatch)

FairSpec == Spec /\ Fairness

-----------------------------------------------------------------------------
(* "PAUSA PREVENTIVA" and "bloquea el próximo arranque": money is not      *)
(* traded on a mismatch, over deaths and pauses that run out, unless a     *)
(* human resumed or the cycle that would renew the pause raised            *)
(* (service.py:70-76, check_no_go.py:127).                                 *)
MismatchStopsTrading ==
  status = "mismatch" /\ Trades => excuse

(* A row that says on_chain_synced holds what a clean cycle saw on chain,  *)
(* although fills are booked between cycles and while one is awaited       *)
(* (service.py:79-84, executor.py:183-191).                                *)
SyncedMeansMatched ==
  \A t \in Tokens : synced[t] => db[t] = matched[t]

(* A difference that stays (a lost event, a redeemed position) is recorded *)
(* again and again, whatever false verdicts come between                   *)
(* (service.py:61-76).                                                     *)
DifferenceIsNoticed ==
  <>[](chain # db) => []<>(status = "mismatch")

(* A false mismatch (a fill booked while the answer was awaited, an answer *)
(* that was no list) does not outlive the agreement of chain and books     *)
(* (service.py:78).                                                        *)
AgreementHeals ==
  <>[](chain = db) => []<>(status = "ok")
=============================================================================
