-------------------------- MODULE Reconcile_proofs --------------------------
(***************************************************************************)
(* Proofs about Reconcile, for any tokens, contracts, length of the pause  *)
(* and number of deaths.                                                   *)
(***************************************************************************)
EXTENDS Reconcile, TLAPS

(* The books and the fills that are still to be booked fit the bound. *)
RoomForFills == \A t \in Tokens : db[t] + coming[t] =< MaxContracts

(* A pause outlives the sleep that follows the cycle that wrote it. *)
PauseOutlivesSleep ==
  status = "mismatch" /\ money /\ ~excuse => pause >= (IF phase = "sleeping" THEN 2 ELSE 1)

IInv == TypeOK /\ RoomForFills /\ PauseOutlivesSleep /\ SyncedMeansMatched

-----------------------------------------------------------------------------
LEMMA InitIInv == Init => IInv
<1> SUFFICES ASSUME Init PROVE IInv
  OBVIOUS
<1>0. MaxContracts \in Nat /\ PauseTicks \in Nat /\ MaxDeaths \in Nat
  BY ReconcileAssumption DEF ReconcileAssumption
<1>1. Nothing \in Contracts /\ \A t \in Tokens : Nothing[t] = 0
  BY <1>0 DEF Nothing, Contracts
<1>2. TypeOK
  <2>1. /\ pause \in 0 .. PauseTicks
        /\ deaths \in 0 .. MaxDeaths
    BY <1>0 DEF Init
  <2> QED BY <1>1, <2>1, Zenon DEF Init, TypeOK
<1>3. RoomForFills
  <2>1. db = Nothing /\ coming = Nothing
    BY DEF Init
  <2>2. \A t \in Tokens : db[t] = 0 /\ coming[t] = 0
    BY <1>1, <2>1, Zenon
  <2>3. ASSUME NEW t \in Tokens PROVE db[t] + coming[t] =< MaxContracts
    <3>1. db[t] = 0 /\ coming[t] = 0
      BY <2>2
    <3>2. 0 + 0 =< MaxContracts
      BY <1>0
    <3> QED BY <3>1, <3>2, Zenon
  <2> QED BY <2>3 DEF RoomForFills
<1>4. PauseOutlivesSleep /\ SyncedMeansMatched
  BY DEF Init, PauseOutlivesSleep, SyncedMeansMatched
<1> QED BY <1>2, <1>3, <1>4 DEF IInv

LEMMA WhatIsOnChain ==
  ASSUME TypeOK
  PROVE  OnChain \in Contracts
BY ReconcileAssumption DEF TypeOK, OnChain, Nothing, Contracts, ReconcileAssumption

(* The wallet and the user channel change neither verdict nor pause. *)
LEMMA OutsideKeepsIInv ==
  ASSUME IInv, NEW t \in Tokens, Fills(t) \/ BooksFill(t) \/ LosesEvent(t) \/ Redeems(t)
  PROVE  IInv'
<1>0. /\ TypeOK /\ RoomForFills /\ PauseOutlivesSleep /\ SyncedMeansMatched
      /\ MaxContracts \in Nat
  BY ReconcileAssumption DEF IInv, ReconcileAssumption
<1>1. CASE Fills(t)
  BY <1>0, <1>1 DEF Fills, IInv, TypeOK, RoomForFills, PauseOutlivesSleep, SyncedMeansMatched,
                    Contracts
<1>2. CASE BooksFill(t)
  BY <1>0, <1>2 DEF BooksFill, IInv, TypeOK, RoomForFills, PauseOutlivesSleep,
                    SyncedMeansMatched, Contracts
<1>3. CASE LosesEvent(t)
  BY <1>0, <1>3 DEF LosesEvent, IInv, TypeOK, RoomForFills, PauseOutlivesSleep,
                    SyncedMeansMatched, Contracts
<1>4. CASE Redeems(t)
  BY <1>0, <1>4 DEF Redeems, IInv, TypeOK, RoomForFills, PauseOutlivesSleep,
                    SyncedMeansMatched, Contracts
<1> QED BY <1>1, <1>2, <1>3, <1>4

(* A cycle: the answer, the comparison and the sleep. *)
LEMMA CycleKeepsIInv ==
  ASSUME IInv,
         \/ Asks \/ Answers \/ AnswersNoList \/ Raises
         \/ ComparesClean \/ FindsMismatch \/ CommitFails \/ Sleeps
  PROVE  IInv'
<1>0. /\ TypeOK /\ RoomForFills /\ PauseOutlivesSleep /\ SyncedMeansMatched
      /\ PauseTicks \in Nat /\ PauseTicks >= 2
  BY ReconcileAssumption DEF IInv, ReconcileAssumption
<1>1. CASE Asks \/ Answers \/ AnswersNoList \/ Raises
  <2>1. TypeOK'
    BY <1>0, <1>1, Zenon DEF Asks, Answers, AnswersNoList, Raises, books, TypeOK
  <2>2. RoomForFills' /\ SyncedMeansMatched'
    BY <1>0, <1>1 DEF Asks, Answers, AnswersNoList, Raises, books, RoomForFills,
                      SyncedMeansMatched
  <2>3. PauseOutlivesSleep'
    BY <1>0, <1>1 DEF Asks, Answers, AnswersNoList, Raises, TypeOK, PauseOutlivesSleep
  <2> QED BY <2>1, <2>2, <2>3 DEF IInv
<1>2. CASE ComparesClean
  <2>1. OnChain \in Contracts
    BY <1>0, WhatIsOnChain
  <2>2. TypeOK'
    <3>1. synced' \in [Tokens -> BOOLEAN]
      BY <1>2 DEF ComparesClean
    <3> QED BY <1>0, <1>2, <2>1, <3>1, Zenon DEF ComparesClean, TypeOK
  <2>3. RoomForFills' /\ PauseOutlivesSleep'
    BY <1>0, <1>2 DEF ComparesClean, RoomForFills, PauseOutlivesSleep
  <2>4. SyncedMeansMatched'
    BY <1>2 DEF ComparesClean, SyncedMeansMatched
  <2> QED BY <2>2, <2>3, <2>4 DEF IInv
<1>3. CASE FindsMismatch \/ CommitFails
  <2>1. TypeOK'
    <3>1. pause' \in 0 .. PauseTicks
      BY <1>0, <1>3 DEF FindsMismatch, CommitFails, TypeOK
    <3>2. status' \in {"none", "ok", "mismatch"}
      BY <1>0, <1>3 DEF TypeOK, FindsMismatch, CommitFails
    <3> QED BY <1>0, <1>3, <3>1, <3>2, Zenon DEF FindsMismatch, CommitFails, books, TypeOK
  <2>2. RoomForFills' /\ SyncedMeansMatched'
    BY <1>0, <1>3 DEF FindsMismatch, CommitFails, books, RoomForFills, SyncedMeansMatched
  <2>3. PauseOutlivesSleep'
    BY <1>0, <1>3 DEF FindsMismatch, CommitFails, PauseOutlivesSleep
  <2> QED BY <2>1, <2>2, <2>3 DEF IInv
<1>4. CASE Sleeps
  <2>1. TypeOK'
    BY <1>0, <1>4 DEF Sleeps, books, TypeOK
  <2>2. RoomForFills' /\ SyncedMeansMatched'
    BY <1>0, <1>4 DEF Sleeps, books, RoomForFills, SyncedMeansMatched
  <2>3. PauseOutlivesSleep'
    BY <1>0, <1>4 DEF Sleeps, TypeOK, PauseOutlivesSleep
  <2> QED BY <2>1, <2>2, <2>3 DEF IInv
<1> QED BY <1>1, <1>2, <1>3, <1>4

(* A process that starts on a mismatch is in forced shadow. *)
LEMMA HumanAndDeathKeepIInv ==
  ASSUME IInv, Resume \/ Dies
  PROVE  IInv'
<1>0. /\ TypeOK /\ RoomForFills /\ PauseOutlivesSleep /\ SyncedMeansMatched
      /\ MaxContracts \in Nat /\ MaxDeaths \in Nat /\ PauseTicks \in Nat
  BY ReconcileAssumption DEF IInv, ReconcileAssumption
<1>1. CASE Resume
  BY <1>0, <1>1 DEF Resume, books, IInv, TypeOK, RoomForFills, PauseOutlivesSleep,
                    SyncedMeansMatched
<1>2. CASE Dies
  <2>1. TypeOK'
    BY <1>0, <1>2 DEF Dies, TypeOK, Contracts, Nothing
  <2>2. RoomForFills'
    BY <1>0, <1>2 DEF Dies, TypeOK, RoomForFills, Contracts, Nothing
  <2>3. PauseOutlivesSleep' /\ SyncedMeansMatched'
    BY <1>0, <1>2 DEF Dies, PauseOutlivesSleep, SyncedMeansMatched
  <2> QED BY <2>1, <2>2, <2>3 DEF IInv
<1> QED BY <1>1, <1>2

LEMMA NextKeepsIInv == IInv /\ [Next]_vars => IInv'
<1> SUFFICES ASSUME IInv, [Next]_vars PROVE IInv'
  OBVIOUS
<1>1. CASE Next
  BY <1>1, OutsideKeepsIInv, CycleKeepsIInv, HumanAndDeathKeepIInv DEF Next
<1>2. CASE UNCHANGED vars
  BY <1>2 DEF vars, books, IInv, TypeOK, RoomForFills, PauseOutlivesSleep, SyncedMeansMatched
<1> QED BY <1>1, <1>2

LEMMA IInvHolds == Spec => []IInv
BY InitIInv, NextKeepsIInv, PTL DEF Spec

-----------------------------------------------------------------------------
(* The state of a reconciliation keeps its types. *)
THEOREM TypeCorrect == Spec => []TypeOK
<1>1. IInv => TypeOK
  BY DEF IInv
<1> QED BY <1>1, IInvHolds, PTL

(* Money is not traded on a mismatch, over deaths and pauses that run out, *)
(* unless a human resumed or the cycle that would renew the pause raised:  *)
(* the pause is longer than the interval.                                  *)
THEOREM MismatchStopsTradingHolds == Spec => []MismatchStopsTrading
<1>1. IInv => MismatchStopsTrading
  BY DEF IInv, PauseOutlivesSleep, MismatchStopsTrading, Trades
<1> QED BY <1>1, IInvHolds, PTL

(* A row marked on_chain_synced holds what a clean cycle saw on chain,     *)
(* whatever was booked while the cycle was awaited.                        *)
THEOREM SyncedMeansMatchedHolds == Spec => []SyncedMeansMatched
<1>1. IInv => SyncedMeansMatched
  BY DEF IInv
<1> QED BY <1>1, IInvHolds, PTL
=============================================================================
