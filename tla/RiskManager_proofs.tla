------------------------- MODULE RiskManager_proofs -------------------------
(***************************************************************************)
(* Theorems about RiskManager, for every calendar, every limit and every   *)
(* set of sizes: its type invariant, that no approval is made on top of a  *)
(* loss, and that it implements RiskGate.                                  *)
(***************************************************************************)
EXTENDS RiskManager, TLAPS

(* A check can only close the gate, and it leaves the gate alone when no   *)
(* stop-loss fires or the kill switch is already on.                       *)
LEMMA StopLossOutcome ==
  ASSUME TypeOK, EvaluateStopLosses
  PROVE  /\ kill' \in BOOLEAN
         /\ pauseLeft' \in 0 .. PauseWeekly
         /\ \/ GateState' = GateState
            \/ GateState # "killed" /\ GateState' \in {"paused", "killed"}
         /\ StopLoss = "none" => kill' = kill /\ pauseLeft' = pauseLeft
<1>1. StopLoss \in {"monthly", "weekly", "daily", "none"}
  BY DEF StopLoss
<1>2. kill \in BOOLEAN /\ pauseLeft \in 0 .. PauseWeekly
  BY DEF TypeOK
<1>3. PauseDaily \in Nat \ {0} /\ PauseWeekly \in Nat /\ PauseDaily =< PauseWeekly
  BY TimeAssumption DEF TimeAssumption
<1>4. CASE kill
  BY <1>1, <1>2, <1>3, <1>4 DEF EvaluateStopLosses, GateState, Paused
<1>5. CASE ~kill /\ StopLoss = "monthly"
  BY <1>1, <1>2, <1>3, <1>5 DEF EvaluateStopLosses, GateState, Paused
<1>6. CASE ~kill /\ StopLoss = "weekly"
  BY <1>1, <1>2, <1>3, <1>6 DEF EvaluateStopLosses, GateState, Paused
<1>7. CASE ~kill /\ StopLoss = "daily"
  BY <1>1, <1>2, <1>3, <1>7 DEF EvaluateStopLosses, GateState, Paused
<1>8. CASE ~kill /\ StopLoss = "none"
  BY <1>1, <1>2, <1>3, <1>8 DEF EvaluateStopLosses, GateState, Paused
<1> QED
  BY <1>1, <1>2, <1>4, <1>5, <1>6, <1>7, <1>8

LEMMA TypeInit == Init => TypeOK
<1> SUFFICES ASSUME Init PROVE TypeOK
  OBVIOUS
<1>1. pnl \in [Ages -> Pnl]
  BY MoneyAssumption DEF Init, MoneyAssumption
<1>2. 0 \in 0 .. MaxOpen
  <2>1. MaxOpen \in {MaxTrade, MaxExposure, MaxOpen}
    OBVIOUS
  <2>2. MaxOpen \in Nat
    BY <2>1, MoneyAssumption DEF MoneyAssumption
  <2> QED
    BY <2>2
<1>3. 0 \in 0 .. PauseWeekly
  BY TimeAssumption DEF TimeAssumption
<1> QED
  BY <1>1, <1>2, <1>3 DEF Init, TypeOK

LEMMA TypeStep ==
  ASSUME TypeOK, [Next]_vars
  PROVE  TypeOK'
<1> USE TimeAssumption, MoneyAssumption DEF TypeOK
<1>1. CASE CheckPreTrade
  BY <1>1, StopLossOutcome DEF CheckPreTrade
<1>2. ASSUME NEW s \in Sizes, CheckAndReserve(s) PROVE TypeOK'
  BY <1>2, StopLossOutcome DEF CheckAndReserve, MoneyAssumption
<1>3. ASSUME NEW s \in Sizes, ReleaseReservation(s) PROVE TypeOK'
  BY <1>3 DEF ReleaseReservation, MoneyAssumption
<1>4. CASE AdminPause
  BY <1>4 DEF AdminPause, Pause, TimeAssumption
<1>5. CASE ReconcileMismatch
  BY <1>5 DEF ReconcileMismatch, Pause, TimeAssumption
<1>6. CASE AdminResume
  BY <1>6 DEF AdminResume, TimeAssumption
<1>7. CASE ClearKillSwitch
  BY <1>7 DEF ClearKillSwitch
<1>8. CASE Restart
  BY <1>8 DEF Restart
<1>9. CASE Tick
  <2>1. AgedPnl \in [Ages -> Pnl]
    BY DEF AgedPnl, Ages, TimeAssumption, MoneyAssumption
  <2>2. hour' \in 0 .. TicksPerDay - 1
    BY <1>9 DEF Tick, TimeAssumption
  <2>3. pauseLeft' \in 0 .. PauseWeekly
    BY <1>9 DEF Tick, TimeAssumption
  <2> QED
    BY <1>9, <2>1, <2>2, <2>3 DEF Tick
<1>10. ASSUME NEW d \in PnlSteps, RecordPnl(d) PROVE TypeOK'
  BY <1>10 DEF RecordPnl, Ages, MoneyAssumption, TimeAssumption
<1>11. CASE RebookPositions
  BY <1>11 DEF RebookPositions
<1>12. CASE UNCHANGED vars
  BY <1>12 DEF vars
<1> QED
  BY <1>1, <1>2, <1>3, <1>4, <1>5, <1>6, <1>7, <1>8, <1>9, <1>10, <1>11, <1>12 DEF Next

(* The state of the risk manager keeps its shape: no pause outlives seven  *)
(* days, no reservation is negative.                                       *)
THEOREM TypeCorrect == Spec => []TypeOK
<1>1. Init => TypeOK
  BY TypeInit
<1>2. TypeOK /\ [Next]_vars => TypeOK'
  BY TypeStep
<1> QED
  BY <1>1, <1>2, PTL DEF Spec

-----------------------------------------------------------------------------
(* Approvals.                                                              *)

(* A step that raises the reservation is check_and_reserve() approving.    *)
LEMMA OnlyApprovalsReserve ==
  ASSUME TypeOK, [Next]_vars, reserved' > reserved
  PROVE  \E s \in Sizes : CheckAndReserve(s) /\ Approved(s)
<1> USE DEF TypeOK
<1>1. CASE CheckPreTrade
  BY <1>1 DEF CheckPreTrade
<1>2. ASSUME NEW s \in Sizes, CheckAndReserve(s)
      PROVE  \E t \in Sizes : CheckAndReserve(t) /\ Approved(t)
  <2>1. Approved(s)
    BY <1>2 DEF CheckAndReserve
  <2> QED
    BY <1>2, <2>1
<1>3. ASSUME NEW s \in Sizes, ReleaseReservation(s) PROVE FALSE
  BY <1>3, MoneyAssumption DEF ReleaseReservation, MoneyAssumption
<1>4. CASE AdminPause \/ ReconcileMismatch
  BY <1>4 DEF AdminPause, ReconcileMismatch, Pause
<1>5. CASE AdminResume \/ ClearKillSwitch \/ RebookPositions
  BY <1>5 DEF AdminResume, ClearKillSwitch, RebookPositions
<1>6. CASE Restart
  BY <1>6 DEF Restart
<1>7. CASE Tick
  BY <1>7 DEF Tick
<1>8. ASSUME NEW d \in PnlSteps, RecordPnl(d) PROVE FALSE
  BY <1>8 DEF RecordPnl
<1>9. CASE UNCHANGED vars
  BY <1>9 DEF vars
<1> QED
  BY <1>1, <1>2, <1>3, <1>4, <1>5, <1>6, <1>7, <1>8, <1>9 DEF Next

(* What an approval saw, and what its own stop-loss evaluation left.       *)
LEMMA ApprovalSaw ==
  ASSUME TypeOK, NEW s \in Sizes, CheckAndReserve(s), Approved(s)
  PROVE  /\ ~LimitReached
         /\ pauseLeft = 0 /\ pauseLeft' = 0
         /\ ~kill /\ ~kill'
<1>1. StopLoss = "none" /\ ~kill /\ ~Paused
  BY DEF Approved
<1>2. ~LimitReached
  BY <1>1 DEF StopLoss, LimitReached
<1>3. pauseLeft = 0
  BY <1>1, TimeAssumption DEF Paused, TypeOK, TimeAssumption
<1>4. kill' = kill /\ pauseLeft' = pauseLeft
  BY <1>1, StopLossOutcome DEF CheckAndReserve
<1> QED
  BY <1>1, <1>2, <1>3, <1>4

(* No approval on top of a loss, a pause or a kill switch, for every       *)
(* calendar and every limit (manager.py:200-242).                          *)
THEOREM NoApprovalOnALoss == Spec => ApprovalsFollowLosses
<1>1. TypeOK /\ [Next]_vars =>
        [reserved' > reserved => /\ ~LimitReached
                                 /\ pauseLeft = 0 /\ pauseLeft' = 0
                                 /\ ~kill /\ ~kill']_vars
  BY OnlyApprovalsReserve, ApprovalSaw
<1> QED
  BY <1>1, TypeCorrect, PTL DEF Spec, ApprovalsFollowLosses

-----------------------------------------------------------------------------
(* Refinement.                                                             *)

LEMMA GateInit == Init => Gate!Init
BY DEF Init, Gate!Init, Gate!Gates, GateState, Paused

(* A step that leaves openUsd and the reservation alone and moves the gate *)
(* at most the way RiskGate lets it turn.                                  *)
LEMMA QuietStep ==
  ASSUME UNCHANGED <<openUsd, reserved>>,
         \/ GateState' = GateState
         \/ GateState # "killed" /\ GateState' \in {"paused", "killed"}
         \/ GateState = "paused" /\ GateState' = "open"
         \/ GateState = "killed" /\ GateState' \in {"open", "paused"}
  PROVE  [Gate!Next]_(Gate!vars)
BY DEF Gate!Next, Gate!Turn, Gate!GateTurns, Gate!Closes, Gate!Reopens,
       Gate!HumanClears, Gate!vars

LEMMA GateStep ==
  ASSUME TypeOK, TypeOK', [Next]_vars
  PROVE  [Gate!Next]_(Gate!vars)
<1>1. CASE CheckPreTrade
  BY <1>1, StopLossOutcome, QuietStep DEF CheckPreTrade
<1>2. ASSUME NEW s \in Sizes, CheckAndReserve(s), ~Approved(s)
      PROVE  [Gate!Next]_(Gate!vars)
  BY <1>2, StopLossOutcome, QuietStep DEF CheckAndReserve
<1>3. ASSUME NEW s \in Sizes, CheckAndReserve(s), Approved(s)
      PROVE  [Gate!Next]_(Gate!vars)
  <2>1. GateState = "open" /\ GateState' = "open"
    BY <1>3, ApprovalSaw DEF GateState, Paused
  <2>2. reserved' = reserved + s /\ openUsd' = openUsd
    BY <1>3 DEF CheckAndReserve
  <2>3. s \in Nat /\ s > 0 /\ openUsd + reserved + s =< MaxExposure
    BY <1>3, MoneyAssumption DEF Approved, CurrentExposure, MoneyAssumption
  <2>4. Gate!Approve
    BY <2>1, <2>2, <2>3, MoneyAssumption DEF Gate!Approve, TypeOK, MoneyAssumption
  <2> QED
    BY <2>4 DEF Gate!Next
<1>4. ASSUME NEW s \in Sizes, ReleaseReservation(s) PROVE [Gate!Next]_(Gate!vars)
  <2>1. reserved' \in 0 .. reserved
    BY <1>4, MoneyAssumption DEF ReleaseReservation, TypeOK, MoneyAssumption
  <2>2. Gate!Return
    BY <1>4, <2>1 DEF Gate!Return, ReleaseReservation, GateState, Paused
  <2> QED
    BY <2>2 DEF Gate!Next
<1>5. CASE AdminPause \/ ReconcileMismatch
  <2>1. pauseLeft' > 0 /\ kill' = kill
    BY <1>5, TimeAssumption DEF AdminPause, ReconcileMismatch, Pause, TimeAssumption
  <2> QED
    BY <1>5, <2>1, QuietStep DEF AdminPause, ReconcileMismatch, Pause, GateState, Paused
<1>6. CASE AdminResume
  BY <1>6, QuietStep DEF AdminResume, GateState, Paused
<1>7. CASE ClearKillSwitch
  BY <1>7, QuietStep DEF ClearKillSwitch, GateState, Paused
<1>8. CASE Restart
  <2>1. Gate!Return
    BY <1>8 DEF Gate!Return, Restart, GateState, Paused, TypeOK
  <2> QED
    BY <2>1 DEF Gate!Next
<1>9. CASE Tick
  BY <1>9, QuietStep DEF Tick, GateState, Paused, TypeOK
<1>10. ASSUME NEW d \in PnlSteps, RecordPnl(d) PROVE [Gate!Next]_(Gate!vars)
  BY <1>10, QuietStep DEF RecordPnl, GateState, Paused
<1>11. CASE RebookPositions
  <2>1. openUsd' \in Nat /\ reserved' \in 0 .. reserved
    BY <1>11 DEF RebookPositions, TypeOK
  <2>2. Gate!Rebook
    BY <1>11, <2>1 DEF Gate!Rebook, RebookPositions, GateState, Paused
  <2> QED
    BY <2>2 DEF Gate!Next
<1>12. CASE UNCHANGED vars
  BY <1>12 DEF vars, Gate!vars, GateState, Paused
<1> QED
  BY <1>1, <1>2, <1>3, <1>4, <1>5, <1>6, <1>7, <1>8, <1>9, <1>10, <1>11, <1>12 DEF Next

(* The risk manager implements RiskGate: only check_and_reserve() commits  *)
(* capital, through an open gate and within max_exposure_usd(), and only   *)
(* clear_kill_switch.py leaves the killed state.                           *)
THEOREM RiskManagerImplementsGate == Spec => ImplementsGate
<1>1. Init => Gate!Init
  BY GateInit
<1>2. TypeOK /\ TypeOK' /\ [Next]_vars => [Gate!Next]_(Gate!vars)
  BY GateStep
<1> QED
  BY <1>1, <1>2, TypeCorrect, PTL DEF Spec, ImplementsGate, Gate!Spec
=============================================================================
