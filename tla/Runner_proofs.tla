--------------------------- MODULE Runner_proofs ---------------------------
(***************************************************************************)
(* Proofs about Runner, for any services, settings, timers and number of   *)
(* restarts.                                                               *)
(***************************************************************************)
EXTENDS Runner, TLAPS

Unwatched == {"running", "backoff"}

(* A shutdown that cancels leaves no service to itself. *)
CancelledAll ==
  phase = "cancelling" => \A s \in Services : svc[s] \notin Unwatched

(* The three parts of TypeOK: settings and tables, tasks, timers. *)
SettingsType ==
  /\ cfg \in Configs
  /\ failures \subseteq StaticChecks \cup {"shadow days", "kill switch", "reconciliation"}
  /\ shadow \in BOOLEAN
  /\ executor \in BOOLEAN
  /\ row \in {"none", "open", "closed"}
  /\ kill \in BOOLEAN
  /\ mismatch \in BOOLEAN

TypesInv ==
  /\ phase \in {"down", "up", "stopping", "cancelling"}
  /\ svc \in [Services -> {"off", "running", "backoff", "returned", "cancelling", "cancelled"}]
  /\ todo \in Nat

TimersType ==
  /\ delay \in [Services -> InitialBackoff .. MaxBackoff]
  /\ left \in [Services -> 0 .. MaxBackoff]
  /\ window \in 0 .. StopWindow
  /\ todo \in 0 .. MaxOpps
  /\ shadowDays \in -1 .. ShadowMinDays

IInv == TypeOK /\ StartedOnGo /\ MismatchCanHeal /\ CancelledAll

LEMMA PartsOfTypeOK == TypeOK <=> SettingsType /\ TypesInv /\ TimersType
<1>1. TimersType => todo \in Nat
  BY DEF TimersType
<1> QED BY <1>1, Zenon DEF TypeOK, SettingsType, TypesInv, TimersType

LEMMA Reconciles == Reconciler \in Services /\ Reconciler \notin MayReturn
BY ServicesAssumption DEF ServicesAssumption

-----------------------------------------------------------------------------
LEMMA InitIInv == Init => IInv
<1> SUFFICES ASSUME Init PROVE IInv
  OBVIOUS
<1>1. TypesInv /\ CancelledAll
  BY DEF Init, TypesInv, CancelledAll
<1>3. SettingsType
  BY Zenon DEF Init, SettingsType
<1>4. TimersType
  BY TimersAssumption DEF Init, TimersType, TimersAssumption
<1>2. StartedOnGo /\ MismatchCanHeal
  BY DEF Init, StartedOnGo, MismatchCanHeal
<1> QED BY <1>1, <1>2, <1>3, <1>4, PartsOfTypeOK DEF IInv

(* Types: a service's state is overwritten by a state, a delay is doubled  *)
(* up to its cap, the list and the timers shrink or are made anew.         *)
LEMMA NextKeepsTypes ==
  ASSUME TypesInv, Next
  PROVE  TypesInv'
<1>0. /\ MaxOpps \in Nat
      /\ \A k \in 0 .. MaxOpps : k \in Nat
  BY TimersAssumption DEF TimersAssumption
<1>1. ASSUME NEW c \in Configs, Boot(c) PROVE TypesInv'
  BY <1>1 DEF Boot, TypesInv
<1>2. ASSUME NEW s \in Services, ServiceStep(s) PROVE TypesInv'
  <2>1. todo' \in Nat /\ phase' = phase
    BY <1>2 DEF TypesInv, ServiceStep, Crash, Return, RestartService, WakeToStop, CancelEnds, Left
  <2>2. PICK x \in {"off", "running", "backoff", "returned", "cancelling", "cancelled"} :
          svc' = [svc EXCEPT ![s] = x]
    BY <1>2 DEF ServiceStep, Crash, Return, RestartService, WakeToStop, CancelEnds
  <2> QED BY <2>1, <2>2 DEF TypesInv
<1>3. ASSUME NEW k \in 0 .. MaxOpps, MotorTick(k) PROVE TypesInv'
  BY <1>0, <1>3 DEF MotorTick, TypesInv, tasks
<1>4. CASE Execute
  BY <1>4 DEF Execute, TypesInv, tasks
<1>5. CASE RequestShutdown \/ CloseWindow
  BY <1>5 DEF RequestShutdown, CloseWindow, TypesInv, tasks
<1>6. CASE Finish \/ ProcessDies
  BY <1>6 DEF Finish, ProcessDies, MemoryGone, TypesInv
<1>7. CASE KillSwitchMoves \/ ReconcileCycle \/ DayPasses \/ Tick
  BY <1>7 DEF KillSwitchMoves, ReconcileCycle, DayPasses, Tick, TypesInv, tasks
<1> QED BY <1>1, <1>2, <1>3, <1>4, <1>5, <1>6, <1>7 DEF Next

LEMMA NextKeepsTimers ==
  ASSUME TimersType, Next
  PROVE  TimersType'
<1> USE TimersAssumption DEF TimersAssumption
<1>1. ASSUME NEW c \in Configs, Boot(c) PROVE TimersType'
  BY <1>1 DEF Boot, TimersType, db
<1>2. ASSUME NEW s \in Services, ServiceStep(s) PROVE TimersType'
  <2>1. todo' \in 0 .. MaxOpps
    BY <1>2 DEF TimersType, ServiceStep, Crash, Return, RestartService, WakeToStop, CancelEnds, Left
  <2>2. Doubled(delay[s]) \in InitialBackoff .. MaxBackoff
    BY DEF TimersType, Doubled
  <2>3. delay' = delay \/ delay' = [delay EXCEPT ![s] = Doubled(@)]
    BY <1>2, Zenon DEF ServiceStep, Crash, Return, RestartService, WakeToStop, CancelEnds
  <2>4. left' = left \/ left' = [left EXCEPT ![s] = 0] \/ left' = [left EXCEPT ![s] = delay[s]]
    BY <1>2 DEF ServiceStep, Crash, Return, RestartService, WakeToStop, CancelEnds
  <2>5. window' = window /\ shadowDays' = shadowDays
    BY <1>2, Zenon DEF ServiceStep, Crash, Return, RestartService, WakeToStop, CancelEnds, db
  <2>6. delay' \in [Services -> InitialBackoff .. MaxBackoff]
    BY <2>2, <2>3 DEF TimersType
  <2>7. left' \in [Services -> 0 .. MaxBackoff]
    BY <2>4 DEF TimersType
  <2> QED BY <2>1, <2>5, <2>6, <2>7 DEF TimersType
<1>3. ASSUME NEW k \in 0 .. MaxOpps, MotorTick(k) PROVE TimersType'
  BY <1>3 DEF MotorTick, TimersType, tasks
<1>4. CASE Execute \/ RequestShutdown
  BY <1>4 DEF Execute, RequestShutdown, TimersType, tasks, db
<1>5. CASE CloseWindow
  BY <1>5 DEF CloseWindow, TimersType, db
<1>6. CASE Finish \/ ProcessDies
  <2>1. MemoryGone
    BY <1>6, Zenon DEF Finish, ProcessDies
  <2> QED BY <2>1 DEF MemoryGone, TimersType, db
<1>7. CASE KillSwitchMoves \/ ReconcileCycle \/ DayPasses
  BY <1>7 DEF KillSwitchMoves, ReconcileCycle, DayPasses, TimersType, tasks
<1>8. CASE Tick
  <2>1. \A t \in 0 .. MaxBackoff : Less(t) \in 0 .. MaxBackoff
    BY DEF Less
  <2>2. window' \in 0 .. StopWindow
    BY <1>8 DEF Tick, Less, TimersType
  <2>3. left' \in [Services -> 0 .. MaxBackoff]
    BY <1>8, <2>1 DEF Tick, TimersType
  <2> QED BY <1>8, <2>2, <2>3 DEF Tick, TimersType, db
<1> QED BY <1>1, <1>2, <1>3, <1>4, <1>5, <1>6, <1>7, <1>8 DEF Next

(* What a start reads into the settings of the process. *)
LEMMA NextKeepsSettings ==
  ASSUME SettingsType, Next
  PROVE  SettingsType'
<1>1. ASSUME NEW c \in Configs, Boot(c) PROVE SettingsType'
  <2>1. RunChecks(c) \subseteq StaticChecks \cup {"shadow days", "kill switch", "reconciliation"}
    BY ConfigsAssumption DEF ConfigsAssumption, RunChecks
  <2>2. failures' \subseteq StaticChecks \cup {"shadow days", "kill switch", "reconciliation"}
    BY <1>1, <2>1 DEF Boot
  <2>3. shadow' \in BOOLEAN /\ executor' \in BOOLEAN
    BY <1>1, ConfigsAssumption, Zenon DEF Boot, InjectsExecutor, ConfigsAssumption
  <2>4. row' \in {"none", "open", "closed"}
    BY <1>1 DEF Boot
  <2> QED BY <1>1, <2>2, <2>3, <2>4, Zenon DEF Boot, SettingsType, db
<1>2. CASE Finish \/ ProcessDies
  <2>1. row' \in {"none", "open", "closed"}
    BY <1>2, Zenon DEF Finish, ProcessDies, SettingsType
  <2>2. MemoryGone
    BY <1>2, Zenon DEF Finish, ProcessDies
  <2>3. {} \subseteq StaticChecks \cup {"shadow days", "kill switch", "reconciliation"}
    OBVIOUS
  <2> QED BY <2>1, <2>2, <2>3, Zenon DEF MemoryGone, SettingsType, db
<1>3. CASE KillSwitchMoves
  <2>1. (~kill) \in BOOLEAN
    BY Zenon DEF SettingsType
  <2> QED BY <1>3, <2>1, Zenon DEF KillSwitchMoves, SettingsType, boot
<1>4. CASE ReconcileCycle
  BY <1>4, Zenon DEF ReconcileCycle, SettingsType, boot
<1>5. ASSUME \/ \E s \in Services : ServiceStep(s)
             \/ \E k \in 0 .. MaxOpps : MotorTick(k)
             \/ Execute \/ RequestShutdown \/ CloseWindow \/ DayPasses \/ Tick
      PROVE  SettingsType'
  <2>1. UNCHANGED <<boot, row, kill, mismatch>>
    BY <1>5, Zenon DEF ServiceStep, Crash, Return, RestartService, WakeToStop, CancelEnds,
       MotorTick, Execute, RequestShutdown, CloseWindow, DayPasses, Tick, db
  <2> QED BY <2>1, Zenon DEF SettingsType, boot
<1> QED BY <1>1, <1>2, <1>3, <1>4, <1>5, Zenon DEF Next

(* Only a start gives motor 1 an executor, and only a tick of a motor 1    *)
(* that has one makes a list.                                              *)
LEMMA NextStartsOnGo ==
  ASSUME TypesInv, StartedOnGo, Next
  PROVE  StartedOnGo' /\ GoIsCurrent
<1>1. ASSUME NEW c \in Configs, Boot(c) PROVE StartedOnGo' /\ GoIsCurrent
  <2>1. executor' => c.trading /\ RunChecks(c) = {}
    BY <1>1, Zenon DEF Boot, InjectsExecutor
  <2>2. /\ cfg' = c /\ todo' = 0 /\ failures' = (IF c.trading THEN RunChecks(c) ELSE {})
        /\ shadow' = (~c.trading \/ failures' # {})
    BY <1>1, Zenon DEF Boot
  <2>3. ~(todo' > 0)
    BY <2>2
  <2>4. StartedOnGo'
    BY <2>1, <2>2, <2>3, Zenon DEF StartedOnGo
  <2>5. RunChecks(c) = {} => ~kill /\ ~mismatch /\ ~ShadowTooShort(c)
    BY DEF RunChecks
  <2> QED BY <2>1, <2>2, <2>4, <2>5, Zenon DEF GoIsCurrent
<1>2. CASE Finish \/ ProcessDies
  <2>1. ~executor' /\ todo' = 0
    BY <1>2, Zenon DEF Finish, ProcessDies, MemoryGone
  <2>2. ~(todo' > 0)
    BY <2>1
  <2> QED BY <2>1, <2>2, Zenon DEF StartedOnGo, GoIsCurrent
<1>3. ASSUME NEW k \in 0 .. MaxOpps, MotorTick(k) PROVE StartedOnGo' /\ GoIsCurrent
  <2>1. UNCHANGED boot /\ (~executor => todo' = 0)
    BY <1>3, Zenon DEF MotorTick
  <2>2. todo' > 0 => executor
    BY <2>1
  <2> QED BY <2>1, <2>2, Zenon DEF StartedOnGo, GoIsCurrent, boot
<1>4. ASSUME \/ \E s \in Services : ServiceStep(s)
             \/ Execute \/ RequestShutdown \/ CloseWindow
             \/ KillSwitchMoves \/ ReconcileCycle \/ DayPasses \/ Tick
      PROVE  StartedOnGo' /\ GoIsCurrent
  <2>1. UNCHANGED boot
    BY <1>4, Zenon DEF ServiceStep, Crash, Return, RestartService, WakeToStop, CancelEnds, Execute,
       RequestShutdown, CloseWindow, KillSwitchMoves, ReconcileCycle, DayPasses, Tick
  <2>2. todo' = todo \/ todo' = 0 \/ todo' = todo - 1
    BY <1>4, Zenon DEF ServiceStep, Crash, Return, RestartService, WakeToStop, CancelEnds, Execute,
       RequestShutdown, CloseWindow, KillSwitchMoves, ReconcileCycle, DayPasses, Tick, Left
  <2>3. todo' > 0 => todo > 0
    BY <2>2 DEF TypesInv
  <2> QED BY <2>1, <2>3, Zenon DEF StartedOnGo, GoIsCurrent, boot
<1> QED BY <1>1, <1>2, <1>3, <1>4 DEF Next

(* The reconciler is started with trading on, is restarted when it crashes *)
(* and does not return before the process stops.                           *)
LEMMA NextCanHeal ==
  ASSUME TypesInv, MismatchCanHeal, Next
  PROVE  MismatchCanHeal'
<1> USE Reconciles
<1>1. ASSUME NEW c \in Configs, Boot(c) PROVE MismatchCanHeal'
  BY <1>1 DEF Boot, Applies, TradingOnly, MismatchCanHeal, Alive
<1>2. ASSUME NEW s \in Services, ServiceStep(s) PROVE MismatchCanHeal'
  <2> SUFFICES ASSUME phase = "up", cfg.trading PROVE Alive(Reconciler)'
    BY <1>2, Zenon DEF MismatchCanHeal, ServiceStep, Crash, Return, RestartService, WakeToStop,
                       CancelEnds, boot
  <2>1. svc[Reconciler] \in {"running", "backoff"} /\ ~Stopping
    BY DEF MismatchCanHeal, Alive, Stopping
  <2>2. PICK x : svc' = [svc EXCEPT ![s] = x] /\ (s = Reconciler => x \in {"running", "backoff"})
    BY <1>2, <2>1 DEF ServiceStep, Crash, Return, RestartService, WakeToStop, CancelEnds
  <2> QED BY <2>1, <2>2 DEF Alive, TypesInv
<1>3. CASE RequestShutdown \/ CloseWindow \/ Finish \/ ProcessDies
  BY <1>3 DEF RequestShutdown, CloseWindow, Finish, ProcessDies, MemoryGone, MismatchCanHeal
<1>4. ASSUME \/ \E k \in 0 .. MaxOpps : MotorTick(k)
             \/ Execute \/ KillSwitchMoves \/ ReconcileCycle \/ DayPasses \/ Tick
      PROVE  MismatchCanHeal'
  <2>1. phase' = phase /\ cfg' = cfg /\ svc' = svc
    BY <1>4, Zenon DEF MotorTick, Execute, KillSwitchMoves, ReconcileCycle, DayPasses, Tick,
                       boot, tasks
  <2> QED BY <2>1, Zenon DEF MismatchCanHeal, Alive
<1> QED BY <1>1, <1>2, <1>3, <1>4 DEF Next

LEMMA NextCancelsAll ==
  ASSUME TypesInv, CancelledAll, Next
  PROVE  CancelledAll'
<1>1. ASSUME NEW c \in Configs, Boot(c) PROVE CancelledAll'
  BY <1>1 DEF Boot, CancelledAll
<1>2. ASSUME NEW s \in Services, ServiceStep(s) PROVE CancelledAll'
  <2> SUFFICES ASSUME phase = "cancelling", NEW r \in Services PROVE svc'[r] \notin Unwatched
    BY <1>2, Zenon DEF CancelledAll, ServiceStep, Crash, Return, RestartService, WakeToStop,
                       CancelEnds
  <2>1. svc[r] \notin Unwatched /\ svc[s] \notin Unwatched /\ Stopping
    BY DEF CancelledAll, Stopping
  <2>2. svc' = [svc EXCEPT ![s] = "cancelled"]
    BY <1>2, <2>1 DEF ServiceStep, Crash, Return, RestartService, WakeToStop, CancelEnds, Unwatched
  <2> QED BY <2>1, <2>2 DEF TypesInv, Unwatched
<1>3. CASE CloseWindow
  BY <1>3 DEF CloseWindow, Alive, CancelledAll, TypesInv, Unwatched
<1>4. CASE RequestShutdown \/ Finish \/ ProcessDies
  BY <1>4 DEF RequestShutdown, Finish, ProcessDies, MemoryGone, CancelledAll
<1>5. ASSUME \/ \E k \in 0 .. MaxOpps : MotorTick(k)
             \/ Execute \/ KillSwitchMoves \/ ReconcileCycle \/ DayPasses \/ Tick
      PROVE  CancelledAll'
  <2>1. phase' = phase /\ svc' = svc
    BY <1>5, Zenon DEF MotorTick, Execute, KillSwitchMoves, ReconcileCycle, DayPasses, Tick, tasks
  <2> QED BY <2>1, Zenon DEF CancelledAll
<1> QED BY <1>1, <1>2, <1>3, <1>4, <1>5 DEF Next

LEMMA NextKeepsIInv == IInv /\ [Next]_vars => IInv'
<1> SUFFICES ASSUME IInv, [Next]_vars PROVE IInv'
  OBVIOUS
<1>1. CASE Next
  <2>1. SettingsType /\ TypesInv /\ TimersType
    BY PartsOfTypeOK, Zenon DEF IInv
  <2>2. SettingsType' /\ TypesInv' /\ TimersType'
    BY <1>1, <2>1, NextKeepsSettings, NextKeepsTypes, NextKeepsTimers, Zenon
  <2>3. TypeOK'
    BY <2>2, PartsOfTypeOK, PTL
  <2> QED BY <1>1, <2>1, <2>3, NextStartsOnGo, NextCanHeal, NextCancelsAll, Zenon DEF IInv
<1>2. CASE UNCHANGED vars
  BY <1>2, Zenon DEF vars, boot, tasks, db, IInv, TypeOK, StartedOnGo, MismatchCanHeal, Alive,
                     CancelledAll
<1> QED BY <1>1, <1>2

LEMMA IInvHolds == Spec => []IInv
BY InitIInv, NextKeepsIInv, PTL DEF Spec

-----------------------------------------------------------------------------
(* Every variable keeps its type: the back-off stays between its first and *)
(* its largest delay however often a service crashed, the list within its  *)
(* bound, and the failed checks among those that check_no_go.py knows.     *)
THEOREM TypeOKHolds == Spec => []TypeOK
<1>1. IInv => TypeOK
  BY DEF IInv
<1> QED BY <1>1, IInvHolds, PTL

(* Real orders need a green checklist of the process that sends them, read *)
(* from the database as it was at that start.                              *)
THEOREM OrdersNeedGoHolds == Spec => OrdersNeedGo
<1>1. IInv /\ [Next]_vars => [StartedOnGo' /\ GoIsCurrent]_vars
  <2> SUFFICES ASSUME IInv, Next PROVE StartedOnGo' /\ GoIsCurrent
    BY Zenon
  <2> QED BY PartsOfTypeOK, NextStartsOnGo, Zenon DEF IInv
<1> QED BY <1>1, IInvHolds, PTL DEF Spec, OrdersNeedGo

(* With trading on the reconciler runs or waits to run again, in forced    *)
(* shadow too: a mismatch can be overwritten by a later agreement.         *)
THEOREM MismatchCanHealHolds == Spec => []MismatchCanHeal
<1>1. IInv => MismatchCanHeal
  BY DEF IInv
<1> QED BY <1>1, IInvHolds, PTL

(* The row of a run is closed when no service can write any more. *)
THEOREM RowClosedLastHolds == Spec => RowClosedLast
<1>1. IInv /\ [Next]_vars =>
        [row' = "closed" /\ row # "closed" =>
           \A s \in Services : svc[s] \notin {"running", "backoff", "cancelling"}]_vars
  <2> SUFFICES ASSUME IInv, Next, row' = "closed", row # "closed", NEW s \in Services
               PROVE  svc[s] \notin {"running", "backoff", "cancelling"}
    BY Zenon
  <2>1. Finish
    BY DEF Next, Boot, ServiceStep, Crash, Return, RestartService, WakeToStop, CancelEnds, MotorTick,
           Execute, RequestShutdown, CloseWindow, ProcessDies, KillSwitchMoves, ReconcileCycle,
           DayPasses, Tick
  <2> QED BY <2>1 DEF Finish, IInv, CancelledAll, Unwatched
<1> QED BY <1>1, IInvHolds, PTL DEF Spec, RowClosedLast
=============================================================================
