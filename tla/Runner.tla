------------------------------- MODULE Runner -------------------------------
(***************************************************************************)
(* The process: src/runner.py starts the services, restarts those that     *)
(* crash and stops them on SIGTERM; scripts/check_no_go.py decides at each *)
(* start whether motor 1 gets an executor.                                 *)
(*                                                                         *)
(* run() has no await before it waits for the stop event, so a start is    *)
(* one action.  Afterwards each service is a task of its own, described by *)
(* what its supervisor _run_service() sees of it: it runs, it raised, it   *)
(* returned.  What the database keeps over a restart (kill switch,         *)
(* reconciliation verdict, first funnel row) is state of this module too.  *)
(* A failed init_db() returns before anything is started.                  *)
(***************************************************************************)
EXTENDS Integers

CONSTANTS
  Services,        \* names of SERVICE_SPECS that are enabled
  MayReturn,       \* services whose coroutine may return unasked
  Configs,         \* settings a container may be started with
  InitialBackoff, MaxBackoff,   \* 5 s and 300 s
  StopWindow,      \* 10 s that a shutdown waits for the services
  ShadowMinDays,   \* 7
  MaxOpps          \* bound on the opportunities of one tick of motor 1

Motor1     == "motor_1_arbitrage"
Reconciler == "reconciler"
TradingOnly == {"user_channel", Reconciler}

ASSUME ServicesAssumption ==
  /\ {Motor1, Reconciler} \subseteq Services
  /\ MayReturn \subseteq Services \ {Motor1, Reconciler}

ASSUME TimersAssumption ==
  /\ InitialBackoff \in Nat \ {0}
  /\ MaxBackoff \in Nat
  /\ InitialBackoff =< MaxBackoff
  /\ StopWindow \in Nat
  /\ ShadowMinDays \in Nat
  /\ MaxOpps \in Nat

(* Checks whose verdict depends on settings and files alone. *)
StaticChecks ==
  {"wallet key", "repo secrets", "limits", "capital", "isolation"}

ASSUME ConfigsAssumption ==
  Configs \subseteq [trading : BOOLEAN, production : BOOLEAN, failing : SUBSET StaticChecks]

VARIABLES
  phase,      \* "down", "up", "stopping" (within the window), "cancelling"
  cfg,        \* settings of this process
  failures,   \* what run_checks() answered at this start
  shadow,     \* BotState.shadow_mode
  executor,   \* motor 1's engine.executor is not None
  svc,        \* each service task
  delay,      \* `backoff` of each _run_service()
  left,       \* ticks until its wait_for times out
  window,     \* ticks until asyncio.wait() of the shutdown times out
  todo,       \* opportunities of motor 1's tick not yet executed
  row,        \* the BotRun row of this process
  kill, mismatch,    \* operational_state: kill_switch active, reconcile_status mismatch
  shadowDays  \* age of the first FunnelSnapshot, -1 if there is none

tasks == <<svc, delay, left>>
db    == <<kill, mismatch, shadowDays>>
boot  == <<cfg, failures, shadow, executor>>
vars  == <<phase, boot, tasks, window, todo, row, db>>

TypeOK ==
  /\ phase \in {"down", "up", "stopping", "cancelling"}
  /\ cfg \in Configs
  /\ failures \subseteq StaticChecks \cup {"shadow days", "kill switch", "reconciliation"}
  /\ shadow \in BOOLEAN
  /\ executor \in BOOLEAN
  /\ svc \in [Services -> {"off", "running", "backoff", "returned", "cancelling", "cancelled"}]
  /\ delay \in [Services -> InitialBackoff .. MaxBackoff]
  /\ left \in [Services -> 0 .. MaxBackoff]
  /\ window \in 0 .. StopWindow
  /\ todo \in 0 .. MaxOpps
  /\ row \in {"none", "open", "closed"}
  /\ kill \in BOOLEAN
  /\ mismatch \in BOOLEAN
  /\ shadowDays \in -1 .. ShadowMinDays

Init ==
  /\ phase = "down"
  /\ cfg \in Configs
  /\ failures = {}
  /\ shadow = TRUE
  /\ executor = FALSE
  /\ svc = [s \in Services |-> "off"]
  /\ delay = [s \in Services |-> InitialBackoff]
  /\ left = [s \in Services |-> 0]
  /\ window = 0
  /\ todo = 0
  /\ row = "none"
  /\ kill = FALSE
  /\ mismatch = FALSE
  /\ shadowDays = -1

Alive(s) == svc[s] \in {"running", "backoff"}
Stopping == phase \in {"stopping", "cancelling"}

-----------------------------------------------------------------------------
(* Starting.                                                               *)

(* The age of the first row is all that is looked at: rows need not be     *)
(* without gaps, nor recent.                                               *)
ShadowTooShort(c) == c.production /\ shadowDays < ShadowMinDays

RunChecks_NoReconciliation(c) ==
  c.failing
    \cup (IF ShadowTooShort(c)       THEN {"shadow days"}    ELSE {})
    \cup (IF kill                    THEN {"kill switch"}    ELSE {})

RunChecks(c) ==
  c.failing
    \cup (IF ShadowTooShort(c)       THEN {"shadow days"}    ELSE {})
    \cup (IF kill                    THEN {"kill switch"}    ELSE {})
    \cup (IF mismatch                THEN {"reconciliation"} ELSE {})

(* create_service() of the user channel and of the reconciler look at      *)
(* TRADING_ENABLED, not at the shadow that a NO-GO forces.                 *)
Applies_NotInShadow(s, c) == s \in TradingOnly => c.trading /\ RunChecks(c) = {}
Applies(s, c) == s \in TradingOnly => c.trading

(* create_service() of motor 1, called after run_checks() set shadow_mode. *)
InjectsExecutor(c) == c.trading /\ RunChecks(c) = {}

Boot(c) ==
  /\ phase = "down"
  /\ phase' = "up"
  /\ cfg' = c
  /\ failures' = IF c.trading THEN RunChecks(c) ELSE {}
  /\ shadow' = (~c.trading \/ failures' # {})
  /\ executor' = InjectsExecutor(c)
  /\ svc' = [s \in Services |-> IF Applies(s, c) THEN "running" ELSE "off"]
  /\ delay' = [s \in Services |-> InitialBackoff]
  /\ left' = [s \in Services |-> 0]
  /\ window' = StopWindow
  /\ todo' = 0
  /\ row' \in {"open", "none"}    \* _record_run_start() may fail
  /\ UNCHANGED db

-----------------------------------------------------------------------------
(* _run_service().                                                         *)

(* Motor 1 leaves its loop between ticks, never within one. *)
Left(s) == IF s = Motor1 THEN 0 ELSE todo

Crash(s) ==
  /\ svc[s] = "running"
  /\ svc' = [svc EXCEPT ![s] = IF Stopping THEN "returned" ELSE "backoff"]
  /\ left' = [left EXCEPT ![s] = IF Stopping THEN 0 ELSE delay[s]]
  /\ todo' = Left(s)
  /\ UNCHANGED <<phase, boot, delay, window, row, db>>

Return(s) ==
  /\ svc[s] = "running"
  /\ s \in MayReturn \/ Stopping
  /\ s = Motor1 => todo = 0
  /\ svc' = [svc EXCEPT ![s] = "returned"]
  /\ UNCHANGED <<phase, boot, delay, left, window, todo, row, db>>

Doubled_Uncapped(d) == 2 * d
Doubled(d) == IF 2 * d < MaxBackoff THEN 2 * d ELSE MaxBackoff

RestartService_Once(s) ==
  /\ svc[s] = "backoff"
  /\ left[s] = 0
  /\ ~Stopping
  /\ delay[s] = InitialBackoff
  /\ svc' = [svc EXCEPT ![s] = "running"]
  /\ delay' = [delay EXCEPT ![s] = Doubled(@)]
  /\ UNCHANGED <<phase, boot, left, window, todo, row, db>>

(* The delay grows with every crash and is never set back, however long    *)
(* the service ran in between.                                             *)
RestartService(s) ==
  /\ svc[s] = "backoff"
  /\ left[s] = 0
  /\ ~Stopping
  /\ svc' = [svc EXCEPT ![s] = "running"]
  /\ delay' = [delay EXCEPT ![s] = Doubled(@)]
  /\ UNCHANGED <<phase, boot, left, window, todo, row, db>>

(* The stop event ends the wait of the back-off. *)
WakeToStop(s) ==
  /\ svc[s] = "backoff"
  /\ Stopping
  /\ svc' = [svc EXCEPT ![s] = "returned"]
  /\ left' = [left EXCEPT ![s] = 0]
  /\ UNCHANGED <<phase, boot, delay, window, todo, row, db>>

-----------------------------------------------------------------------------
(* Motor 1 in its task: the stop event is looked at once per tick.         *)

MotorTick(k) ==
  /\ svc[Motor1] = "running"
  /\ todo = 0
  /\ ~Stopping
  /\ todo' = IF executor THEN k ELSE 0
  /\ shadowDays' = IF shadowDays = -1 THEN 0 ELSE shadowDays  \* its FunnelSnapshot
  /\ UNCHANGED <<phase, boot, tasks, window, row, kill, mismatch>>

Execute ==
  /\ svc[Motor1] = "running"
  /\ todo > 0
  /\ \/ todo' = todo - 1
     \/ todo' = 0            \* execute() raised: the rest of the tick is dropped
  /\ UNCHANGED <<phase, boot, tasks, window, row, db>>

-----------------------------------------------------------------------------
(* Stopping.                                                               *)

RequestShutdown ==
  /\ phase = "up"
  /\ phase' = "stopping"
  /\ UNCHANGED <<boot, tasks, window, todo, row, db>>

CloseWindow_WaitForAll ==
  /\ phase = "stopping"
  /\ \A s \in Services : ~Alive(s)
  /\ phase' = "cancelling"
  /\ UNCHANGED <<boot, tasks, window, todo, row, db>>

(* What was in memory is gone; the tables stay. *)
MemoryGone ==
  /\ phase' = "down"
  /\ failures' = {}
  /\ shadow' = TRUE
  /\ executor' = FALSE
  /\ delay' = [s \in Services |-> InitialBackoff]
  /\ left' = [s \in Services |-> 0]
  /\ window' = 0
  /\ todo' = 0
  /\ UNCHANGED <<cfg, db>>

(* asyncio.wait() ended, every task done or not; the rest is cancelled. *)
CloseWindow ==
  /\ phase = "stopping"
  /\ window = 0 \/ \A s \in Services : ~Alive(s)
  /\ phase' = "cancelling"
  /\ svc' = [s \in Services |-> IF Alive(s) THEN "cancelling" ELSE svc[s]]
  /\ left' = [s \in Services |-> 0]
  /\ UNCHANGED <<boot, delay, window, todo, row, db>>

(* CancelledError is an `except Exception` of no service: a task ends at   *)
(* its await, an execution between two legs included.                      *)
CancelEnds(s) ==
  /\ svc[s] = "cancelling"
  /\ svc' = [svc EXCEPT ![s] = "cancelled"]
  /\ todo' = Left(s)
  /\ UNCHANGED <<phase, boot, delay, left, window, row, db>>

Finish_WithoutGather ==
  /\ phase = "cancelling"
  /\ \/ row' = IF row = "open" THEN "closed" ELSE row
     \/ row' = row
  /\ svc' = [s \in Services |-> "off"]
  /\ MemoryGone

Finish ==
  /\ phase = "cancelling"
  /\ \A s \in Services : svc[s] # "cancelling"
  /\ \/ row' = IF row = "open" THEN "closed" ELSE row
     \/ row' = row           \* the database failed: logged
  /\ svc' = [s \in Services |-> "off"]
  /\ MemoryGone

(* Killed by the system: nothing is written. *)
ProcessDies ==
  /\ phase # "down"
  /\ svc' = [s \in Services |-> "off"]
  /\ UNCHANGED row
  /\ MemoryGone

-----------------------------------------------------------------------------
(* What the database and the clock do meanwhile.                           *)

(* A monthly stop-loss or a human; only a human clears it. *)
KillSwitchMoves ==
  /\ kill' = ~kill
  /\ kill' => phase # "down"
  /\ UNCHANGED <<phase, boot, tasks, window, todo, row, mismatch, shadowDays>>

ReconcileCycle ==
  /\ svc[Reconciler] = "running"
  /\ mismatch' \in BOOLEAN
  /\ UNCHANGED <<phase, boot, tasks, window, todo, row, kill, shadowDays>>

(* The first funnel row ages whether or not the bot is up. *)
DayPasses ==
  /\ shadowDays \in 0 .. ShadowMinDays - 1
  /\ shadowDays' = shadowDays + 1
  /\ UNCHANGED <<phase, boot, tasks, window, todo, row, kill, mismatch>>

Less(t) == IF t = 0 THEN 0 ELSE t - 1

Tick ==
  /\ \/ \E s \in Services : left[s] > 0
     \/ phase = "stopping" /\ window > 0
  /\ left' = [s \in Services |-> Less(left[s])]
  /\ window' = IF phase = "stopping" THEN Less(window) ELSE window
  /\ UNCHANGED <<phase, boot, svc, delay, todo, row, db>>

ServiceStep(s) ==
  \/ Crash(s)
  \/ Return(s)
  \/ RestartService(s)
  \/ WakeToStop(s)
  \/ CancelEnds(s)

Next ==
  \/ \E c \in Configs : Boot(c)
  \/ \E s \in Services : ServiceStep(s)
  \/ \E k \in 0 .. MaxOpps : MotorTick(k)
  \/ Execute
  \/ RequestShutdown
  \/ CloseWindow
  \/ Finish
  \/ ProcessDies
  \/ KillSwitchMoves
  \/ ReconcileCycle
  \/ DayPasses
  \/ Tick

Spec == Init /\ [][Next]_vars

(* Timers fire, a task that is woken or cancelled gets its turn.  Nothing  *)
(* is assumed of what a service does while it runs.                        *)
Fairness ==
  /\ WF_vars(Tick)
  /\ WF_vars(CloseWindow)
  /\ WF_vars(Finish)
  /\ \A s \in Services :
       /\ WF_vars(RestartService(s))
       /\ WF_vars(WakeToStop(s))
       /\ WF_vars(CancelEnds(s))

FairSpec == Spec /\ Fairness

-----------------------------------------------------------------------------
(* Properties.                                                             *)

(* Real orders need a green checklist of this very start: as long as the   *)
(* executor is there or its list is not empty, this process was started    *)
(* with trading on and no failed check, whatever kill switch, verdict or   *)
(* settings have become since; and the start read the database of its own  *)
(* instant, with no kill switch, no mismatch and no short shadow in it     *)
(* (runner.py:192-201, check_no_go.py:172, engine.py:256).                 *)
StartedOnGo == executor \/ todo > 0 => cfg.trading /\ failures = {} /\ ~shadow

GoIsCurrent == executor' /\ ~executor => ~kill /\ ~mismatch /\ ~ShadowTooShort(cfg')

OrdersNeedGo == [][StartedOnGo' /\ GoIsCurrent]_vars

(* A mismatch can heal: in a process with trading on, forced shadow or     *)
(* not, the reconciler that alone can overwrite the verdict is running or  *)
(* about to be restarted (runner.py:46-47, reconcile/service.py:107).      *)
MismatchCanHeal ==
  phase = "up" /\ cfg.trading => Alive(Reconciler)

(* A BotRun row is closed only when no service can write any more          *)
(* (runner.py:223-228).                                                    *)
RowClosedLast ==
  [][row' = "closed" /\ row # "closed" =>
       \A s \in Services : svc[s] \notin {"running", "backoff", "cancelling"}]_vars

(* A crashed service runs again, however often it crashed before, unless   *)
(* the process is stopped (runner.py:129-136).                             *)
CrashedServiceRuns ==
  \A s \in Services : svc[s] = "backoff" ~> svc[s] = "running" \/ phase # "up"

(* A shutdown ends, whatever the services are doing (runner.py:221-230). *)
ShutdownEnds == phase = "stopping" ~> phase = "down"

(* data_capture.py:356: "Data capture: 0 mercados para observar -          *)
(* reintento en 5min".  The coroutine returns after the five minutes, and  *)
(* a service that returned is not started again (runner.py:126).           *)
EmptyDiscoveryRetried ==
  svc["data_capture"] = "returned" ~> svc["data_capture"] = "running" \/ phase # "up"
=============================================================================
