---------------------------- MODULE RiskManager ----------------------------
(***************************************************************************)
(* The risk manager, src/risk/manager.py: the operational state it keeps   *)
(* in the database (kill switch, paused_until), the reservation it keeps   *)
(* in memory, the stop-losses over DailyPnL and the pre-trade check.       *)
(*                                                                         *)
(* Time is kept relative, so that no clock has to be bounded: paused_until *)
(* is the number of ticks left until it, a DailyPnL row is indexed by its  *)
(* age in calendar dates (0 is today), and Tick moves both.  A day has     *)
(* TicksPerDay ticks: a pause runs in hours while a loss window runs in    *)
(* dates, and the two expire at different instants.                        *)
(*                                                                         *)
(* Left out: pause_reason and the RiskEvent rows (texts for the operator,  *)
(* no condition of the program reads them).                                *)
(***************************************************************************)
EXTENDS Integers, Functions

CONSTANTS
  TicksPerDay,
  DailyDays, WeeklyDays, MonthlyDays,       \* 1, 7, 30: arguments of _loss_pct_since
  PauseDaily, PauseWeekly,                  \* 24h and 7 days, in ticks
  DailyLimit, WeeklyLimit, MonthlyLimit,    \* 3%, 8%, 15% of the active capital
  MaxTrade, MaxExposure,                    \* 5%, 25% of the active capital
  Sizes,                                    \* sizes a trade may ask for
  Pnl, PnlSteps,                            \* bound on a day's PnL, what a settlement adds
  MaxOpen                                   \* bound on the exposure of the Position rows

ASSUME TimeAssumption ==
  /\ TicksPerDay \in Nat \ {0}
  /\ MonthlyDays \in Nat
  /\ DailyDays \in 0 .. WeeklyDays
  /\ WeeklyDays \in 0 .. MonthlyDays
  /\ PauseDaily \in Nat \ {0}
  /\ PauseWeekly \in Nat
  /\ PauseDaily =< PauseWeekly

ASSUME MoneyAssumption ==
  /\ {MaxTrade, MaxExposure, MaxOpen} \subseteq Nat
  /\ {DailyLimit, WeeklyLimit, MonthlyLimit} \subseteq Nat \ {0}
  /\ Sizes \subseteq Nat
  /\ PnlSteps \subseteq Int
  /\ Pnl \subseteq Int
  /\ 0 \in Pnl

VARIABLES
  kill,       \* operational_state[kill_switch] = "active"
  pauseLeft,  \* ticks until operational_state[paused_until], 0 when past or empty
  pnl,        \* DailyPnL.pnl of the date that lies 0 .. MonthlyDays days back
  hour,       \* ticks since midnight UTC
  openUsd,    \* sum of exposure_usd over the open Position rows
  reserved    \* _reserved_usd of the instance the executor uses

vars == <<kill, pauseLeft, pnl, hour, openUsd, reserved>>

Ages == 0 .. MonthlyDays

TypeOK ==
  /\ kill \in BOOLEAN
  /\ pauseLeft \in 0 .. PauseWeekly
  /\ pnl \in [Ages -> Pnl]
  /\ hour \in 0 .. TicksPerDay - 1
  /\ openUsd \in 0 .. MaxOpen
  /\ reserved \in Nat

Init ==
  /\ kill = FALSE
  /\ pauseLeft = 0
  /\ pnl = [a \in Ages |-> 0]
  /\ hour \in 0 .. TicksPerDay - 1
  /\ openUsd = 0
  /\ reserved = 0

-----------------------------------------------------------------------------
(* Reading the state.                                                      *)

Paused == pauseLeft > 0

(* The cutoff date is included: `days` days back is days + 1 rows. *)
LossSince(days) ==
  LET total == SumFunctionOnSet(pnl, 0 .. days)
  IN  IF total >= 0 THEN 0 ELSE -total

StopLoss_WhilePaused ==
  IF LossSince(MonthlyDays) >= MonthlyLimit THEN "monthly"
  ELSE IF LossSince(WeeklyDays) >= WeeklyLimit THEN "weekly"
  ELSE IF LossSince(DailyDays) >= DailyLimit \/ Paused THEN "daily"
  ELSE "none"

StopLoss ==
  IF LossSince(MonthlyDays) >= MonthlyLimit THEN "monthly"
  ELSE IF LossSince(WeeklyDays) >= WeeklyLimit THEN "weekly"
  ELSE IF LossSince(DailyDays) >= DailyLimit THEN "daily"
  ELSE "none"

CurrentExposure_Bare == openUsd
CurrentExposure == openUsd + reserved

Approved_NoStopLoss(size) ==
  /\ ~kill
  /\ ~Paused
  /\ size =< MaxTrade
  /\ CurrentExposure + size =< MaxExposure
  /\ size > 0

Approved(size) ==
  /\ ~kill
  /\ ~Paused
  /\ StopLoss = "none"
  /\ size =< MaxTrade
  /\ CurrentExposure + size =< MaxExposure
  /\ size > 0

-----------------------------------------------------------------------------
(* The operations.                                                         *)

(* evaluate_stop_losses(): runs whether or not the bot is paused already,  *)
(* so a loss that stays in its window renews the pause at every check.     *)
EvaluateStopLosses ==
  /\ kill' = (kill \/ StopLoss = "monthly")
  /\ pauseLeft' = IF kill THEN pauseLeft
                  ELSE CASE StopLoss = "weekly" -> PauseWeekly
                         [] StopLoss = "daily"  -> PauseDaily
                         [] OTHER               -> pauseLeft

(* check_pre_trade(dry_run=True): its verdict goes to the EdgeWindow row,  *)
(* its stop-loss actions are as real as those of a real order.             *)
CheckPreTrade ==
  /\ EvaluateStopLosses
  /\ UNCHANGED <<pnl, hour, openUsd, reserved>>

CheckAndReserve(size) ==
  /\ EvaluateStopLosses
  /\ reserved' = IF Approved(size) THEN reserved + size ELSE reserved
  /\ UNCHANGED <<pnl, hour, openUsd>>

ReleaseReservation_NoFloor(size) ==
  /\ reserved' = reserved - size
  /\ UNCHANGED <<kill, pauseLeft, pnl, hour, openUsd>>

ReleaseReservation(size) ==
  /\ reserved' = IF size > reserved THEN 0 ELSE reserved - size
  /\ UNCHANGED <<kill, pauseLeft, pnl, hour, openUsd>>

(* pause() writes now + duration over whatever paused_until held. *)
Pause(duration) ==
  /\ pauseLeft' = duration
  /\ UNCHANGED <<kill, pnl, hour, openUsd, reserved>>

AdminPause == Pause(PauseDaily)

ReconcileMismatch == Pause(PauseDaily)

(* POST /admin/resume answers 409 while the kill switch is active. *)
AdminResume ==
  /\ ~kill
  /\ pauseLeft' = 0
  /\ UNCHANGED <<kill, pnl, hour, openUsd, reserved>>

(* scripts/clear_kill_switch.py leaves paused_until as it is. *)
ClearKillSwitch ==
  /\ kill
  /\ kill' = FALSE
  /\ UNCHANGED <<pauseLeft, pnl, hour, openUsd, reserved>>

(* The container restarts: the reservation was only in memory. *)
Restart ==
  /\ reserved' = 0
  /\ UNCHANGED <<kill, pauseLeft, pnl, hour, openUsd>>

-----------------------------------------------------------------------------
(* The world outside the risk manager.                                     *)

AgedPnl == [a \in Ages |-> IF a = 0 THEN 0 ELSE pnl[a - 1]]

(* The clock: at midnight every DailyPnL row becomes one date older. *)
Tick ==
  /\ pauseLeft' = IF pauseLeft = 0 THEN 0 ELSE pauseLeft - 1
  /\ hour' = (hour + 1) % TicksPerDay
  /\ pnl' = IF hour' = 0 THEN AgedPnl ELSE pnl
  /\ UNCHANGED <<kill, openUsd, reserved>>

(* Today's DailyPnL row changes.  No code of the repository writes it: the *)
(* settlement job that the table is made for is outside.                   *)
RecordPnl(d) ==
  /\ pnl[0] + d \in Pnl
  /\ pnl' = [pnl EXCEPT ![0] = @ + d]
  /\ UNCHANGED <<kill, pauseLeft, hour, openUsd, reserved>>

(* The Position table changes: fills are booked, positions are closed. *)
RebookPositions ==
  /\ openUsd' \in 0 .. MaxOpen
  /\ openUsd' # openUsd
  /\ UNCHANGED <<kill, pauseLeft, pnl, hour, reserved>>

Next ==
  \/ CheckPreTrade
  \/ \E s \in Sizes : CheckAndReserve(s)
  \/ \E s \in Sizes : ReleaseReservation(s)
  \/ AdminPause
  \/ ReconcileMismatch
  \/ AdminResume
  \/ ClearKillSwitch
  \/ Restart
  \/ Tick
  \/ \E d \in PnlSteps : RecordPnl(d)
  \/ RebookPositions

Spec == Init /\ [][Next]_vars

(* Only time is sure to go on: a check, an operator or a settlement may    *)
(* never come again.                                                       *)
FairSpec == Spec /\ WF_vars(Tick)

-----------------------------------------------------------------------------
(* Properties.                                                             *)

(* Capital is never committed on top of a loss: in the very step that      *)
(* check_and_reserve() approves, no loss window has reached its limit and  *)
(* neither pause nor kill switch is in force, before and after the step -  *)
(* whatever operators lifted or cleared in between (manager.py:200-242).   *)
LimitReached ==
  \/ LossSince(MonthlyDays) >= MonthlyLimit
  \/ LossSince(WeeklyDays) >= WeeklyLimit
  \/ LossSince(DailyDays) >= DailyLimit

ApprovalsFollowLosses ==
  [][reserved' > reserved =>
       /\ ~LimitReached
       /\ pauseLeft = 0 /\ pauseLeft' = 0
       /\ ~kill /\ ~kill']_vars

(* The pauses of the stop-losses, renewed at every check while the loss is *)
(* in its window, do not feed themselves (manager.py:153-184): unless PnL  *)
(* is recorded again and again, or somebody pauses a bot that has no loss  *)
(* to pause for, or the kill switch is on, the gate keeps coming back to a *)
(* state that would approve.                                               *)
Disturbance ==
  \/ StopLoss = "none" /\ (AdminPause \/ ReconcileMismatch)
  \/ \E d \in PnlSteps : RecordPnl(d)

GateReopens ==
  \/ []<><<Disturbance>>_vars
  \/ []<>(kill \/ (~Paused /\ StopLoss = "none"))

(* The risk manager keeps the promise of RiskGate: only check_and_reserve  *)
(* commits capital, through an open gate and within max_exposure_usd(),    *)
(* and only clear_kill_switch.py leaves the killed state.                  *)
GateState == IF kill THEN "killed" ELSE IF Paused THEN "paused" ELSE "open"

Gate == INSTANCE RiskGate WITH gate <- GateState, booked <- openUsd, held <- reserved

ImplementsGate == Gate!Spec
=============================================================================
