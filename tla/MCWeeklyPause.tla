--------------------------- MODULE MCWeeklyPause ---------------------------
(***************************************************************************)
(* RiskManager with a history variable that remembers what the weekly      *)
(* stop-loss promised: weeklyLeft counts down the seven days from the last *)
(* time it fired.  An operator may void the promise, by lifting the pause  *)
(* or by ordering one of his own.                                          *)
(***************************************************************************)
EXTENDS MCRiskManager

VARIABLE weeklyLeft

hvars == <<vars, weeklyLeft>>

HInit == Init /\ weeklyLeft = 0

HCheck ==
  /\ CheckPreTrade \/ \E s \in Sizes : CheckAndReserve(s)
  /\ weeklyLeft' = IF ~kill /\ StopLoss = "weekly" THEN PauseWeekly ELSE weeklyLeft

HTick ==
  /\ Tick
  /\ weeklyLeft' = IF weeklyLeft = 0 THEN 0 ELSE weeklyLeft - 1

HOperator ==
  /\ AdminPause \/ AdminResume
  /\ weeklyLeft' = 0

HOther ==
  /\ \/ ReconcileMismatch
     \/ ClearKillSwitch
     \/ Restart
     \/ \E d \in PnlSteps : RecordPnl(d)
  /\ UNCHANGED weeklyLeft

HNext == HCheck \/ HTick \/ HOperator \/ HOther

HSpec == HInit /\ [][HNext]_hvars

(* "Stop-loss semanal -8% -> pausa 7 dias" (manager.py:6): within seven    *)
(* days of the weekly stop-loss no trade is approved, unless an operator   *)
(* intervened.  pause() at manager.py:100-105 does not keep it: a later    *)
(* 24h pause (reconcile/service.py:74, manager.py:177) replaces the end of *)
(* the running one.                                                        *)
WeeklyPauseLasts == [][reserved' > reserved => weeklyLeft = 0]_hvars
=============================================================================
