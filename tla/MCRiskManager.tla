--------------------------- MODULE MCRiskManager ---------------------------
(* A small calendar for RiskManager: windows of 2, 3 and 4 dates, a day of *)
(* two ticks, pauses of one and two days, losses of up to 3 units a day    *)
(* against limits of 2, 3 and 4.                                           *)
EXTENDS RiskManager

MCPnl == {-3, -2, 0, 1}
MCPnlSteps == {-3, -2, 1}
MCSizes == 0 .. 2
=============================================================================
