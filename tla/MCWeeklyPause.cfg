SPECIFICATION HSpec
CONSTANTS
  TicksPerDay = 2
  DailyDays = 1
  WeeklyDays = 2
  MonthlyDays = 3
  PauseDaily = 2
  PauseWeekly = 4
  DailyLimit = 2
  WeeklyLimit = 3
  MonthlyLimit = 4
  MaxTrade = 1
  MaxExposure = 2
  MaxOpen = 1
  Sizes <- MCSizes
  Pnl <- MCPnl
  PnlSteps <- MCPnlSteps
PROPERTIES WeeklyPauseLasts
