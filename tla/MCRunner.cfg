SPECIFICATION FairSpec
CONSTANTS
  Services = {"motor_1_arbitrage", "reconciler"}
  MayReturn = {}
  Configs <- MCConfigs
  InitialBackoff = 1
  MaxBackoff = 3
  StopWindow = 2
  ShadowMinDays = 1
  MaxOpps = 2
INVARIANTS
  TypeOK
  MismatchCanHeal
PROPERTIES
  OrdersNeedGo
  RowClosedLast
  CrashedServiceRuns
  ShutdownEnds
