SPECIFICATION FairSpec
CONSTANTS
  Services = {"motor_1_arbitrage", "reconciler", "data_capture"}
  MayReturn = {"data_capture"}
  Configs <- MCConfigs
  InitialBackoff = 1
  MaxBackoff = 2
  StopWindow = 1
  ShadowMinDays = 1
  MaxOpps = 2
PROPERTIES EmptyDiscoveryRetried
