SPECIFICATION FairSpec
CONSTANTS
  Tokens = {t1, t2}
  MaxContracts = 2
  PauseTicks = 2
  MaxDeaths = 1
  NotAList = NotAList
INVARIANTS TypeOK MismatchStopsTrading SyncedMeansMatched
PROPERTIES DifferenceIsNoticed AgreementHeals
