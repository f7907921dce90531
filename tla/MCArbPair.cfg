SPECIFICATION FairSpec
CONSTANTS
  MaxExecs = 1
  MaxTrade = 6
  MaxExposure = 6
  Opps <- MCOnePair
INVARIANTS
  TypeOK
  BooksNeverAhead
  FinalStatusIsTrue
PROPERTIES ExecutionEnds
