SPECIFICATION Spec
CONSTANTS
  MaxExecs = 2
  MaxTrade = 3
  MaxExposure = 5
  Opps <- MCTwoPairs
CONSTRAINT MCDearFirst
INVARIANTS
  PositionsAreTheFills
  CommitmentWithinLimit
  ExposureCoversCommitment
PROPERTIES
  ClosedGateOnlyEndsPair
  ImplementsGate
