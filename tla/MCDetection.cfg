SPECIFICATION Spec
CONSTANTS
  a1 = a1
  a2 = a2
  a3 = a3
  b1 = b1
  b2 = b2
  p1 = p1
  NoGroupId = NoGroupId
  A = A
  B = B
  None = None
  Catalogue <- MCCatalogue
  GroupOf <- MCGroupOf
  NoGroup = NoGroupId
  Rewarded = {a1, a2, p1}
  Wanted = {a1, p1}
  PageSize = 2
  MaxPages = 3
  MaxWatched = 4
  MinLegs = 2
  Listed0 = 4
  MaxClosures = 1
  Books <- MCBooks
  FeeBps = 100
  MinEdge = 1
  MaxEdge = 10
  MinSize = 5
  MaxTrade = 50000
INVARIANTS RecordedIsArbitrage RememberedIsStored ExecutedWasRecorded
CHECK_DEADLOCK FALSE
