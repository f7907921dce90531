SPECIFICATION FairSpec
CONSTANTS
  s1 = s1
  s2 = s2
  e1 = e1
  e2 = e2
  m1 = m1
  None = None
  Sports = {s1, s2}
  Events = {e1, e2}
  SportOf <- MCSportOf
  BookLists <- MCBookLists
  TTL = 1
  QuotaCooldown = 2
  RetryAttempts = 2
  CacheMaxEntries = 3
  SportKeys <- MCSportKeys
  Markets = {m1}
  Fits <- MCFits
  Asks = {35, 52}
  MinBooks = 2
  MinEdge = 30000
  MaxEdge = 150000
  FeeBps = 100
INVARIANTS RememberedIsStored SignalsArePlausible
PROPERTIES CallsAreSpared NoAmbiguousSignal BreakerRearms
