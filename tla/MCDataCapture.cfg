SPECIFICATION Spec
CONSTANTS
  Tokens = {t1, t2}
  Levels = {l1, l2}
  MaxSent = 2
  MaxConnections = 2
  FlushAt = 3
INVARIANTS
  TypeOK
  SyncedIsReplica
  RowsAccountedFor
  ConnectedMeansCurrent
