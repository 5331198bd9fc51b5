CONSTANTS
  Task = {a, b}
  PoolSize = 2
  Retries = 2
  MaxTransports = 2
SPECIFICATION FairSpec
INVARIANTS
  PoolInv
  LeakExplained
PROPERTIES
  DisconnectEnds
CHECK_DEADLOCK FALSE
