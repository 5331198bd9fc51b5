CONSTANTS
  Task = {a}
  PoolSize = 2
  Retries = 1
  MaxTransports = 2
SPECIFICATION FairSpec
CHECK_DEADLOCK FALSE
PROPERTY DisconnectClosesAll
