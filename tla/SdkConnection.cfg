CONSTANTS
  Unary = {r1, r2}
  Streaming = {s1}
  MaxPending = 2
  MaxConnects = 2
  MaxWire = 1
SPECIFICATION FairSpec
INVARIANTS
  ConnectionInv
  NoDeafWaiter
  LeftoversExplained
PROPERTIES
  WaitEnds
CHECK_DEADLOCK FALSE
