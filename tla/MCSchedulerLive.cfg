CONSTANTS
  Task = {t1, t2}
  Caller = {c1}
  Worker = {w1, w2}
  NoTask = NoTask
  Realtime = 0
  Room = 1
  Capacity <- MCCapacity
  TrackSize = 1
SPECIFICATION FairSpec
CHECK_DEADLOCK FALSE
INVARIANTS
  ExclusiveOwnership
  NoTaskLost
PROPERTIES
  SubmitReturns
