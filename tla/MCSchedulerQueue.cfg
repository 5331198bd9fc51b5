CONSTANTS
  Task = {t1, t2, t3}
  Caller = {c1, c2}
  Worker = {w1}
  NoTask = NoTask
  Realtime = 0
  Room = 1
  Capacity <- MCCapacity
  TrackSize = 1
SPECIFICATION Spec
SYMMETRY Symmetry
CHECK_DEADLOCK FALSE
INVARIANTS
  TypeOK
  OvershootBounded
  DoneHasOutcome
  FreedOnceBeforeDeadline
