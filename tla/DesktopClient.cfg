CONSTANTS
  Task = {t1}
  Infer = {i1}
  Other = {o1}
  Canceller = {c1}
  NoCall = NoCall
  MaxAttempts = 2
  MaxUserCalls = 3
  MaxSockets = 2
SPECIFICATION Spec
INVARIANTS
  DesktopInv
  CallsInv
  LossIsRetried
  ClientKnows
CHECK_DEADLOCK FALSE
