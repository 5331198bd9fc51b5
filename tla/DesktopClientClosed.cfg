CONSTANTS
  Task = {t1}
  Infer = {i1}
  Other = {}
  Canceller = {}
  NoCall = NoCall
  MaxAttempts = 2
  MaxUserCalls = 3
  MaxSockets = 2
SPECIFICATION Spec
CHECK_DEADLOCK FALSE
INVARIANT StaysDisconnected
