CONSTANTS
  Tcp = {a}
  Unix = {b, c}
  Token = {t1, t2, t3}
  Message = {infer, admin}
  Granted = {infer}
  Ttl = 2
  MaxTime = 3
  NoToken = NoToken
  Client = {c1, c2}
  Scale = 2
  Rate = 1
  Burst = 20
  MaxClock = 3
  MaxCleanups = 2
SPECIFICATION DaemonSpec
INVARIANTS
  SessionInv
  LimiterInv
  GrantsBounded
  HandledWasValid
