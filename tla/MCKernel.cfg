CONSTANTS
  Name = {llama, phi, bert}
  MaxModels = 3
  MaxLoads = 4
  NoName = NoName
  Key = {k1, k2, k3}
  Value = {v1, v2}
  Ttl = {0, 1}
  MaxEntries = 2
  MaxStores = 4
  MaxTime = 2
  Null = Null
  TrackSize = 3
  MaxId = 5
  Worker = {w1, w2}
  Temperature = {69, 70, 84, 85, 95, 96}
  NoReading = NoReading
SPECIFICATION KernelSpec
INVARIANTS
  TrackInv
  ModelInv
  ContextInv
  PowerInv
PROPERTIES
  ImplementsResultMap
  HeatSlowsWorkers
CHECK_DEADLOCK FALSE
