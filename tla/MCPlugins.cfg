CONSTANTS
  Plugin = {"app", "base"}
  Requires <- MCRequires
  LoadOrder <- MCLoadOrder
  KeepsServices = {"app"}
  User = {u1}
  Watcher = w
  MaxInst = 4
  MaxCalls = 3
  MaxFaults = 1
  MaxScans = 1
  Config <- MCConfig
SPECIFICATION Spec
INVARIANTS
  ManagerInv
  LoadedIsComplete
  NothingLeftBehind
PROPERTIES
  DependenciesLoaded
CHECK_DEADLOCK FALSE
