CONSTANTS
  Sub = {"late", "all", "shot"}
  Wild = {"all"}
  OneShot = {"shot"}
  Filtered = {"late", "shot"}
  Priority <- MCPriority
  SubOwner <- MCSubOwner
  Event = {e1, e2}
  Name = {n1, n2, n3}
  Owner = {p, q}
  NoOne = NoOne
  GraphSize = 3
SPECIFICATION ApiSpec
INVARIANTS
  BusInv
  OneShotServed
  RegistryInv
  GraphAgrees
PROPERTIES
  UnloadExact
CHECK_DEADLOCK FALSE
