CONSTANTS
  MaxVectors = 3
  MaxBatch = 2
  MaxDeletes = 1
  MaxLoads = 1
  MaxCreators = 2
SPECIFICATION Spec
INVARIANTS
  CollectionInv
  ExactWhileIdsUnique
PROPERTIES
  RoundTrip
CHECK_DEADLOCK FALSE
