CONSTANTS
  Chunks = 3
  Capacity = 2
  Passes = 3
  Members = 2
  MaxFaults = 2
  Setups <- MCSetups
SPECIFICATION Spec
INVARIANTS TypeOK StoredIsWhole LoadedIsComplete
PROPERTIES ImplementsBundleLife LoadEnds
CHECK_DEADLOCK FALSE
