CONSTANTS
  Files = {f1, f2}
  MaxBatch = 2
  ResultIds <- Hashes
  MaxRuns = 2
  Workers = 1
  MaxFaults = 1
SPECIFICATION Spec
INVARIANTS TypeOK OneLiveBundle NeverForgotten
PROPERTIES Served
CHECK_DEADLOCK FALSE
