CONSTANTS
  Files = {f1, f2}
  MaxBatch = 1
  ResultIds <- Hashes
  MaxRuns = 2
  Workers = 1
  MaxFaults = 0
SPECIFICATION Spec
PROPERTIES LostIsTakenAgain
CHECK_DEADLOCK FALSE
