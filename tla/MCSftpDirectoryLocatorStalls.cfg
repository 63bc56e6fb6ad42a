CONSTANTS
  Files = {f1, f2}
  MaxBatch = 1
  ResultIds <- Hashes
  MaxRuns = 2
  Workers = 1
  MaxFaults = 0
SPECIFICATION Spec
INVARIANTS EmptyAnswerMeansEmptyQueue
CHECK_DEADLOCK FALSE
