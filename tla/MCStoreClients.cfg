CONSTANTS
  Backends = {"memory", "redis"}
  DefaultTtl = 1
  MaxTime = 2
  LastDate = 2
  MaxRuns = 2
  MaxFaults = 1
  StateTtl = 1
  ResultTtl = 2
  ErrorTtl = 1
  Tasks = {t1, t2}
  Items = {1}
  MaxCalls = 3
SPECIFICATION Spec
INVARIANTS TypeOK KeepsPromises HandedOutOnce NothingSkipped CountsAddUp
PROPERTIES RangeServed
CHECK_DEADLOCK FALSE
