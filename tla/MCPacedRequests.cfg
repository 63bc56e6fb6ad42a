CONSTANTS
  Tasks = {t1, t2}
  MaxRetries = 1
  BaseDelay = 2
  MaxDelay = 3
  ExponentialBase = 2
  Jitter = {50, 150}
  Starts = {4}
  ClockSteps <- MCClockSteps
  MaxSets = 1
  MaxLate = 1
  GateSequences <- MCGateSequences
  Interval = 3
  GateJitter = 0
  DayLength = 4
  TimeOfDay = 2
  MonthLength = 3
  PoolMaxSize = 1
  MayClose = TRUE
  NoClient = NoClient
  MinInterval = 2
  MaxRequests = 2
  NoTask = NoTask
SPECIFICATION Spec
INVARIANTS TypeOK
PROPERTIES RatePaced GatesHold RequestEnds
CHECK_DEADLOCK FALSE
