CONSTANTS
  MaxItems = 3
  MaxBatch = 2
  MaxTasks = 2
  MaxFaults = 1
  MaxCrashes = 0
SPECIFICATION Spec
PROPERTIES AckedIsServedAfterFaults
