CONSTANTS
  MaxItems = 3
  MaxBatch = 2
  MaxTasks = 2
  MaxFaults = 2
  MaxCrashes = 1
SPECIFICATION Spec
INVARIANTS TypeOK DeliveredOnce AckedIsKept WindowIntact DeliveredInOrder
PROPERTIES AckedIsServed
