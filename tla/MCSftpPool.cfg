CONSTANTS
  Tasks = {t1, t2, t3}
  PoolMaxSize = 2
  HasBaseDir = TRUE
  MayClose = TRUE
  MaxUses = 2
  NumConns = 4
  NoConn = NoConn
SPECIFICATION Spec
INVARIANTS TypeOK LeasesAreExclusive TotalIsExact OvershootBounded NobodyWaitsForNothing
PROPERTIES WaiterIsServed
CHECK_DEADLOCK FALSE
