CONSTANTS
  Tasks = {t1, t2, t3}
  PoolMaxSize = 2
  HasBaseDir = FALSE
  MayClose = FALSE
  MaxUses = 2
  NumConns = 4
  NoConn = NoConn
SPECIFICATION Spec
CHECK_DEADLOCK FALSE
INVARIANTS PoolBounded
