CONSTANTS
  Tasks = {t1, t2}
  PoolMaxSize = 1
  HasBaseDir = FALSE
  MayClose = FALSE
  MaxUses = 2
  NumConns = 2
  NoConn = NoConn
SPECIFICATION Spec
CHECK_DEADLOCK FALSE
PROPERTIES WaitingEnds
