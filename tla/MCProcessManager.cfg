SPECIFICATION FairSpec
CONSTANTS
  Threads = {t1, t2}
  NoThread = NoThread
  MaxProcesses = 2
  MaxExecutions = 2
  SpawnMayFail = TRUE
INVARIANTS
  TypeOK
  IdsUnique
  PointersGood
  RunningEnds
PROPERTY Ended
CHECK_DEADLOCK FALSE
