SPECIFICATION Spec
CONSTANTS
  Threads = {t1, t2}
  NoThread = NoThread
  MaxProcesses = 2
  MaxExecutions = 2
  SpawnMayFail = TRUE
INVARIANT StartedOnce
CHECK_DEADLOCK FALSE
