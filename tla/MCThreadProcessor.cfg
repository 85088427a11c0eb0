SPECIFICATION FairSpec
CONSTANTS
  ThreadLimit = 2
  DefaultThreads = 2
  Counts = {0, 1, 2, 3}
  Inputs = {0, 1}
  MaxInt = 4
  NoWorker = NoWorker
  MayFail = {"handler", "thread", "unlock"}
  MaxFailures = 1
  MaxPresses = 2
  MaxWindows = 2
INVARIANTS
  TypeOK
  StartsWhatIsShown
  NothingLost
  OutlivesThreads
  CleanUnlessFailed
  ResultsInRange
  NobodyStuck
PROPERTY Responds
  ImplementsCounter
CHECK_DEADLOCK FALSE
