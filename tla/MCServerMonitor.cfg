SPECIFICATION FairSpec
CONSTANTS
  MONITOR_DEFAULT_INTERVAL_MS = 1000
  MONITOR_MIN_INTERVAL_MS = 100
  MONITOR_MAX_INTERVAL_MS = 3600000
  MONITOR_DEFAULT_DURATION_MS = 60000
  MONITOR_MIN_DURATION_MS = 1000
  MONITOR_MAX_DURATION_MS = 86400000
  Texts <- MCTexts
  Names <- MCNames
  strtol <- MCstrtol
  Lines <- MCLines
  MaxArgs = 5
INVARIANTS
  TypeOK
  SessionConfigOK
  LiveIsTimed
  ExitHonest
PROPERTY EndOfInputEnds
CHECK_DEADLOCK FALSE
