SPECIFICATION RunFairSpec
CONSTANTS
  MONITOR_DEFAULT_INTERVAL_MS = 2
  MONITOR_MIN_INTERVAL_MS = 1
  MONITOR_MAX_INTERVAL_MS = 3
  MONITOR_DEFAULT_DURATION_MS = 3
  MONITOR_MIN_DURATION_MS = 2
  MONITOR_MAX_DURATION_MS = 4
  Texts <- MCTexts
  Names <- MCNames
  strtol <- MCstrtol
  Lines <- MCLines
  MaxArgs = 3
  StartTimes = {1}
  Horizon = 5
  MaxOversleep = 1
INVARIANT RunTypeOK
PROPERTIES
  ExitMeansSampled
  ImplementsProgram
CHECK_DEADLOCK FALSE
