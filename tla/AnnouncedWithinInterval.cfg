SPECIFICATION Spec
CONSTANTS
  Configs <- MCConfigs
  StartTimes <- MCStartTimes
  Horizon = 10
  MaxOversleep = 2
INVARIANT AnnouncedWithinInterval
CHECK_DEADLOCK FALSE
