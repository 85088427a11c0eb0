SPECIFICATION FairSpec
CONSTANTS
  Configs <- MCConfigs
  StartTimes <- MCStartTimes
  Horizon = 10
  MaxOversleep = 2
INVARIANTS
  TypeOK
  SampleBudget
  Spacing
  IndexAdvances
  OneLateSample
  CompletionHonest
PROPERTIES
  ImplementsJob
  Termination
CHECK_DEADLOCK FALSE
