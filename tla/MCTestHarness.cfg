SPECIFICATION Spec
CONSTANTS
  TestCount = 3
  Blocks = {b1, b2, b3}
  Sizes = {1, 2}
  MaxCalls = 5
INVARIANTS
  TypeOK
  CounterExact
  SuccessEarned
  FailureHasReason
CHECK_DEADLOCK FALSE
