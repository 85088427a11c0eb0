SPECIFICATION Spec
CONSTANTS
  Modulus = 5
  FieldCount = 10
  MaxTicks = 8
INVARIANT GuestsCountedOnce
CHECK_DEADLOCK FALSE
