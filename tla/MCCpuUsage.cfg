SPECIFICATION Spec
CONSTANTS
  Modulus = 6
  FieldCount = 10
  MaxTicks = 8
INVARIANTS
  TypeOK
  ReportTrue
  GuestErrorBounded
CHECK_DEADLOCK FALSE
