SPECIFICATION Spec
CONSTANTS
  Files <- MCFiles
  Sizes <- MCSizes
INVARIANTS
  TypeOK
  AgreesWithFile
CHECK_DEADLOCK FALSE
