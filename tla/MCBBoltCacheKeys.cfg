SPECIFICATION Spec
CONSTANTS
  Keys <- MCKeys
  Readers <- MCOneReader
  Requests <- MCRequests
  Failures = FALSE
  MaxVersion = 3
INVARIANTS ReadsAreRight UnspoiltIsPersisted
CHECK_DEADLOCK FALSE
