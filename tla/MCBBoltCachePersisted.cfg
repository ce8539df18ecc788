SPECIFICATION Spec
CONSTANTS
  Keys <- MCOneKey
  Readers <- MCReaders
  Requests <- MCRequests
  Failures = FALSE
  MaxVersion = 2
INVARIANT ZeroedIsPersisted
CHECK_DEADLOCK FALSE
