SPECIFICATION Spec
CONSTANTS
  Keys <- MCOneKey
  Readers <- MCReaders
  Requests <- MCRequests
  Failures = FALSE
  MaxVersion = 1
INVARIANT RolledBackByLast
CHECK_DEADLOCK FALSE
