SPECIFICATION Spec
CONSTANTS
  Keys <- MCOneKey
  Readers <- MCReaders
  Requests <- MCRequests
  Failures = TRUE
  MaxVersion = 2
INVARIANTS TypeOK TxMatchesReaders ReadsAreRight UnspoiltIsPersisted
CHECK_DEADLOCK FALSE
