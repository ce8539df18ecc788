SPECIFICATION FairSpec
CONSTANTS
  Keys <- MCOneKey
  Readers <- MCReaders
  Requests <- MCRequests
  Failures = TRUE
  MaxVersion = 1
PROPERTY StartReturns
CHECK_DEADLOCK FALSE
