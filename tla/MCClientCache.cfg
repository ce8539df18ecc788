SPECIFICATION FairSpec
CONSTANTS
  r1 = r1
  r2 = r2
  Ids <- MCIds
  Requests <- MCRequests
  MaxSessions = 2
  Expiry = 1
INVARIANTS TypeOK ActiveIffLive OwnClient
PROPERTY AllReturn
CHECK_DEADLOCK FALSE
