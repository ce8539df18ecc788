SPECIFICATION Spec
CONSTANTS
  r1 = r1
  r2 = r2
  Ids <- MCOneId
  Requests <- MCRequests
  MaxSessions = 3
  Expiry = 2

PROPERTY ExpiresOnlyIdle
CHECK_DEADLOCK FALSE
