SPECIFICATION Spec
CONSTANTS
  r1 = r1
  r2 = r2
  Ids <- MCOneId
  Requests <- MCRequests
  MaxSessions = 3
  Expiry = 1

PROPERTY RemovedByItself
CHECK_DEADLOCK FALSE
