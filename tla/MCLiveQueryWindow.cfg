SPECIFICATION FairSpec
CONSTANTS
  Triggers <- MCTriggers
  NPaths = 1
  Values <- MCValues
  Worlds <- MCWorlds
  Throttle = 2
  MaxChanges = 1
PROPERTY UpdatedWhenDataChanges
CHECK_DEADLOCK FALSE
