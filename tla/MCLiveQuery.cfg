SPECIFICATION FairSpec
CONSTANTS
  Triggers <- MCTriggers
  NPaths = 2
  Values <- MCValues
  Worlds <- MCWorlds
  Throttle = 2
  MaxChanges = 2
INVARIANTS TypeOK RefreshMatchesWaiter NoLostChange ClientInSync
PROPERTIES KeepsPromise Convergence AllReturn
CHECK_DEADLOCK FALSE
