SPECIFICATION FairSpec
CONSTANTS
  Callers = {c1, c2}
  Objs <- MCObjs
  Keys <- MCKeys
  keyFn <- MCKeyFn
  Durations <- MCInterval
  TickInterval = 1
  Horizon = 3
INVARIANTS TypeOK ExpsSorted RefHasExp
CHECK_DEADLOCK FALSE
PROPERTIES TimerDrains OnlyLoweredEarly
