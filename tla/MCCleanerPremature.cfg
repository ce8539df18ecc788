SPECIFICATION Spec
CONSTANTS
  Callers = {c1, c2}
  Objs <- MCObjs
  Keys <- MCOneKey
  keyFn <- MCSameKeyFn
  Durations <- MCInterval
  TickInterval = 1
  Horizon = 6
PROPERTY LastScheduleRespected
CHECK_DEADLOCK FALSE
