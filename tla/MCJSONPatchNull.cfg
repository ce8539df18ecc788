SPECIFICATION Spec
CONSTANTS
  Fields <- MCFields
  Values = {"a", "null"}
  Null = "null"
  MaxItems = 2
  MaxOps = 3
INVARIANT ValueIsSent
CHECK_DEADLOCK FALSE
