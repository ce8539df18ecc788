SPECIFICATION Spec
CONSTANTS
  Fields <- MCFields
  Values = {"a", "b"}
  Null = "null"
  MaxItems = 2
  MaxOps = 7
INVARIANT PatchIsRight
CHECK_DEADLOCK FALSE
