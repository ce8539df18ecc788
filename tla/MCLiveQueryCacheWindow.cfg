SPECIFICATION Spec
CONSTANTS
  Queries <- MCOneQuery
  Kinds <- MCKinds
  Unstructured = {}
  Objects <- MCObjects
  KindOf <- MCKindOf
  Reads <- MCOneRead
  MissedDeletes = FALSE
  MaxChanges = 3
INVARIANT ReadIsNotified
CHECK_DEADLOCK FALSE
