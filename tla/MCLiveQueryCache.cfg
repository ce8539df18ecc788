SPECIFICATION FairSpec
CONSTANTS
  Queries <- MCQueries
  Kinds <- MCKinds
  Unstructured = {}
  Objects <- MCObjects
  KindOf <- MCKindOf
  Reads <- MCReads
  MissedDeletes = FALSE
  MaxChanges = 2
INVARIANTS TypeOK TrackedIsNotified
PROPERTIES TrackingKept EventuallyFresh
CHECK_DEADLOCK FALSE
