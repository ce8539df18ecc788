SPECIFICATION FairSpec
CONSTANTS
  Objs <- MCObjs
  Kind <- MCKind
  Refs <- MCRefs
  Rank <- MCRank
  Root = "claim"
  Depth = 3
INVARIANTS TypeOK WholeTree
PROPERTY Answered
CHECK_DEADLOCK FALSE
