SPECIFICATION QuerySpec
CONSTANTS
  Objects <- MCObjects
  UIDs = {"u1", "u2", "u3"}
  Owners = {"p", "q", "r1"}
  ConfigRevisions = {"r1"}
  Namespaces <- MCNamespaces
  Uncached <- MCUncached
  Involved <- MCInvolved
  ObjectRefs <- MCRefs
  GroupKinds = {"K", "Lens"}
  Guess <- MCGuess
  Target = 2
  Cap = 3
  MaxAsked = 2
INVARIANTS
  QueryTypeOK
  MissingIsReported
  AnswersAgree
  WarningsShown
  IdLeadsBack
PROPERTIES
  SameAnswer
  FoundIfKept
