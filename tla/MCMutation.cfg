SPECIFICATION Spec
CONSTANTS
  Calls = {c1}
  Ops <- MCOps
  Steps = 4
  MaxOthers = 3
INVARIANTS TypeOK SuccessIsOwn NoLostUpdate EffectsAccounted
CHECK_DEADLOCK FALSE
