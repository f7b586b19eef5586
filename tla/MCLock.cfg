SPECIFICATION Spec
CONSTANTS
  Commands = {a, b, c}
  None = None
  Old = Old
SYMMETRY Interchangeable
INVARIANTS
  TypeOK
  ExclusiveUntilDiscard
  CoherentView
CHECK_DEADLOCK FALSE
