SPECIFICATION Spec
CONSTANTS
  Commands = {a, b, c}
  None = None
  Old = Old
SYMMETRY Interchangeable
INVARIANT Exclusive
CHECK_DEADLOCK FALSE
