SPECIFICATION Spec
CONSTANTS
  p = p
  q = q
  Pids = {p, q}
  MaxCommands = 4
  MaxFaults = 2
SYMMETRY Interchangeable
INVARIANTS
  TypeOK
  AllOrNothing
  CoherentData
PROPERTY
  NothingLost
CHECK_DEADLOCK FALSE
