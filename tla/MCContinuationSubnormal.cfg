SPECIFICATION Spec
CONSTANTS
  SizeMax = 6
  NormalPowers = 3
  NonzeroPowers = 5
  Settings <- OnlyAdam
  Losses = {0, 1}
  Target = 5
  None = None
INVARIANT EveryCheckpointIsResumable
CHECK_DEADLOCK FALSE
