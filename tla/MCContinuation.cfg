SPECIFICATION Spec
CONSTANTS
  SizeMax = 6
  NormalPowers = 4
  NonzeroPowers = 5
  Settings <- AllSettings
  Losses = {0, 1, 2}
  Target = 5
  None = None
INVARIANTS
  TypeOK
  ResumeIsTransparent
  ControlsFollowHistory
  SavedFilesReload
CHECK_DEADLOCK FALSE
