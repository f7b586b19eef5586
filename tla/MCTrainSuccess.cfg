SPECIFICATION Spec
CONSTANTS
  Configs <- OnlyConverging
  Losses = {0, 1}
  MaxEpoch = 4
  Additional = {1}
  MaxFaults = 0
  Absent = Absent
INVARIANT SuccessIsPredictable
CHECK_DEADLOCK FALSE
