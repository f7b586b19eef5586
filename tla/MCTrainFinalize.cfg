SPECIFICATION Spec
CONSTANTS
  Configs <- OnlyEarlyStop
  Losses = {0, 1}
  MaxEpoch = 4
  Additional = {1}
  MaxFaults = 1
  Absent = Absent
INVARIANT FinalizationIsReconciled
CHECK_DEADLOCK FALSE
