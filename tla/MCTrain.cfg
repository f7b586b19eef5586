SPECIFICATION FairSpec
CONSTANTS
  Configs <- AllConfigs
  Losses = {0, 1, 2}
  MaxEpoch = 5
  Additional = {1, 2}
  MaxFaults = 2
  Absent = Absent
INVARIANTS
  TypeOK
  EpochsAppliedOnce
  OptimizerSawWholeRun
  ConvergenceEndsTheRun
  SelectedModelIsBest
  OneProvenance
  AlwaysContinuable
PROPERTIES
  BaselineKeptUntilDone
  ImplementsLedger
  InterruptedRunFinishes
CHECK_DEADLOCK FALSE
