SPECIFICATION FairSpec
CONSTANTS
  SampleCount = 5
  BatchSize = 4
  ThreadCount = 3
  Order <- Shuffled
  BadSets <- NoneOrSome
  MaxBatches = 2
INVARIANTS
  TypeOK
  CallerOwnsModel
  FirstFailureReported
PROPERTIES
  ImplementsSerial
  CallsReturn
