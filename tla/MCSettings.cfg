SPECIFICATION Spec
CONSTANTS
  Junk = Junk
  Absent = Absent
  Wanted <- Starts
  Offered <- SomeLines
  Models <- SomeModels
  Datasets <- SomeData
  Preprocessings <- SomePreprocessings
  MaxEdits = 2
INVARIANTS
  TypeOK
  ContinuedAlike
  FilesMeanWhatWasAsked
CHECK_DEADLOCK FALSE
