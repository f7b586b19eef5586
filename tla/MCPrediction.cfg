SPECIFICATION Spec
CONSTANT
  Requests <- MCRequests
INVARIANT
  TypeOK
PROPERTIES
  ImplementsDocument
  PredictionEnds
CHECK_DEADLOCK FALSE
