SPECIFICATION ImportSpec
CONSTANTS
  Bits = {1, 2, 4, 8}
  TopBit = 8
  MaxClasses = 3
  MaxRows = 9
  CountOf <- MCCountOf
  NumberOf <- MCNumberOf
  Half = 4
  One = 16
  Largest = 448
  Powers = {1, 2, 4, 8, 16, 32, 64, 128, 256, 512, 1024, 2048, 4096, 8192, 16384, 32768, 65536, 131072}
  Missing = Missing
  Cases <- MCCases
  MaxEdits = 1
  FullRows = 3
INVARIANTS
  ImportTypeOK
  QuotaIsExact
  SplitAsDocumented
  ReadAsWritten
  InstalledIsRecorded
  FittedOnTrainingRows
  PreparedAlike
PROPERTY
  ImportEnds
