CONSTANTS
  None = None
  NumNodes = 4
  Shapes <- MCShapes
  Thresholds = {4, 5}
  MaxCalls = 2
  MaxPaid = 3
  WarmKeys = {1, 2, 3}
  NFloor = 3
  MinFailures = 1
  MaxRatio = 34
SPECIFICATION FairSpec
INVARIANTS
  TypeOK
  ConsentedSpend
  AlignedRecords
  FailureBudget
PROPERTIES
  NeverHangs
