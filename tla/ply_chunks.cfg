SPECIFICATION Spec
CONSTANTS
  MaxCount = 28
  PortionSize = 12
  MinStep = 4
  Parts = 3
  Batch = 2
INVARIANTS
  ClassificationAligned
CHECK_DEADLOCK FALSE
