SPECIFICATION Spec
CONSTANTS
  MaxCount = 28
  PortionSize = 12
  MinStep = 4
  Parts = 3
  Batch = 2
INVARIANTS
  TypeOK
  EachRowOnce
  ChunkInPortion
  MetadataAccepted
CHECK_DEADLOCK FALSE
