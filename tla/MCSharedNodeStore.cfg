SPECIFICATION Spec
CONSTANTS
  small = small
  large = large
  Name = {n1, n2, n3}
  Content = {small, large}
  CompressedSize <- SizesOfContent
  TupleSize = 1
  SlotSize = 1
  EntrySize = 1
  MaxSize = 8
  MaxSlots = 5
  MaxContent = 16
SYMMETRY NameSymmetry
INVARIANTS
  TypeOK
  SlotsOwned
  NoFault
  ContentCovered
PROPERTIES
  StoreIsMap
