SPECIFICATION Spec
CONSTANTS
  Names <- NestedNames
  Values <- NestedValues
  Overhead = 3
  MaxTable = 12
  Sizes = {0, 8, 12}
INVARIANTS
  SizesAgree
  EvictionEnds
  FindsNewest
PROPERTIES
  IsEntries
