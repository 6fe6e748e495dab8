SPECIFICATION Spec
CONSTANTS
  Names <- NestedNames
  Values <- NestedValues
  Overhead = 3
  MaxTable = 12
  Sizes = {12}
INVARIANTS
  FoundIsEqual
