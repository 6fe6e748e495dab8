CONSTANTS
  MaxInteger = 4096
  NameLen = 32
  ValueLen = 64
  BufferSize = 503
  MaxN = 4200
  MaxString = 3
  Symbols <- MCSymbols
  Names <- MCNames
  Indices <- MCIndices

SPECIFICATION Spec
INVARIANTS
  IntegersRead
  StringsRead
  HeadersRead
  CutRefused

CHECK_DEADLOCK FALSE
