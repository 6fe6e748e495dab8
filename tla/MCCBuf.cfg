SPECIFICATION FairSpec
CONSTANTS
  MaxLen = 3
  Bytes = {0, 1}
  Inputs <- MCInputs
  Lengths <- MCLengths
INVARIANTS
  IndicesAgree
PROPERTIES
  UnreadKept
  IsFifo
  CallsReturn
