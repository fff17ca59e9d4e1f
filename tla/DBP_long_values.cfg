CONSTANTS
  CompressedBits = 4
  BaseBits = 8
  BlockSize = 4
  ClzBits = 4
  UndefinedWidths <- SomeCase
  MinBits = 0
  MaxBlocks = 1
  Values <- FewValues
  Pairs <- NonZeroPairs
  Reference = 0
  Columns <- MCColumns
  Garbage <- MCGarbage
  Scratch <- MCScratch
  Encode <- Identity
  Decode <- Identity
SPECIFICATION Spec
INVARIANT RoundTrip
CHECK_DEADLOCK FALSE
