CONSTANTS
  CompressedBits = 8
  BaseBits = 4
  BlockSize = 8
  ClzBits = 4
  UndefinedWidths <- AnyWidth
  MinBits = 0
  MaxBlocks = 1
  Values <- FewValues
  Pairs <- NonZeroPairs
  Reference = 0
  Columns <- MCColumns
  Garbage <- MCGarbage
  Scratch <- MCScratch
  Encode <- Identity
  Decode <- Identity
SPECIFICATION Spec
INVARIANT SizeCoversOutput
CHECK_DEADLOCK FALSE
