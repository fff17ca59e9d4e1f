CONSTANTS
  CompressedBits = 8
  BaseBits = 8
  BlockSize = 8
  ClzBits = 8
  UndefinedWidths <- AnyWidth
  MinBits = 4
  MaxBlocks = 2
  Values <- ValuesThatFit
  Pairs <- UnequalPairs
  Columns <- MCColumns
  Garbage <- MCGarbage
  Scratch <- MCScratch
SPECIFICATION Spec
INVARIANT RoundTrip
CHECK_DEADLOCK FALSE
