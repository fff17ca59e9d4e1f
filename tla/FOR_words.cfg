CONSTANTS
  CompressedBits = 4
  BaseBits = 4
  BlockSize = 4
  ClzBits = 4
  UndefinedWidths <- AnyWidth
  MinBits = 8
  MaxBlocks = 2
  Values <- ValuesThatFit
  Pairs <- UnequalPairs
  Columns <- MCColumns
  Garbage <- MCGarbage
  Scratch <- MCScratch
SPECIFICATION Spec
INVARIANTS TypeOK StreamDescribesItself DecoderInStep
PROPERTY ImplementsCodec
CHECK_DEADLOCK FALSE
