CONSTANTS
  CompressedBits = 8
  BaseBits = 8
  BlockSize = 8
  ClzBits = 8
  UndefinedWidths <- FewWidths
  MinBits = 4
  MaxBlocks = 2
  Values <- ValuesAround
  Pairs <- AllPairs
  Columns <- MCColumns
  Garbage <- MCGarbage
  Scratch <- MCScratch
SPECIFICATION Spec
INVARIANTS StreamDescribesItself DecoderInStep PrefixSurvives
CHECK_DEADLOCK FALSE
