CONSTANTS
  CompressedBits = 8
  BaseBits = 4
  BlockSize = 8
  ClzBits = 4
  UndefinedWidths <- AnyWidth
  MinBits = 0
  MaxBlocks = 2
  Values <- AroundReference
  Pairs <- AllPairs
  Reference = 3
  Columns <- MCColumns
  Garbage <- MCGarbage
  Scratch <- MCScratch
  Encode <- MinusReference
  Decode <- PlusReference
SPECIFICATION Spec
INVARIANTS StreamDescribesItself PrefixSurvives NothingLostSilently
CHECK_DEADLOCK FALSE
