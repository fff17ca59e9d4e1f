CONSTANTS
  CompressedBits = 4
  BaseBits = 8
  BlockSize = 4
  ClzBits = 8
  UndefinedWidths <- AnyWidth
  MinBits = 0
  MaxBlocks = 2
  Values <- AboveReference
  Pairs <- AllPairs
  Reference = 3
  Columns <- MCColumns
  Garbage <- MCGarbage
  Scratch <- MCScratch
  Encode <- MinusReference
  Decode <- PlusReference
SPECIFICATION Spec
INVARIANTS TypeOK StreamDescribesItself DecoderInStep BlocksFillWords SizeCoversOutput
PROPERTY ImplementsCodec
CHECK_DEADLOCK FALSE
