CONSTANTS
  CompressedBits = 4
  BaseBits = 4
  BitWidth = 3
  BlockSize = 3
  MaxLen = 7
  Reference = 13
  Values <- NearReference
  Columns <- MCColumns
  Garbage <- MCGarbage
  Scratch <- MCScratch
  Encode <- MinusReference
  Decode <- PlusReference
SPECIFICATION Spec
INVARIANTS TypeOK PointersInStep EncodedPrefix DecoderInside StepsMakeCall RoundTrip
PROPERTY ImplementsCodec
CHECK_DEADLOCK FALSE
