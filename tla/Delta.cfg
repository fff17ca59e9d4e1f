CONSTANTS
  Names <- MCNames
  CompressedBits = 2
  BaseBits = 4
  MaxDefinitions = 3
  MaxLen = 4
  Formats <- MCFormats
  Subtract <- SubtractModulo
  Add <- AddModulo
  Columns <- MCColumns
  Garbage <- MCGarbage
  Scratch <- MCScratch
SPECIFICATION Spec
INVARIANTS TypeOK LookupsRight ReferenceIsPredecessor DifferencesInPlace
PROPERTY ImplementsCodec
CHECK_DEADLOCK FALSE
