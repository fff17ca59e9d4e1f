CONSTANTS
  CompressedBits = 2
  BaseBits = 6
  BitWidth = 5
  BlockSize = 3
  MaxLen = 7
  Reference = 0
  Values <- WideValues
  Columns <- MCColumns
  Garbage <- MCGarbage
  Scratch <- MCScratch
  Encode <- Identity
  Decode <- Identity
SPECIFICATION Spec
INVARIANTS PointersInStep BlockImage DamageConfined FrontierKept SizeCoversOutput
CHECK_DEADLOCK FALSE
