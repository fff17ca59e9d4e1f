CONSTANTS
  CompressedBits = 4
  BaseBits = 4
  ByteBits = 2
  Lengths = {0, 1, 2, 3, 4, 5, 6, 7, 13}
  Blocks = {2, 3}
  Widths = {1, 2, 3}
  Sources <- WithReference
  Targets <- WithoutReference
  Columns <- MCColumns
  Garbage <- MCGarbage
  Scratch <- MCScratch
SPECIFICATION Spec
INVARIANTS TypeOK IndirectMorphIsCompression IndirectMorphRestores DirectMorphPrefix
INVARIANTS DirectMorphRestoresBlocks DirectMorphConfined BlockwiseAgrees
CHECK_DEADLOCK FALSE
