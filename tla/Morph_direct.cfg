CONSTANTS
  CompressedBits = 4
  BaseBits = 4
  ByteBits = 4
  Lengths = {8}
  Blocks = {4}
  Widths = {2}
  Sources <- WithoutReference
  Targets <- WithoutReference
  Columns <- MCColumns
  Garbage <- MCGarbage
  Scratch <- MCScratch
SPECIFICATION Spec
INVARIANT DirectMorphRestores
CHECK_DEADLOCK FALSE
