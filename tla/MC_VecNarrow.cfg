CONSTANTS
  Half = 4
  WideHalf = 16
  OpHalf = 512
  ResultHalf = 512
  Operands <- MCOperands
SPECIFICATION Spec
INVARIANT NarrowTracksWide
