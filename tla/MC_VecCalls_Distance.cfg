CONSTANTS
  Half = 4
  OpHalf = 4
  ResultHalf = 32
  Exact = 8
SPECIFICATION Spec
INVARIANT DistanceIsExact
