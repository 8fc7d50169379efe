CONSTANTS
  Half = 4
  OpHalf = 32
  ResultHalf = 32
  Exact = 8
SPECIFICATION Spec
INVARIANTS LengthIsFloor CrossIsExact DotIsExact DistanceExactIfNear RoundTrips
  DivisionRemainder
