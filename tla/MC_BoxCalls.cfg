CONSTANTS
  Half = 4
  OpHalf = 4
  ResultHalf = 32
  Coords <- MCCoords
  NarrowHalf = 2
SPECIFICATION Spec
INVARIANTS TypeOK EmptyHasNoPoint ContainsIsInclusion IntersectsIsOverlap
  UnionIsLeastBox BoundsInAnyOrder CenterInside
  NarrowingAddsNoPoint
