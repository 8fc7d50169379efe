CONSTANTS
  Bases <- MCBases
  Moves <- MCMoves
  Points <- MCPoints
  Quarters = {1, 2}
  MaxSteps = 4
SPECIFICATION Spec
INVARIANTS TypeOK AppliesStepsInTurn InverseUndoes
  TurnsAddUp TransposeReverses ActsLinearly
