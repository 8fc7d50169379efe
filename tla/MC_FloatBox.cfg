CONSTANTS
  NaN = NaN
  Top = 2
  Coords = {0, 1}
SPECIFICATION Spec
INVARIANTS TypeOK QueriesDespiteNaN NaNIsOfFirst
