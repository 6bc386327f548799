SPECIFICATION TextSpec
CONSTANTS
  Digits <- MCDigits
  Geometries <- MCGeometries
  Options <- MCOptions
INVARIANTS
  TextFits
  WellFormed
  ShowsPoints
