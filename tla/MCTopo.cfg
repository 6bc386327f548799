SPECIFICATION Spec
CONSTANTS
  MaxEdge = 4
  MaxNode = 4
  MaxFace = 4
  LoadedNodes <- MCNodes
  Points <- MCPoints
  Curves <- MCCurves
INVARIANTS
  Planar
  NextIsClockwise
  FacesOK
  FaceTableOK
PROPERTY ImplementsLinks
CHECK_DEADLOCK FALSE
