SPECIFICATION LinksSpec
CONSTANTS
  MaxEdge = 4
  MaxNode = 3
INVARIANTS
  LinksOK
  OneRotation
  RemEdgeArraysFit
CHECK_DEADLOCK FALSE
