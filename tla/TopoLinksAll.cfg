SPECIFICATION LinksSpecAll
CONSTANTS
  MaxEdge = 4
  MaxNode = 3
INVARIANT EndsMeet
CHECK_DEADLOCK FALSE
