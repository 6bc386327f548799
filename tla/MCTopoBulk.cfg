SPECIFICATION BulkSpec
CONSTANTS
  MaxEdge = 40
  MaxNode = 40
  MaxFace = 12
  MaxCalls = 3
  LoadedNodes <- MCNoNodes
  Points <- MCNone
  Curves <- MCNone
  Lines <- MCLines
  Polygons <- MCPolygons
  Places <- MCPlaces
  Spots <- MCSpots
INVARIANTS
  Labelled
  LinesSewn
  PointsPlaced
  PolygonsCovered
  QueriesAgree
