SPECIFICATION Spec
CONSTANTS
    MaxObject = 7
    MaxList = 4
    MaxHeld = 2
    MaxCalls = 5
    MaxCoord = 2
    MaxPoints = 4
    FirstRoom = 2
    PointLists <- SomeLists
    Points <- SomePoints
    Affines <- QuarterTurn
INVARIANTS
    Owned
    BoxEncloses
PROPERTY
    ConstKept
CHECK_DEADLOCK FALSE
