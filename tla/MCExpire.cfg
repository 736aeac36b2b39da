SPECIFICATION Spec
CONSTANTS
    World = 8
    Beyond = 3
    IntBits = 6
    LongLength = 5
    LongDegrees = 1
    MaxGeometries = 1
    Options <- MCOptions
    Nodes <- MCNodes
    Lines <- MCLines
INVARIANTS
    PassedTilesExpired
    OnlyTouchedTilesExpired
    ListFollowsTiles
CHECK_DEADLOCK FALSE
