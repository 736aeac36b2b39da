CONSTANTS
    Nodes = {1, 2, 3, 4}
    Ways = {1, 2, 3}
    Rels = {1, 2, 3}
    Locs <- MCLocs
    NoLoc = 0
    Scenarios <- MCNodesOnly
    MaxRuns = 1
    MayCrash = FALSE
SPECIFICATION Spec
INVARIANTS
    AllLinesFollowNodes
CHECK_DEADLOCK FALSE
