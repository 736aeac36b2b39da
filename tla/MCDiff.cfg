CONSTANTS
    Nodes = {1, 2, 3, 4}
    Ways = {1, 2, 3}
    Rels = {1, 2, 3, 5, 7, 8}
    Locs <- MCLocs
    NoLoc = 0
    Scenarios <- MCAll
    MaxRuns = 1
    MayCrash = FALSE
SPECIFICATION Spec
INVARIANTS
    TypeOK
    NodesFollowDiff
    TopologyFollowsDiff
    CurrentLocations
    LinesFollowNodes
    RelationsFollowMembers
    WrittenRelationsHavePoints
    OldVersionsDeleted
    ModifyOutsideCopy
    AreasFollowDiff
    WrittenWayAreas
PROPERTIES
    Finishes
CHECK_DEADLOCK FALSE
