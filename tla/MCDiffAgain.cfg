CONSTANTS
    Nodes = {1, 2, 3, 4}
    Ways = {1, 2, 3}
    Rels = {1, 2, 3}
    Locs <- MCLocs
    NoLoc = 0
    Scenarios <- MCFew
    MaxRuns = 2
    MayCrash = TRUE
SPECIFICATION Spec
INVARIANTS
    NodesSurviveCrash
    TopologyFollowsDiff
    LinesFollowNodes
    BystandersUntouched
    OnlyAddedDuplicated
    NothingUpdatedTwice
PROPERTIES
    ChangesAtTheEnd
CHECK_DEADLOCK FALSE
