CONSTANTS
    Nodes = {1, 2, 3, 4}
    Ways = {1, 2, 3, 4}
    Rels = {1, 2, 3}
    Locs <- MCLocs
    NoLoc = 0
    Scenarios <- MCTroubled
    MaxRuns = 1
    MayCrash = FALSE
SPECIFICATION Spec
INVARIANTS
    FailuresExplained
    NoRowsLost
CHECK_DEADLOCK FALSE
