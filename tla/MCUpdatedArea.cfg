CONSTANTS
    Nodes = {1, 2, 3, 4}
    Ways = {1, 2, 3}
    Rels = {2, 3, 5, 7, 8}
    Locs <- MCLocs
    NoLoc = 0
    Scenarios <- MCAreas
    MaxRuns = 1
    MayCrash = FALSE
SPECIFICATION Spec
INVARIANTS
    UpdatedAreasFollow
CHECK_DEADLOCK FALSE
