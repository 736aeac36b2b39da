CONSTANTS
    Nodes = {1, 2, 3, 4}
    Ways = {1, 2, 3}
    Rels = {1, 2, 3}
    Locs <- MCLocs
    NoLoc = 0
    Scenarios <- MCFew
    MaxRuns = 1
    MayCrash = FALSE
SPECIFICATION Spec
INVARIANTS
    WrittenRelationsHaveLines
CHECK_DEADLOCK FALSE
