CONSTANTS
    Nodes = {1, 2, 3, 4}
    Ways = {1, 2, 3}
    Rels = {1, 2, 3}
    Locs <- MCLocs
    NoLoc = 0
    Inputs <- MCInputs
    Troubled <- MCTroubled
    MaxRuns = 2
SPECIFICATION Spec
INVARIANTS
    MembersAtHand
    StreetTags
    WholeTables
    AppendReady
CHECK_DEADLOCK FALSE
