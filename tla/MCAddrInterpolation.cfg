SPECIFICATION Spec
CONSTANTS
    Null = Null
    Inputs <- MCInputs
INVARIANTS
    LookupsExact
    DeathExplained
    NumbersFollowWays
CHECK_DEADLOCK FALSE
