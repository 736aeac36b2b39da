CONSTANTS
    Ids = {1, 2, 3}
    MaxPush = 3
SPECIFICATION Spec
INVARIANT
    EachNonZeroElement
CHECK_DEADLOCK FALSE
