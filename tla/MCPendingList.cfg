CONSTANTS
    Ids = {1, 2, 3, 4}
    MaxPush = 4
SPECIFICATION Spec
INVARIANTS
    TypeOK
    ScanIsExact
    AtMostFirstSkipped
    WorkIdsIsLoop
PROPERTIES
    WaitingIsCalled
    KeepsPromise
CHECK_DEADLOCK FALSE
