SPECIFICATION Spec
CONSTANTS
    PosBits = 3
    Setups <- MCSetups
INVARIANTS
    CellsMatchColumns
    TagsSurvive
    GeometryReadable
CHECK_DEADLOCK FALSE
