SPECIFICATION Spec
CONSTANTS
    parent = parent
    child = child
    Folders = {parent, child}
    Messages = {m1}
    ListOrder <- MCList
    NameOrder <- MCNames
    Under <- MCUnder
    Kinds <- AllKinds
    DriftRows = 0
    DriftPct = 0
    MaxMoves = 4
    MaxTime = 1
    None = None
CONSTRAINT
    Bounded
INVARIANTS
    TypeOK
    RowsHaveFiles
PROPERTIES
    RebuildCovers
CHECK_DEADLOCK FALSE
