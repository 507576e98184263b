SPECIFICATION Spec
CONSTANTS
    parent = parent
    child = child
    Folders = {parent, child}
    Messages = {m1}
    ListOrder <- MCList
    NameOrder <- MCNames
    Under <- MCUnder
    Kinds <- NoUpsets
    DriftRows = 0
    DriftPct = 0
    MaxMoves = 6
    MaxTime = 0
    None = None
INVARIANTS
    MovesStayFound
CHECK_DEADLOCK FALSE
