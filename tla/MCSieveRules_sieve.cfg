SPECIFICATION Spec
CONSTANTS
    junk = junk  list = list  ghost = ghost  main = main  old = old  spam = spam
    s1 = s1  s2 = s2
    Rules = {junk, list, ghost}
    Parts <- MCParts
    Declares <- MCDeclares
    Needs <- MCNeeds
    Misfiled = {ghost}
    Known <- MCKnown
    Names = {spam}
    NoName = NoName
    Scripts = {main, old}
    Main = main
    Checked = TRUE
    Sessions = {s1, s2}
    Others <- MCOthers
    MaxMoves = 2
    MaxCalls = 3
    None = None
SYMMETRY Symmetric
INVARIANTS
    TypeOK
    FiltersRun
    OkMeansInForce
CHECK_DEADLOCK FALSE
