SPECIFICATION Spec
CONSTANTS
    c = c  e = e  s = s  k = k  r1 = r1  x = x  y = y
    Items = {c, s}
    KindOf <- MCKindOf
    Order <- MCOrder
    Unsafe = {}
    Contents = {x, y}
    ByEtag = {"contact"}
    Dav = {}
    ICloud = FALSE
    Calendars = {}
    CalendarOf <- MCCalendarOf
    Limit = 2
    Backed = {c, s}
    Pullers = {"script"}
    Requests = {r1}
    UpsetKinds = {"overlap", "abort", "lost", "disk", "crash"}
    MaxMoves = 1
    MaxCalls = 2
    None = None
INVARIANTS
    TypeOK
    OnlyOverlapsTear
    OkMeansBackedUp
    OkMeansAudited
SYMMETRY Symmetric
