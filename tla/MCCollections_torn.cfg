SPECIFICATION Spec
CONSTANTS
    c = c  e = e  s = s  k = k  r1 = r1  x = x  y = y
    Items = {c, s}
    KindOf <- MCKindOf
    Order <- MCOrder
    Unsafe = {}
    Contents = {x, y}
    ByEtag = {"contact"}
    Dav = {}
    ICloud = FALSE
    Calendars = {}
    CalendarOf <- MCCalendarOf
    Limit = 2
    Backed = {}
    Pullers = {"contact"}
    Requests = {r1}
    UpsetKinds = {"overlap"}
    MaxMoves = 2
    MaxCalls = 2
    None = None
INVARIANT NoneTorn
