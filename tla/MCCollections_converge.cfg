SPECIFICATION FairSpec
CONSTANTS
    c = c  e = e  s = s  k = k  r1 = r1  x = x  y = y
    Items = {e}
    KindOf <- MCKindOf
    Order <- MCOrder
    Unsafe = {}
    Contents = {x, y}
    ByEtag = {"event"}
    Dav = {"event"}
    ICloud = TRUE
    Calendars = {k}
    CalendarOf <- MCCalendarOf
    Limit = 2
    Backed = {}
    Pullers = {"event"}
    Requests = {r1}
    UpsetKinds = {"abort", "lost"}
    MaxMoves = 3
    MaxCalls = 1
    None = None
PROPERTIES
    BackupConverges
