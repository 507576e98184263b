SPECIFICATION Spec
CONSTANTS
    inbox = inbox  trash = trash  home = home
    m = m  e = e  card = card  s = s  r1 = r1  r2 = r2
    Folders = {inbox, trash}
    Calendars = {home}
    Drafts = inbox
    Unset = Unset
    NoPlace = NoPlace
    Items = {m, e, card, s}
    KindOf <- MCKindOf
    Sent = trash
    Policies <- MCPolicies
    Configs <- MCConfigs
    Sessions = {r1, r2}
    Crashes = TRUE
    MaxMoves = 1
    MaxCalls = 2
    None = None
INVARIANTS
    TypeOK
    AllowedIsListed
    AuditIsTrue
    OkMeansSeen

    
CONSTRAINT Bounded
CHECK_DEADLOCK FALSE
SYMMETRY Symmetric
