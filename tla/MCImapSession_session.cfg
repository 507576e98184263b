SPECIFICATION FairSpec
CONSTANTS
    Puller = Puller
    Tool = Tool
    Inbox = Inbox
    Archive = Archive
    Callers <- MCCallers
    Folders <- MCFolders
    FolderOrder <- MCOrder
    Messages = {m1, m2}
    Flags = {Seen}
    Seen = Seen
    MaxSwitches = 2
    MaxUid = 2
    MaxFaults = 1
    MaxCalls = 1
    NoCall = NoCall
    None = None
INVARIANTS
    TypeOK
    Positioned
    UnderCap
PROPERTIES
    NoLoss
    ImplementsMailbox
    WakeUpIsAnswered
