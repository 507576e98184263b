\* The puller and an MCP refresh, two messages, every upset.
CONSTANTS
  None = None
  puller = puller
  refresh = refresh
  a = a
  b = b
  seenFlag = seenFlag
  noFlag = noFlag
  Syncers = {puller, refresh}
  Puller = puller
  Messages = {a, b}
  Flags = {seenFlag, noFlag}
  Held <- OneMessage
  Kinds = {"overlap", "again", "renumber", "crash", "abort", "disk", "index"}
  MaxUid = 2
  MaxMoves = 3
SPECIFICATION FairSpec
INVARIANTS
  TypeOK
  NoneStranded
  NoneStale
  ExactCopyWhenCalm
  IndexAgrees
PROPERTIES
  Converges
