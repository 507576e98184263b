\* A puller and the gc timer on the daemon's handle, an MCP write on its own.
CONSTANTS
  None = None
  shared = shared
  own = own
  calendar = calendar
  mail = mail
  mcp = mcp
  timer = timer
  f = f
  g = g
  Pullers = {calendar, mail}
  Writers = {mcp}
  GcTasks = {timer}
  Locks = {shared, own}
  LockOf <- DaemonHandles
  Paths = {f}
  MaxWrites = 2
  MaxCommits = 2
SPECIFICATION Spec
SYMMETRY Symmetry
INVARIANTS
  TypeOK
  HandleExclusion
  ShaIsOwnCommit
  OkMeansCaptured
  AuditRecorded
CHECK_DEADLOCK FALSE
