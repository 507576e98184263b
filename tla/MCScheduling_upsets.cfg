\* One meeting, two attendees, every kind of upset.
CONSTANTS
  None = None
  f1 = f1
  u1 = u1
  ann = ann
  bob = bob
  v1 = v1
  v2 = v2
  Files = {f1}
  Uids = {u1}
  UidOf <- OneUidPerFile
  SelfOrganized = {u1}
  Attendees = {ann, bob}
  Events <- SomeEvents
  Kinds = {"refused", "timeout", "unrecorded", "exit", "crash", "sweep", "refresh", "reuse", "abort"}
  MaxMoves = 3
SPECIFICATION Spec
INVARIANTS
  TypeOK
  SequenceOrder
  NoDoubleRequest
  LedgerAudit
  
  
