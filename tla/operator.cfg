SPECIFICATION OperatorSpec
CONSTANTS
  w1 = w1  w2 = w2  p1 = p1  p2 = p2
  None = None
  Workers = {w1, w2}
  Local = {}
  Clients = {w1, w2}
  Names = {p1, p2}
  Pods = {p1, p2}
  VMIDs = {1, 2}
  SpecVMID <- NoVMID
  Hostname <- OwnName
  Calls <- Reconciliations
  Faults = {"reject", "task"}
INVARIANTS
  OperatorTypeOK
  DeletedIsGone
  ExistingIsThere
PROPERTIES
  Settles
  MissingRuns
CHECK_DEADLOCK FALSE
