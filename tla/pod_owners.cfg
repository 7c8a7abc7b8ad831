SPECIFICATION Spec
CONSTANTS
  c1 = c1  c2 = c2  c3 = c3  p1 = p1  p2 = p2  h = h
  None = None
  Local = {c2}
  Clients = {c1, c2}
  Names = {p1, p2}
  Pods = {p1, p2}
  VMIDs = {1, 2}
  SpecVMID <- NoVMID
  Hostname <- OwnName
  Calls <- Owners
  Faults = {"reject", "task", "output", "halt"}
INVARIANTS
  TypeOK
  UniqueName
PROPERTIES
  DeleteHitsOwn
  GoneWhenReported
  ApplyReportsOwn
  ImplementsRegistry
