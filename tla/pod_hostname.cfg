SPECIFICATION Spec
CONSTANTS
  c1 = c1  c2 = c2  c3 = c3  p1 = p1  p2 = p2  h = h
  None = None
  Local = {}
  Clients = {c1}
  Names = {p1, h}
  Pods = {p1}
  VMIDs = {1, 2}
  SpecVMID <- NoVMID
  Hostname <- OtherName
  Calls <- Owners
  Faults = {}
INVARIANTS
  UniqueName
