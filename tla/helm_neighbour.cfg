SPECIFICATION Spec
CONSTANTS
  c1 = c1  c2 = c2  n1 = n1  n2 = n2
  Hyphen = "-"
  Clients = {c1, c2}
  Nodes = {n1, n2}
  VMIDs = {1, 2, 3}
  Chart <- Nested
  Foreign <- Nobody
  Calls <- NestedOwners
  Faults = {}
PROPERTIES
  UninstallHitsOwn
