SPECIFICATION FairSpec
CONSTANTS
  p1 = p1  p2 = p2  p3 = p3  x = x
  Pods = {p1, p2, p3}
  Others = {x}
  Graphs <- OpenGraphs
  Commands = {"up", "down"}
  MayFail = TRUE
  MayDrift = TRUE
INVARIANTS
  TypeOK
  DependencyOrder
PROPERTIES
  AppliesResolvable
  DownMeansGone
  LoopDescends
  CommandReturns
