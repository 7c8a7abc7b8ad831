SPECIFICATION FairSpec
CONSTANTS
  n1 = n1  n2 = n2
  None = None
  NodeList <- TwoNodes
  VMIDs = {1, 2}
  Home <- MovableAndLocal
  Names = {"web"}
  Reachable = {n2}
  Readers = {"r"}
INVARIANTS
  TypeOK
  EventsTellState
  SnapshotAgrees
PROPERTIES
  EventsApply
  ConsumerConverges
  StaysCaughtUp
  StopsWhenAsked
