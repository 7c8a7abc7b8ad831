SPECIFICATION MCSpec
CONSTANTS
  None = None
  user = user  web = web  old = old  other = other
  Clients = {user}
  Names = {web, old, other}
  Managed = {web, old}
  VMIDs = {10, 100}
  Slots <- TwoRequests
  Timers = 2
  Faults = {"reject", "lost", "task", "halt"}
INVARIANTS
  TypeOK
PROPERTIES
  ScreenConverges
  ScreenStays
  NoSilentStop
