SPECIFICATION Spec
CONSTANTS
  Sources <- BoundedSources
  NewIDs = {100}
  KeyValue <- KeyEqualsValue
  Pieces <- SplitAtSeparator
  ReadAs <- NotThemselves
  Unreadable <- NotYAML
INVARIANTS
  TypeOK
  
  BackendsAgree
  Recognised
  RefusedOnlyIfUnusable
CHECK_DEADLOCK FALSE
