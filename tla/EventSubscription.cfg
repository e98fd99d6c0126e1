CONSTANTS
  RECONNECT_BASE = 1
  RECONNECT_MAX = 15
  MaxEmits = 3
SPECIFICATION FairSpec
INVARIANTS
  TypeOK
  NothingLeaks
PROPERTIES
  IsFeed
  AbortEnds
  Reconnects
