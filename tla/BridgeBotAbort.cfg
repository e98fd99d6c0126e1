CONSTANTS
  None = None
  Conv = {c1}
  Name = {n1}
  Dir = {d1}
  Session = {s1}
  MayFail = {}
  MaxUpdates = 3
  MaxAsks = 1
  MaxCrashes = 0
SPECIFICATION FairSpec
PROPERTY
  AbortInterrupts
CHECK_DEADLOCK FALSE
