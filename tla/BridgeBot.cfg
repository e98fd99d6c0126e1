CONSTANTS
  None = None
  Conv = {c1, c2}
  Name = {n1}
  Dir = {d1, d2}
  Session = {s1, s2}
  MayFail = {"listing", "creating", "prompting", "inTurn", "aborting", "replying"}
  MaxUpdates = 3
  MaxAsks = 1
  MaxCrashes = 1
SPECIFICATION AttendedSpec
INVARIANTS
  TypeOK
  IndexCoherent
  SessionInDirectory
  OwnTurnRouted
PROPERTY
  UpdatesHandled
