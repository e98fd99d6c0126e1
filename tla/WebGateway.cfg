SPECIFICATION Spec
CONSTANTS
  Upload = {u1, u2}
  Tunnel = {t1}
  MaxCandidates = 2
  MaxBytes = 1
  Other = other
  None = none
INVARIANTS StoredAsAnswered NothingLeftBehind
PROPERTIES NothingLingers
CHECK_DEADLOCK FALSE
