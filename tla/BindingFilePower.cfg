CONSTANTS
  Missing = Missing
  Unusable = Unusable
  MaxSaves = 2
  Faults = {"power"}
SPECIFICATION Spec
INVARIANT
  CrashSafe
