CONSTANTS
  Missing = Missing
  Unusable = Unusable
  MaxSaves = 4
  Faults = {"io", "kill", "power", "damage"}
SPECIFICATION Spec
INVARIANTS
  TypeOK
  RecoveryInv
PROPERTIES
  GoodCopyKept
  RefinesCell
