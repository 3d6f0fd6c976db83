CONSTANTS
  Ops = 1
  Modes <- AllModes
SPECIFICATION FairSpec
CHECK_DEADLOCK FALSE
PROPERTIES
  SyncFinishes
