\* Two messages, so that a copy or a late answer of one can meet the other, and two
\* faults, so that one can meet what the other has left; 16 stands for the range of
\* unsigned, 2^32.
CONSTANTS
  Threads = {t1}
  Msgs = 2
  Fds = 8
  Modes <- AllModes
  MaxFaults = 2
  Checks = {"plain", "payload", "fds"}
  UIntRange = 16
SPECIFICATION FairFaultySpec
CHECK_DEADLOCK FALSE
INVARIANTS
  FaultyTypeOK
  PassMeansDelivered
  PassMeansIntact
PROPERTIES
  HarmlessWithoutFaults
  DamageIsNoticed
  NobodyWaitsForTheDead
