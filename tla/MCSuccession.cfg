\* Three tests: what one leaves behind can outlast a second one.
CONSTANTS
  Tests = 3
  Kinds = {"exchange", "refused", "unknown"}
SPECIFICATION Spec
CHECK_DEADLOCK FALSE
INVARIANTS
  TypeOK
  PassIsOwn
  CleanBusPasses
  NameLeftByKilled
  TimeoutMeansDeaf
