\* Three operations: a name is requested again after it was released, and up to
\* six signals can be in one iteration of the waiter's loop.
CONSTANTS
  Ops = 3
  Modes <- AllModes
SPECIFICATION FairSpec
CHECK_DEADLOCK FALSE
INVARIANTS
  TypeOK
  NoSignalMissed
  NoSyncLost
  NoOpFails
  TwoSignalsPerOp
  ReceiverNotEarly
PROPERTIES
  BothEndIfSynchronized
