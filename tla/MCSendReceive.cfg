CONSTANTS
  Threads = {t1, t2}
  Msgs = 2
  Fds = 8
  Modes <- AllModes
SPECIFICATION FairSpec
CHECK_DEADLOCK FALSE
INVARIANTS
  TypeOK
  FdsWithinLimit
  NoCallRefused
  NoSignalMissed
  NoUnderflow
  NoReplyLost
  AccountedUnlessExposed
PROPERTIES
  BothEndIfAccounted
  RefinesExchange
