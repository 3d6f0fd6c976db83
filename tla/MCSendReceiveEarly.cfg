CONSTANTS
  Threads = {t1, t2}
  Msgs = 2
  Fds = 8
  Modes <- AllModes
SPECIFICATION Spec
CHECK_DEADLOCK FALSE
INVARIANTS
  AllAccounted
