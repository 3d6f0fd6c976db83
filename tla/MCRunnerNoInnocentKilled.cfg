CONSTANTS
  Comps = {c1, c2}
  Kills = {k1}
SPECIFICATION Spec
CHECK_DEADLOCK FALSE
INVARIANTS
  NoInnocentKilled
