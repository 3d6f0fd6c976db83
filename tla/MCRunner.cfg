\* Two components and two services: the largest of the shapes the tests use
\* has two components, the error tests have one service each.
CONSTANTS
  Comps = {c1, c2}
  Kills = {k1, k2}
SPECIFICATION FairSpec
CHECK_DEADLOCK FALSE
INVARIANTS
  TypeOK
  VerdictIsEarned
  PromiseSetOnce
  WaitHasChild
  NothingLeftBehind
  TwoPossibilities
PROPERTIES
  TestEnds
  RefinesTestRun
