CONSTANTS
  Catalogue <- MCCatalogue
  Children = {c1, c2}
  Requests <- MCRequests
SPECIFICATION Spec
CHECK_DEADLOCK FALSE
INVARIANTS
  TypeOK
  NamesMeanTheSame
  EachResultOnce
  AtMostOneUnwritten
  FailListComplete
