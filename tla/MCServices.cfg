SPECIFICATION MCSpec
CONSTANTS
  NODES = 4
  CAPACITY = 28
  GARBAGE = {0, 9}
  FAILURES = 1
  BOOLWIDTH = 4
  Junk = Junk
INVARIANTS
  RaceFree
  StagesExact
  SortReachesClient
  SearchExact
PROPERTIES
  ServicesEnd
CHECK_DEADLOCK FALSE
