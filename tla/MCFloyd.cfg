SPECIFICATION FwSpec
CONSTANTS
  MATSIZE = 3
  INF = 7
  WEIGHTS = {1}
  GARBAGE = {0}
  MISSING = 1
  ATTEMPTS = 2
  FAILURES = 1
  OVERTAKES = 1
INVARIANTS
  PassExact
  
CHECK_DEADLOCK FALSE
