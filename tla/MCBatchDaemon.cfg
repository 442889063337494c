SPECIFICATION BatchSpec
CONSTANTS
  MAXBATCH = 2
  Sizes = {4}
  Keys = {1, 2}
INVARIANTS
  EveryBatchReturned
CHECK_DEADLOCK FALSE
