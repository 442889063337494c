SPECIFICATION MCSpec
CONSTANTS
  Daemons = {d1, d2}
  Clients = {c1}
  FileCounts = {0, 2, 3}
  Null = Null
  Garbage = Garbage
  MapFailed = MapFailed
  radix = radix
  copy = copy
  flaky = flaky
  bare = bare
  Radix = Radix
  Other = Other
  Files <- MCFiles
  ServiceOf <- MCServiceOf
  Finit <- MCFinit
  NoEntry = 0
  MAXENTRIES = 5
INVARIANTS
  StartTypeOK
  SameMemory
  ClientsServed
  RegistryConsistent
PROPERTIES
  OneDaemon
  StartEnds
CHECK_DEADLOCK FALSE
