SPECIFICATION SysSpec
CONSTANTS
  c1 = c1
  c2 = c2
  Clients <- MCClients
  Items = {i1, i2}
  SrItems = {s1, s2}
  ModuleCnt = 2
  NULL = NULL
  Svc <- SvcOkFlaky
CONSTRAINT WhileOwned
INVARIANTS
  AnswerReachesItsClient
  ServiceRunsInOwnSlot
PROPERTIES
  SyncCallReturns
CHECK_DEADLOCK FALSE
