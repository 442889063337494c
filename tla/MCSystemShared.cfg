SPECIFICATION SysSpec
CONSTANTS
  c1 = c1
  c2 = c2
  Clients <- MCClients
  Items = {i1, i2, i3}
  SrItems = {s1, s2}
  ModuleCnt = 1
  NULL = NULL
  Svc <- SvcOkFlaky
SYMMETRY ItemSymmetry
CONSTRAINT FewAfterSignal
INVARIANTS
  SysTypeOK
  EveryReadIsOwed
  AnswerFindsRequest
  AnswerReachesItsItem
CHECK_DEADLOCK FALSE
