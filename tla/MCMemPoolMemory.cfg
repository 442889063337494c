SPECIFICATION PoolSpec
CONSTANTS
  Clients = {c1, c2}
  BufSize = 204800
  UnitSize = 51200
  PageSize = 512
  HwPage = 4096
  UvaOff = 16
  Bytes = {51200}
  Garbage = {0}
INVARIANTS
  BlocksShareNoMemory
