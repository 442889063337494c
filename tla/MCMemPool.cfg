SPECIFICATION PoolSpec
CONSTANTS
  Clients = {c1, c2, c3}
  BufSize = 204800
  UnitSize = 51200
  PageSize = 512
  HwPage = 4096
  UvaOff = 16
  Bytes = {0, 3, 51200, 51201, 150000}
  Garbage = {0, 2}
SYMMETRY MCSymmetry
INVARIANTS
  PoolTypeOK
  PoolSound
  SizeStaysRight
  BlockInBuffer
PROPERTIES
  PoolIsBlockPool
