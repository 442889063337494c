SPECIFICATION DevSpec
CONSTANTS
  Clients = {c1, c2}
  Items = {i1, i2}
  ModuleCnt = 2
  NULL = NULL
SYMMETRY MCSymmetry
INVARIANTS
  DevTypeOK
  ItemConservation
  NoLostWakeup
  CompletionExact
  SlotExclusive
  ServedSlotHeld
  LoaderIsCallers
