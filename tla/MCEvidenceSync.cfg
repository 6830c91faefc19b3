SPECIFICATION Spec
CONSTANTS
  u1 = u1
  u2 = u2
  d1 = d1
  d2 = d2
  Uid = {u1, u2}
  Worker = {w1, w2}
  NoDevice = NoDevice
  MaxBatch = 2
  MaxFault = 1
  Device = {d1, d2}
  Event <- TwoDevices
  Batch <- FewBatches
INVARIANTS
  TypeOK
  AtMostOneRow
  AcceptedIsStored
  NothingLost
  PrefixStored
PROPERTIES
  ImplementsStore
CHECK_DEADLOCK FALSE
