SPECIFICATION Spec
CONSTANTS
  u1 = u1
  u2 = u2
  s1 = s1
  s2 = s2
  k1 = k1
  w1 = w1
  w2 = w2
  Empty = Empty
  NoUuid = NoUuid
  NoToken = NoToken
  NoRow = NoRow
  NoReq = NoReq
  Worker = {w1, w2}
  Uuid = {u1, u2, Empty}
  Serial = {s1, s2, Empty}
  Key = {k1}
  MaxDevices <- MCMaxDevices
  Request <- MCRequest
  Entered <- MCEntered
  MaxId = 3
  LegacySerial <- MCLegacy
  MaxFault = 1
SYMMETRY Threads
INVARIANTS
  TypeOK
  NeverOvercounts
  OvershootBounded
  IdentityUnique
  TokenMatchesRow
PROPERTIES
  BoundForLife
CHECK_DEADLOCK FALSE
