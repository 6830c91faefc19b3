SPECIFICATION FairSpec
CONSTANTS
  t1 = t1
  t2 = t2
  long = long
  started = started
  ended = ended
  Null = Null
  Worker = {w1, w2}
  LocalSession = {1, 2}
  LocalItem = {i1}
  Owner <- MCOwner
  Report <- MCReport
  Content <- MCContent
  MaxFault = 1
INVARIANTS
  TypeOK
  OneRowPerLocalId
  StatusMatchesLogout
  ItemInItsSession
  AckedPersists
PROPERTIES
  DurationKept
  EventuallySynced
CHECK_DEADLOCK FALSE
