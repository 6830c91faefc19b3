SPECIFICATION Spec
CONSTANTS
  Pad = 1
  MaxTime = 5
  MaxRows = 4
  MaxFault = 0
INVARIANTS
  NotBlamedWhileServing
CHECK_DEADLOCK FALSE
