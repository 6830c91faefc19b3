SPECIFICATION Spec
CONSTANTS
  Pad = 2
  MaxTime = 4
  MaxRows = 4
  MaxFault = 1
INVARIANTS
  TypeOK
  ConfirmedSound
  UncertainSound
  OutageEvidenced
  WindowFaithful
CHECK_DEADLOCK FALSE
