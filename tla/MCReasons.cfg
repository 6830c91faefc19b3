SPECIFICATION Spec
CONSTANTS
  Pad = 2
  Tolerance = 1
  RestartGap = 3
  Jitter = 1
  First = 1
  MaxTime = 6
  Target = {"NETWORK"}
  Outage <- MCOutage
  Null = Null
INVARIANTS
  RebootReal
  OffExplained
  SleepExplained
CHECK_DEADLOCK FALSE
