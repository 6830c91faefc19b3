SPECIFICATION Spec
CONSTANTS
  s1 = s1
  s2 = s2
  i1 = i1
  Null = Null
  Threshold = 2
  Sustained = 2
  Ceiling = 3
  Padding = 4
  Offset = 1
  Day = 3
  MaxTime = 10
  SessionReport <- MCSessionReport
  IdleReport <- MCIdleReport
INVARIANT
  WindowHoldsSegments
CHECK_DEADLOCK FALSE
