SPECIFICATION ReportsSpec
CONSTANTS
  s1 = s1
  s2 = s2
  i1 = i1
  a1 = a1
  a2 = a2
  ann = ann
  bob = bob
  editor = editor
  browser = browser
  Null = Null
  Threshold = 2
  Sustained = 2
  Ceiling = 3
  Padding = 4
  Offset = 1
  Day = 3
  MaxTime = 7
  Second = 2
  Week = 2
  MonthStart <- MCMonthStart
  SessionReport <- MCSessionReport
  IdleReport <- MCIdleReport
  AppReport <- MCAppReport
  User <- MCUser
INVARIANTS
  ReportsAddUp
  DayAgrees
  UsageWithinWork
CHECK_DEADLOCK FALSE
