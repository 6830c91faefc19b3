SPECIFICATION Spec
CONSTANTS
  w1 = w1
  w2 = w2
  mail = mail
  tool = tool
  edit = edit
  Null = Null
  Worker = {w1, w2}
  Pathless = {tool}
  Upload <- MCUpload
  MaxId = 6
  Threshold = 2
  MaxTime = 4
  MaxRequests = 4
SYMMETRY Symmetric
INVARIANTS
  InventoryExact
  AnsweredIsShown
CHECK_DEADLOCK FALSE
