SPECIFICATION Spec
CONSTANTS
  u1 = u1  u2 = u2  j1 = j1  j2 = j2  j3 = j3  A = A  B = B
  Missing = Missing  None = None
  Users = {u1, u2}
  JobIds = {j1, j2}
  Batches <- OneOrNone
  MaxImages = 2
  LadderRungs = 1
  PerCallTimeout = 1
  TTL = 0
  SlowLocal = TRUE
PROPERTIES
  JobsEnd
CHECK_DEADLOCK FALSE
