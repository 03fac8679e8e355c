SPECIFICATION ScenesSpec
CONSTANTS
  u1 = u1  u2 = u2  j1 = j1  j2 = j2  j3 = j3  A = A  B = B
  Unread = Unread  Absent = Absent  Missing = Missing  None = None
  Users = {u1, u2}
  JobIds = {j1, j2}
  Batches <- OneOrTwo
  MaxImages = 2
  LadderRungs = 2
  PerCallTimeout = 3
  TTL = 1
  SlowLocal = FALSE
  Screens <- TheScreens
  MaxScreens = 4
  Catalog <- TheCatalog
  Aliases <- TheAliases
  BankName = "mine"
  OtherBanks = {"other"}
  Alike <- TheNames
INVARIANTS
  StoreInStep
  PollMatchesWork
  DeadlineCoversLadder
  CallsBounded
  RowsSurviveSlots
  DraftIsWhatWasRead
  PickingDecidesNothing
PROPERTIES
  EndsStand
SYMMETRY Symmetry
CHECK_DEADLOCK FALSE
