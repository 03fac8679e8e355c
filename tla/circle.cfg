SPECIFICATION ScenesSpec
CONSTANTS
  u1 = u1  u2 = u2  u3 = u3  c1 = c1  c2 = c2
  None = None
  Users = {u1, u2, u3}
  Clients = {c1}
  Owner <- OwnerOf
  FriendshipIds = {f1, f2}
  RequestIds = {r1, r2}
  InviteIds = {i1, i2, i3}
  Goroutines = {g1, g2}
  Callers = {u1, u2, u3}
  NoBucket = NoBucket
  Burst = 8
  Rate = 2
  Cost = 3
  Crowd = 1
  Stale = 4
  Nobody = Nobody
  Browsers = {b1}
  Requests = {q1, q2}
  WellFormed = {"anna", "ivan", "root"}
  Reserved = {"root"}
  Forms <- TheForms
  MaxUsers = 2
  MaxTokens = 2
INVARIANTS
  ShareOnOwnFriendship
  InvitesBounded
  ServedAsShown
  PeopleAreOne
PROPERTIES
  KeepsPromise
  AcceptanceIsWhole
  HistoryStays
  EvictionUnseen
  TokensStayTrue
SYMMETRY ScenesSymmetry
CHECK_DEADLOCK FALSE
