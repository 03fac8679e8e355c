SPECIFICATION Spec
CONSTANTS
  u1 = u1  u2 = u2  u3 = u3  c1 = c1  c2 = c2
  None = None
  Users = {u1, u2}
  Clients = {c1}
  Owner <- OwnerOf
  FriendshipIds = {f1}
  RequestIds = {r1}
  InviteIds = {i1, i2, i3}
  Goroutines = {g1, g2}
INVARIANTS
  OneLiveInvite
SYMMETRY RowSymmetry
CHECK_DEADLOCK FALSE
