SPECIFICATION ScenesSpec
CONSTANTS
  u1 = u1  u2 = u2  c1 = c1  c2 = c2  n1 = n1  n2 = n2  k1 = k1  k2 = k2
  q1 = q1  q2 = q2  g1 = g1  g2 = g2  None = None
  Users = {u1, u2}
  Clients = {c1, c2}
  Owner <- OwnerOf
  Names = {n1, n2}
  PerkIds = {k1, k2}
  QuotaIds = {q1, q2}
  MaxEvents = 2
  MaxSnapshots = 1
  Days = {1, 2}
  Sizes = {1, 2}
  Quantities = {0, 1}
  Goroutines = {g1, g2}
INVARIANTS
  WindowsWhole
  CountersTrue
PROPERTY
  ReadingsStand
SYMMETRY Symmetry
CHECK_DEADLOCK FALSE
