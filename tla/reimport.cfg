SPECIFICATION ScenesSpec
CONSTANTS
  u1 = u1  u2 = u2  x1 = x1  x2 = x2  n1 = n1  q1 = q1  q2 = q2  t1 = t1  t2 = t2
  t3 = t3  sa = sa  sb = sb  v1 = v1  v2 = v2  r1 = r1  r2 = r2  i1 = i1  i2 = i2
  i3 = i3  None = None
  Users = {u1, u2}
  Codes = {1, 2, 3, 4}
  Seeded = {1, 2}
  Cats = {x1, x2}
  Notes = {n1}
  PointIds = {q1, q2}
  Titles = {t1, t2, t3}
  CatalogOf <- Catalog
  Sources = {sa, sb}
  Kinds = {"mcc", "class"}
  Values = {v1, v2}
  BandRun = 2
  Documents <- TwiceOnly
  Imports = {i1, i2, i3}
  Reqs = {r1, r2}
  Scrapes <- Scraped
INVARIANT
  SecondImportIsNoOp
CHECK_DEADLOCK FALSE
