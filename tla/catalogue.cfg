SPECIFICATION ScenesSpec
CONSTANTS
  None = None  u1 = u1  u2 = u2  r1 = r1  r2 = r2
  Users = {u1, u2}
  Runners = {r1, r2}
  Banks = {"bank"}
  Titles = {1, 2, 3, 4, 5, 6, 7}
  Normal <- TheNormal
  Slugs = {"food", "fuel"}
  OfferIds = {1}
  Data <- TheReleases
  Orphans <- TheOrphans
  Entries <- Plain
  Edits <- TheEdits
  DeskCodes = {5411, 5541}
  LinkCodes = {5541}
  Glosses = {3}
  MaxRows = 2
INVARIANTS
  SharedIsReleased
  NeverBothSpellings
  CatalogHolds
PROPERTIES
  SeedSparesUsers
  OthersChangeNothing
SYMMETRY Symmetric
