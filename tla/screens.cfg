SPECIFICATION ScenesSpec
CONSTANTS
  None = None  me = me  friend = friend
  MonthDays = 2
  LastDay = 12
  AllPurchases <- all
  Clients <- TheClients
  Periods <- ThePeriods
  Programs <- ThePrograms
  Members <- TheMembers
  Viewer = me
  Others = {friend}
  Offers <- FeedOffers
  PartnerOffers <- ThePartners
  Shareable <- TheGrants
  Days = {1, 2, 3}
  Ops = {"overview", "lookup", "board", "browse", "helper"}
  Categories = {1, 2, 3}
  Shifting = FALSE
INVARIANTS
  FriendsOnlyAdd
  OfferedIsPickable
  ScreensTellTheSame
  TornIsHarmless
CHECK_DEADLOCK FALSE
