SPECIFICATION EvidenceSpec
CONSTANTS
  u1 = u1  u2 = u2  alfa = alfa  c1 = c1  c2 = c2  p1 = p1  p2 = p2  o1 = o1
  o2 = o2  o3 = o3  s1 = s1  s2 = s2  s3 = s3  w1 = w1  w2 = w2  a1 = a1
  a2 = a2  m1 = m1  m2 = m2  t1 = t1  k1 = k1  k2 = k2  basic = basic  r1 = r1
  r2 = r2  r3 = r3  None = None
  Users = {u1}
  Banks = {alfa}
  ClientIds = {c1}
  PeriodIds = {p1}
  OfferIds = {}
  SelectionIds = {}
  PartnerIds = {}
  AttachmentIds = {a1}
  Moments = {}
  Titles = {}
  Canons = {}
  TierMax <- MCTierMax
  Reqs = {r1, r2}
  Ops = {"CreateBankClient", "CreateOfferPeriod", "DeleteOfferPeriod", "AttachScreenshot", "Save"}
  Spans <- OneMonth
  Days = {1}
  Overrides = {}
  Backfills = {FALSE}
  AttachLists <- NoLists
  Mappings = {None}
INVARIANTS
  UnlinkedReclaimed
CHECK_DEADLOCK FALSE
