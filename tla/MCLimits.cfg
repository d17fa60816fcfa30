CONSTANTS
  o1 = o1
  o2 = o2
  p1 = p1
  p2 = p2
  o3 = o3
  o4 = o4
  p3 = p3
  s1 = s1
  s2 = s2
  c1 = c1
  c2 = c2
  Offers = {o1, o2, o3, o4}
  Slots = {s1, s2}
  Campaigns = {c1, c2}
  Purchases = {p1, p2, p3}
  Attempts = {a1, a2}
  Workers = {w1, w2}
  OfferSlot <- LimitSlot
  OfferCampaign <- LimitCampaign
  ExpiresAt <- NoExpiry
  PurchaseSlot <- LimitPurchaseSlot
  Cashback <- LimitCashback
  BudgetTotal <- LimitBudget
  DailyLimit <- LimitDaily
  Window <- AlwaysOpen
  DayLength = 1
  Skew = 0
  MaxTime = 1
  NoKey = NoKey
  Nobody = Nobody
  NoOffer = NoOffer
  NoLimit = NoLimit
  Never = Never
  None = None
  CampaignIds = {1, 2}
  Terms <- MCTerms
  PurchaseAmounts = {0, 1, 2, 3, 4, 5, 6, 7}
  ChannelNames = {"POS", "MOBILE"}
  Scores = {1, 2}
  SegmentIds = {1, 2}
  MinAward = 1
  Null = Null
SYMMETRY Symmetry
SPECIFICATION MCSpec
INVARIANTS DailyLimitHolds TermsAgree AnnouncedAtMostOnce BudgetIsTheLedger ChecksHoldAtCommit
PROPERTIES KeepsThePromise
CHECK_DEADLOCK FALSE
