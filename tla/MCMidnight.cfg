CONSTANTS
  o1 = o1
  o2 = o2
  p1 = p1
  p2 = p2
  s1 = s1
  s2 = s2
  c1 = c1
  c2 = c2
  Offers = {o1, o2}
  Slots = {s1, s2}
  Campaigns = {c1}
  Purchases = {p1, p2}
  Attempts = {a1, a2}
  Workers = {w1}
  OfferSlot <- TwoSlots
  OfferCampaign <- OneCampaign
  ExpiresAt <- LateExpiry
  PurchaseSlot <- PurchasesInTwoSlots
  Cashback <- MCCashback
  BudgetTotal <- LargeBudget
  DailyLimit <- Limited
  Window <- AlwaysOpen
  DayLength = 1
  Skew = 1
  MaxTime = 1
  NoKey = NoKey
  Nobody = Nobody
  NoOffer = NoOffer
  NoLimit = NoLimit
  Never = Never
  None = None
SYMMETRY Symmetry
SPECIFICATION Spec
INVARIANTS DailyLimitHolds
CHECK_DEADLOCK FALSE
