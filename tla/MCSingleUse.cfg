CONSTANTS
  o1 = o1
  o2 = o2
  p1 = p1
  p2 = p2
  s1 = s1
  s2 = s2
  c1 = c1
  c2 = c2
  Offers = {o1, o2}
  Slots = {s1}
  Campaigns = {c1, c2}
  Purchases = {p1}
  Attempts = {a1, a2}
  Workers = {w1, w2}
  OfferSlot <- OneSlot
  OfferCampaign <- TwoCampaigns
  ExpiresAt <- EarlyExpiry
  PurchaseSlot <- PurchasesInOneSlot
  Cashback <- MCCashback
  BudgetTotal <- LargeBudget
  DailyLimit <- Unlimited
  Window <- AlwaysOpen
  DayLength = 2
  Skew = 0
  MaxTime = 2
  NoKey = NoKey
  Nobody = Nobody
  NoOffer = NoOffer
  NoLimit = NoLimit
  Never = Never
  None = None
SYMMETRY Symmetry
SPECIFICATION Spec
INVARIANTS TypeOK PaidOnce PaidOffersWereAccepted KeyNamesAcceptedOffer
PROPERTIES AnswersAreFinal LiveKeysAreKept
CHECK_DEADLOCK FALSE
