CONSTANTS
  o1 = o1
  o2 = o2
  p1 = p1
  p2 = p2
  s1 = s1
  s2 = s2
  c1 = c1
  c2 = c2
  Offers = {o1}
  Slots = {s1}
  Campaigns = {c1}
  Purchases = {p1}
  Attempts = {a1}
  Workers = {w1, w2}
  OfferSlot <- OneSlot
  OfferCampaign <- OneCampaign
  ExpiresAt <- OneExpiry
  PurchaseSlot <- PurchasesInOneSlot
  Cashback <- MCCashback
  BudgetTotal <- LargeBudget
  DailyLimit <- Unlimited
  Window <- AlwaysOpen
  DayLength = 2
  Skew = 0
  MaxTime = 1
  NoKey = NoKey
  Nobody = Nobody
  NoOffer = NoOffer
  NoLimit = NoLimit
  Never = Never
  None = None
  q1 = q1
  q2 = q2
  Partitions = {q1, q2}
  Listeners = {l1}
  LogEnd = 2
  MaxChurn = 2
  l1 = l1
  w1 = w1
  w2 = w2
  e1 = e1
  ip = ip
  r1 = r1
  r2 = r2
SPECIFICATION MCSpec
PROPERTIES DueIsPaid AllDone ThrottleHolds
CHECK_DEADLOCK FALSE
