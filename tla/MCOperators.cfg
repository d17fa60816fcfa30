CONSTANTS
  Users = {boss, clerk}
  Founders = {boss}
  Staff = {clerk}
  Edits = {e1}
  Bootstrapped = {boss}
  Delegated = {"users"}
  Patches = {}
  MaxVersion = 1
  Tokens = {t1, t2}
  Calls = {k1, k2}
  Unissued = Unissued
  NoAccount = NoAccount
  NoRequest = NoRequest
  o1 = o1
  o2 = o2
  Participants = {1, 2, 3}
  Bucket <- MCBucket
  Grid = 3
  VariantCount = 3
  StatusPatches = {k1, k2}
  Assigns = {k1, k2}
  MinN = 3
  ZSquared = 25
  TrendSquared = 5
  MaxEvents = 2
  Clients = {t1, t2}
  Campaigns = {k1, k2}
  Mccs = {1}
  Offers = {o1, o2}
  Purchase <- MCPurchase
  Cashback <- MCCashback
  Channels = {"PUSH"}
  Buckets <- MCBuckets
  Periods = {1}
  MaxTime = 1
  YearLength = 1
  Delay = 0
SYMMETRY Symmetry
SPECIFICATION MCSpec
INVARIANTS OneTokenPerFamily LiveTokensKnowThePassword AssignedOnce WinnerIsBetter ReportsAgree
PROPERTIES ChangesEndTokens RevokedFamiliesEnd
CHECK_DEADLOCK FALSE
