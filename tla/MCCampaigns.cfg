CONSTANTS
  Campaigns = {c1}
  Requests = {r1, r2, r3}
  Rates = {low, high}
  OfferTtl = 1
  MaxTime = 2
  Nobody = Nobody
  boss = boss
  clerk = clerk
  n1 = n1
  n2 = n2
  n3 = n3
  Users = {boss, clerk}
  Founders = {boss}
  Staff = {clerk}
  Edits = {e1}
  Bootstrapped = {}
  Delegated = {"dashboard"}
  Patches = {"dashboard"}
  MaxVersion = 1
  NoAccount = NoAccount
  NoRequest = NoRequest
  Viewers = {boss, clerk}
  Connections = {n1, n2, n3}
  SseTokens = {k1}
  MaxSubscribers = 2
  MaxPerUser = 1
  MaxQueue = 1
  None = None
SPECIFICATION MCSpec
INVARIANTS TermsAreKept LimitsHold
PROPERTIES ActivatedInTime ExpiredIsClosed RevokedStreamsEnd ShutdownDrains
CHECK_DEADLOCK FALSE
