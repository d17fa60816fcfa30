CONSTANTS
  Campaigns = {c1, c2, c3}
  Requests = {r1, r2}
  Limit = 2
  TopK = 2
  Concurrency = 2
SPECIFICATION Spec
INVARIANTS ShownIsMarked
CHECK_DEADLOCK FALSE
