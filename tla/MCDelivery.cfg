CONSTANTS
  q1 = q1
  q2 = q2
  Partitions = {q1, q2}
  Listeners = {l1, l2}
  LogEnd = 2
  Bad <- MCBad
  Stuck <- Nothing
  MaxChurn = 2
  Nobody = Nobody
  Offsets = {0, 1, 2}
  Campaigns = {1, 2}
  Requests = {1, 2, 3}
  Limit = 2
  Offers = {1, 2}
  Reach <- MCReach
  BatchSize = 2
  MaxFaults = 2
  MaxCrashes = 2
  a = a
  b = b
SYMMETRY Symmetry
SPECIFICATION MCSpec
INVARIANTS CommittedIsDone NothingIsLost LoadedOnce ContactPolicy
PROPERTY ChannelIsTrue
CHECK_DEADLOCK FALSE
