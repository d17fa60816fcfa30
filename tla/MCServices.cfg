CONSTANTS
  Calls = {k1, k2, k3, k4}
  Threshold = 3
  Reset = 4
  NotOpen = NotOpen
  p1 = p1
  p2 = p2
  j1 = j1
  w1 = w1
SPECIFICATION MCSpec
INVARIANTS OpenIffFailing
PROPERTIES Recovers EventsAreHandled NothingBlocks LimitsTakeEffect ServesProduction VectorsAdvance
CHECK_DEADLOCK FALSE
