CONSTANTS
  Versions = {1, 2, 3}
  Promoters = {p1}
  Watchers = {w1}
  Scores = {0, 1, 2}
  Samples = {1, 2}
  MaxRollbacks = 0
  MaxFaults = 1
SPECIFICATION RolloutSpec
PROPERTY PromotionIsEarned
