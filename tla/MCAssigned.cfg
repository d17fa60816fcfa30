CONSTANTS
  Participants = {1}
  Bucket <- MCBucket
  Grid = 4
  VariantCount = 3
  StatusPatches = {1, 2}
  Assigns = {1, 2}
  MinN = 3
  ZSquared = 25
  TrendSquared = 5
  MaxEvents = 2
SPECIFICATION ExperimentSpec
PROPERTY AssignedWhileActive
CHECK_DEADLOCK FALSE
