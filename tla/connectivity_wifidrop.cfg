SPECIFICATION FairSpec
CONSTANTS
  Saved <- ThreeSaved
  InReach <- LastOnly
  MaxWifiDrops = 1
  MaxSessionDrops = 1
  MaxPlays = 1
PROPERTY NormalOperation
CHECK_DEADLOCK FALSE
