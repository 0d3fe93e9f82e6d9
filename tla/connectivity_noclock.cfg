SPECIFICATION FairSpec
CONSTANTS
  Saved <- ThreeSaved
  InReach <- LastOnly
  MaxWifiDrops = 0
  MaxSessionDrops = 0
  MaxPlays = 0
INVARIANT ClockIsAsked
CHECK_DEADLOCK FALSE
