SPECIFICATION FairSpec
CONSTANTS
  Saved <- ThreeSaved
  InReach <- LastOnly
  MaxWifiDrops = 3
  MaxSessionDrops = 3
  MaxPlays = 2
INVARIANTS TypeOK OnlineIsSubscribed
CHECK_DEADLOCK FALSE
PROPERTY StaysOnline
