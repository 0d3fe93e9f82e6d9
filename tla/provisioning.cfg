SPECIFICATION FairSpec
CONSTANTS
  home = home
  cafe = cafe
  typo = typo
  Networks <- TwoAndTypo
  Works <- HomeAndCafe
  ListLen = 2
  Incomplete = Incomplete
  NoDelim = NoDelim
  Empty = Empty
  Null = Null
  Torn = Torn
  None = None
  MaxRequests = 3
  MaxScanFails = 1
  MaxPowerLosses = 1
INVARIANTS TypeOK RememberedWasJoined InputIsFresh ToldIsKept
PROPERTIES KeepsRing BleModeEnds
CHECK_DEADLOCK FALSE
