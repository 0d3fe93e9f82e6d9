SPECIFICATION FairSpec
CONSTANTS
  Buttons <- TwoButtons
  Senders <- TwoPeople
  Orders <- Mixed
  MaxSent = 3
  MaxFailures = 2
  MaxDrops = 1
  MaxPowerLosses = 1
INVARIANTS TypeOK RightCredit NewestRecording IdsOnFile VersionIsInstalled
CHECK_DEADLOCK FALSE
PROPERTIES OnlyOnwards HandlesAll
