SPECIFICATION Spec
CONSTANTS
  Buttons <- TwoButtons
  Senders <- TwoPeople
  Orders <- JustBoth
  MaxSent = 1
  MaxFailures = 1
  MaxDrops = 0
  MaxPowerLosses = 0
INVARIANT SuccessIsTrue
CHECK_DEADLOCK FALSE
