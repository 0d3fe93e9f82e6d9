SPECIFICATION Spec
CONSTANTS
  Buttons <- TwoButtons
  Senders <- TwoPeople
  Orders <- JustBoth
  MaxSent = 1
  MaxFailures = 0
  MaxDrops = 0
  MaxPowerLosses = 1
INVARIANT IdsSurvive
CHECK_DEADLOCK FALSE
