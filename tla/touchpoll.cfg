SPECIFICATION Spec
CONSTANTS
  TouchTimeBle = 3
  TouchTimeVolumn = 2
  AudioQueueLen = 2
  MaxPowerLosses = 2
INVARIANTS TypeOK VolumnInRange VolumnPersisted VolumnApplied
PROPERTY VolumnSweeps
