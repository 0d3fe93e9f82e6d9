SPECIFICATION FairSpec
CONSTANTS
  TouchTimeBle = 3
  TouchTimeVolumn = 2
  AudioQueueLen = 1
  MaxPowerLosses = 0
PROPERTY BleRequestServed
