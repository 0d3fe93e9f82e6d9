SPECIFICATION Spec
CONSTANTS
  Pressed <- PurpleRed
  Senders <- Pair
  FirstUuid <- RedBob
  CountMod = 8
  MaxPlays = 1
  MaxDownloads = 0
  MaxDrops = 0
INVARIANT ClearedIsReported
