SPECIFICATION FairSpec
CONSTANTS
  Pressed <- OrangePurple
  Senders <- Pair
  FirstUuid <- Ann
  CountMod = 2
  MaxPlays = 2
  MaxDownloads = 2
  MaxDrops = 1
INVARIANTS TypeOK NoLostNotice Conservation
PROPERTIES KeepsAudioContract CountsDrain
