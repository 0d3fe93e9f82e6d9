SPECIFICATION FairSpec
CONSTANTS
  Pads <- TwoPads
  Notified <- Volume
  Toys <- AllToys
  AudioQueueLen = 2
  LedQueueLen = 2
  CountMod = 2
  MaxPosts = 4
CHECK_DEADLOCK FALSE
INVARIANTS TypeOK ButtonsRecover FlagsRecover ImportantIsFlagged StripShowsPlaying StripRests
PROPERTIES KeepsAudioContract WorkShrinks Settles
