CONSTANTS
  tvA = tvA
  tvB = tvB
  None = None
  Devices <- TwoDevices
  TwoHomed <- OneDevice
  MaxPlays = 2
  MaxPolls = 1
  MaxMisses = 2
  MaxTries = 1
  MaxLoads = 1
SPECIFICATION Spec
INVARIANT TypeOK
INVARIANT TornStaysDown
INVARIANT BackupIsSession
INVARIANT FeedFollows
INVARIANT Watched
CHECK_DEADLOCK FALSE
PROPERTY StartSurvivesIdle
