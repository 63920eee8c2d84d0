CONSTANTS
  MaxPlays = 4
  HasNative = TRUE
SPECIFICATION Spec
INVARIANT TypeOK
INVARIANT ActiveSounds
INVARIANT TargetIsPlaying
INVARIANT ScreenCanBeLeft
CHECK_DEADLOCK FALSE
PROPERTY KeepsPromise
PROPERTY EveryPlaySettles
