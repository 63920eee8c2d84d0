CONSTANTS
  d1 = d1
  d2 = d2
  Ids <- TwoIds
  MaxSlots = 2
  MaxTimers = 0
  MaxReloads = 1
  MaxJobs = 2
  Android = TRUE
  StatCanFail = FALSE
  CanStall = TRUE
  Losable <- NoIds
  Library <- NoIds
SPECIFICATION FairSpec
PROPERTY QueuedGetsTurn
PROPERTY AbortEndsRun
