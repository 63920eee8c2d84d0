CONSTANTS
  d1 = d1
  d2 = d2
  Ids <- TwoIds
  MaxSlots = 1
  MaxTimers = 0
  MaxReloads = 0
  MaxJobs = 1
  Android = FALSE
  StatCanFail = FALSE
  CanStall = FALSE
  Losable <- OneId
  Library <- OneId
SPECIFICATION Spec
INVARIANT ListTellsRuns
INVARIANT UserPauseHolds
PROPERTY DoneStaysDone
