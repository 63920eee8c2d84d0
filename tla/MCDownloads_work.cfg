CONSTANTS
  d1 = d1
  d2 = d2
  Ids <- TwoIds
  MaxSlots = 2
  MaxTimers = 0
  MaxReloads = 0
  MaxJobs = 2
  Android = FALSE
  StatCanFail = FALSE
  CanStall = TRUE
  Losable <- OneId
  Library <- OneId
SPECIFICATION Spec
PROPERTY JobsSpareUnfinished
