CONSTANTS
  d1 = d1
  d2 = d2
  Ids <- TwoIds
  MaxSlots = 2
  MaxTimers = 1
  MaxReloads = 1
  MaxJobs = 2
  Android = FALSE
  StatCanFail = TRUE
  CanStall = TRUE
  Losable <- NoIds
  Library <- NoIds
SPECIFICATION Spec
SYMMETRY SymTwo
INVARIANT TypeOK
INVARIANT QueueSound
INVARIANT ListTellsRuns
PROPERTY ServedInTurn
