CONSTANTS
  c1 = c1
  c2 = c2
  live = live
  vod = vod
  p = p
  q = q
  None = None
  Callers <- TwoCallers
  Kinds <- OneKind
  Playlists <- TwoPlaylists
  MaxJobs = 2
  MaxLoads = 1
  MaxFailures = 2
SPECIFICATION Spec
INVARIANT TypeOK
INVARIANT RowsAreCached
PROPERTY NewestStays
PROPERTY EveryCallResumes
CHECK_DEADLOCK FALSE
