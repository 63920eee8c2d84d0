CONSTANTS
  a = a
  b = b
  s1 = s1
  s2 = s2
  Descs <- TwoDescs
  Quiet <- OneQuiet
  Senders <- TwoSenders
  MaxRequests = 3
  MaxExits = 1
SPECIFICATION FairSpec
INVARIANT TypeOK
INVARIANT SessionsOwned
INVARIANT LastWordWins
PROPERTY RecordCatchesUp
CHECK_DEADLOCK FALSE
