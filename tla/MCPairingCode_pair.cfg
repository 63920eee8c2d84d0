CONSTANTS
  c1 = c1
  c2 = c2
  h1 = h1
  h2 = h2
  p1 = p1
  Codes <- TwoCodes
  Handlers <- TwoHandlers
  Calls <- OneCall
  Ttl = 4
  MaxFailures = 3
  Lockout = 3
  MinInterval = 1
  MaxAttempts = 7
SPECIFICATION FairSpec
INVARIANT TypeOK
INVARIANT GuessesBounded
INVARIANT LockoutHeld
PROPERTY ScreenCatchesUp
