CONSTANTS
  k1 = k1
  k2 = k2
  s1 = s1
  s2 = s2
  None = None
  NoFile = NoFile
  Keys <- TwoKeys
  Starts <- TwoStarts
  MaxPaired = 1
  MaxConns = 1
  SavesFail = TRUE
SPECIFICATION Spec
SYMMETRY SymTwo
INVARIANT TypeOK
INVARIANT OneListener
INVARIANT ListsAgree
INVARIANT RevokedStaysOut
PROPERTY FileIsStore
