CONSTANTS
  a = a
  b = b
  s1 = s1
  s2 = s2
  Descs <- TwoDescs
  Quiet <- Nobody
  Senders <- TwoSenders
  MaxRequests = 2
  MaxExits = 0
SPECIFICATION Spec
SYMMETRY SymBoth
INVARIANT NoOrphan
CHECK_DEADLOCK FALSE
