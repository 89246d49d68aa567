SPECIFICATION Spec
CONSTANTS
  s1 = s1  s2 = s2  p1 = p1  p2 = p2  p3 = p3  p4 = p4  k1 = k1  k2 = k2
  None = None
  Codes <- TwoSessions
  Pairs <- FourPairs
  Calls <- TwoCalls
SYMMETRY Alike
INVARIANT TypeOK
INVARIANT EndsForAReason
CHECK_DEADLOCK FALSE
