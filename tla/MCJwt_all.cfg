CONSTANTS
  Process = {p1, p2, p3}
  Call = {c1, c2, c3}
  Keys = {k1, k2}
  p1 = p1
  p2 = p2
  p3 = p3
  k1 = k1
  k2 = k2
  Key <- KeyOf
  Claims <- SomeClaims
  Day = 2
  MaxTime = 4
  Malformed = Malformed
SYMMETRY Symmetry
SPECIFICATION Spec
INVARIANTS TypeOK ExpiredNeedsRefresh OneIdentity ExpiredIsAuthentic
PROPERTIES RefreshLocksOut
