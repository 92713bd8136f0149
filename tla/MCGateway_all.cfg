CONSTANTS
  r1 = r1
  r2 = r2
  r3 = r3
  Req = {r1, r2, r3}
  srv = srv
  noop = noop
SPECIFICATION Spec
SYMMETRY Symmetry
INVARIANTS OwnSpanReported
