CONSTANTS
  p1 = p1
  p2 = p2
  p3 = p3
  None = None
  Product <- MCProduct
  Stocked <- MCStocked
  Num0 <- MCNum0
  MaxInt32 = 7
  Handler = {h1, h2, h3}
  Instance = {i1, i2}
  Req <- Sells
  Faults = {"crash"}
SPECIFICATION Spec
SYMMETRY Symmetry
INVARIANTS LockDiscipline FreshUnderLock Conservation NeverOversold
PROPERTIES SellIsAtomic
