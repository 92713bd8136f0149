CONSTANTS
  Account = {0, 1, 2}
  Product = {0, 1, 2}
  Instance = {i1, i2}
  MaxHandlers = 3
  IntLimit = 3
  Req <- AllReq
  Faults = {"db"}
  None = None
SPECIFICATION FairSpec
INVARIANTS TypeOK NeverInflated
PROPERTIES LinesKeepOwner Answered
