CONSTANTS
  o1 = o1
  o2 = o2
  o3 = o3
  l1 = l1
  l2 = l2
  l3 = l3
  Orders = {o1, o2, o3}
  Line = {l1, l2, l3}
  Account <- Accounts
  acct <- LastOfAnother
  owner <- OneOfAnother
  Stock0 = 3
  Patched = {o1, o2, o3}
  MaxTries = 2
  Fixed = {"account"}
  Faults = {"db", "mq"}
SPECIFICATION Spec
INVARIANTS TypeOK StockFollowsOrder
PROPERTY CartGoesWithOrder
