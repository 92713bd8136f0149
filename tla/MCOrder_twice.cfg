CONSTANTS
  o1 = o1
  o2 = o2
  o3 = o3
  l1 = l1
  l2 = l2
  l3 = l3
  Orders = {o1, o2}
  Line = {l1, l2}
  Account <- Accounts
  acct <- OneAccount
  owner <- LinesOfOne
  Stock0 = 3
  Patched = {o1, o2}
  MaxTries = 2
  Fixed = {"account"}
  Faults = {}
SPECIFICATION Spec
INVARIANT BoughtOnce
