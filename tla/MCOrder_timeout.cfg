CONSTANTS
  o1 = o1
  o2 = o2
  o3 = o3
  l1 = l1
  l2 = l2
  l3 = l3
  Orders = {o1, o2}
  Line = {l1, l2}
  Account <- Accounts
  acct <- TwoAccounts
  owner <- LinesOfTwo
  Stock0 = 3
  Patched = {o1, o2}
  MaxTries = 2
  Fixed <- AsMeant
  Faults = {"db", "mq", "ack", "lost", "crash"}
SPECIFICATION FairSpec
INVARIANT ReturnedOnce
PROPERTIES SoldIsSettled HalfIsResolved
