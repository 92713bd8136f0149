----------------------------- MODULE MCOrder -----------------------------
(* Small instances of Order: two or three orders of one account or two *)
EXTENDS Order

CONSTANTS o1, o2, o3, l1, l2, l3

Accounts == {1, 2}
OneAccount == [o \in Orders |-> 1]
TwoAccounts == [o \in Orders |-> IF o = o1 THEN 1 ELSE 2]
LastOfAnother == [o \in Orders |-> IF o = o3 THEN 2 ELSE 1]
LinesOfOne == [l \in Line |-> 1]
OneOfAnother == [l \in Line |-> IF l = l3 THEN 2 ELSE 1]
LinesOfTwo == [l \in Line |-> IF l = l1 THEN 1 ELSE 2]

AsMeant == Slip                  \* unpaid orders are closed
=============================================================================
