---------------------------- MODULE MCShopCart ----------------------------
(* Small instances of ShopCart: two accounts (0: unset), one or two products *)
EXTENDS ShopCart

R(op, id, a, p, n) == [op |-> op, id |-> id, account |-> a, product |-> p,
                       num |-> n, checked |-> TRUE]

\* Adds of two accounts, of an unset account, of an unset product, and with a
\* row id of the caller's choice (as the gateway requires one); and every other
\* operation.
AllReq == {R("Add", 0, 1, 1, 1), R("Add", 0, 2, 1, 1), R("Add", 0, 0, 1, 1),
           R("Add", 0, 1, 0, 1), R("Add", 1, 1, 1, 2), R("Add", 2, 1, 2, 1),
           R("List", 0, 2, 0, 0), R("Delete", 0, 1, 1, 0),
           R("Update", 0, 1, 1, 0), R("Update", 0, 1, 1, 2)}
=============================================================================
