----------------------------- MODULE ShopCart -----------------------------
(***************************************************************************)
(* The shop cart service (mic_part4/cartorder_srv/biz/shopcart.go): gRPC    *)
(* handlers of several instances on one MySQL table of cart lines.  No      *)
(* handler opens a transaction or takes a lock; each database call is one   *)
(* autocommitted statement.  The two order operations that delete lines are *)
(* not reachable (see Order) and lines are never removed.                   *)
(*                                                                          *)
(* An id 0 is proto3's unset: gorm leaves the zero fields of a struct       *)
(* condition out of the WHERE clause.                                       *)
(***************************************************************************)
EXTENDS Integers

CONSTANTS
    Account,      \* account ids, 0 included when callers may leave it out
    Product,      \* product ids
    Instance,     \* running processes
    MaxHandlers,  \* how many requests there may be, each handled once
    Req,          \* the requests clients may send
    IntLimit,     \* int32 is -IntLimit .. IntLimit - 1
    Faults,       \* {"db"}: a statement may fail
    None

Op == {"List", "Add", "Delete", "Update"}
Handler == 1 .. MaxHandlers
Int32 == -IntLimit .. IntLimit - 1
Request == [op: Op, id: Nat, account: Account, product: Product,
            num: Int32, checked: BOOLEAN]

ASSUME IntAssumption == IntLimit \in Nat \ {0}
ASSUME IdAssumption == Account \subseteq Nat /\ Product \subseteq Nat /\ MaxHandlers \in Nat
ASSUME ReqAssumption == Req \subseteq Request
ASSUME NoneAssumption == None \notin Instance

VARIABLES
    cart,         \* the table: row id -> line
    nextId,       \* AUTO_INCREMENT
    pc, at, req,  \* where each handler is, which instance runs it, its request
    sc,           \* the handler's local variable sc, with its ID
    reply,        \* what the handler returned
    asked         \* ghost: what Adds that read the table asked for, by the
                  \* product of the line they found or started

handlers == <<pc, at, req>>
vars == <<cart, nextId, pc, at, req, sc, reply, asked>>

Line == [account: Account, product: Product, num: Int32, checked: BOOLEAN]
NoLine == [account |-> 0, product |-> 0, num |-> 0, checked |-> FALSE]
Rows == DOMAIN cart
NoReq == [op |-> "List", id |-> 0, account |-> 0, product |-> 0, num |-> 0,
          checked |-> FALSE]

Init ==
    /\ cart = << >>
    /\ nextId = 1
    /\ pc = [h \in Handler |-> "idle"]
    /\ at = [h \in Handler |-> None]
    /\ req = [h \in Handler |-> NoReq]
    /\ sc = [h \in Handler |-> [id |-> 0, line |-> NoLine]]
    /\ reply = [h \in Handler |-> "none"]
    /\ asked = [p \in Product |-> 0]

\* WHERE account_id=? AND product_id=?, without the fields that are zero
Matches(account, product) ==
    {id \in Rows : /\ account = 0 \/ cart[id].account = account
                   /\ product = 0 \/ cart[id].product = product}

\* First orders by primary key
First(S) == CHOOSE id \in S : \A other \in S : id <= other

Answer(h, r) ==
    /\ pc' = [pc EXCEPT ![h] = "done"]
    /\ reply' = [reply EXCEPT ![h] = r]
    /\ UNCHANGED <<at, req>>

Arrive(h, i, r) ==
    /\ pc[h] = "idle"
    /\ pc' = [pc EXCEPT ![h] = r.op]
    /\ at' = [at EXCEPT ![h] = i]
    /\ req' = [req EXCEPT ![h] = r]
    /\ UNCHANGED <<cart, nextId, sc, reply, asked>>

Running(h) == pc[h] \notin {"idle", "done", "dead"}

\* The process of instance i dies with all it was doing.
Die(i) ==
    /\ pc' = [h \in Handler |-> IF at[h] = i /\ Running(h) THEN "dead" ELSE pc[h]]
    /\ UNCHANGED <<cart, nextId, at, req, sc, reply, asked>>

\* An empty cart is answered with a nil list.  Otherwise the loop appends to
\* cList.ItemList while cList is nil: the goroutine panics, and nothing
\* recovers it.
ShopCartItemList(h) ==
    /\ pc[h] = "List"
    /\ \/ /\ Matches(req[h].account, 0) = {}
          /\ Answer(h, "OK")
          /\ UNCHANGED <<cart, nextId, sc, asked>>
       \/ /\ "db" \in Faults
          /\ Answer(h, "ParamError")
          /\ UNCHANGED <<cart, nextId, sc, asked>>
       \/ /\ Matches(req[h].account, 0) # {}
          /\ Die(at[h])

\* Mutant: an existing line is rebuilt from the request
MutAddRead(h) ==
    /\ pc[h] = "Add"
    /\ LET r == req[h]
           found == Matches(r.account, r.product)
       IN sc' = [sc EXCEPT ![h] =
            [id |-> IF found = {} THEN r.id ELSE First(found),
             line |-> [account |-> r.account, product |-> r.product,
                       num |-> r.num, checked |-> r.checked]]]
    /\ pc' = [pc EXCEPT ![h] = "save"]
    /\ asked' = [asked EXCEPT ![sc'[h].line.product] = @ + req[h].num]
    /\ UNCHANGED <<cart, nextId, at, req, reply>>

\* Mutant: the lookup is repeated until it finds a line
MutAddWait(h) ==
    /\ pc[h] = "Add"
    /\ LET r == req[h]
           found == Matches(r.account, r.product)
       IN \/ /\ found = {}
             /\ UNCHANGED vars
          \/ /\ found # {}
             /\ sc' = [sc EXCEPT ![h] = [id |-> First(found), line |-> cart[First(found)]]]
             /\ pc' = [pc EXCEPT ![h] = "save"]
             /\ asked' = [asked EXCEPT ![sc'[h].line.product] = @ + req[h].num]
             /\ UNCHANGED <<cart, nextId, at, req, reply>>

Wrapped(n) == ((n + IntLimit) % (2 * IntLimit)) - IntLimit

\* A line that is found gets more of its product, in int32, and the request's mark.
Added(line, r) == [line EXCEPT !.num = Wrapped(@ + r.num), !.checked = r.checked]

\* AddShopCartItem reads the first line of the account and product.  If it has
\* none, or the SELECT fails, it starts one from the request, with the request's
\* id if that names one.
AddRead(h) ==
    /\ pc[h] = "Add"
    /\ LET r == req[h]
           found == Matches(r.account, r.product)
       IN \/ /\ found = {} \/ "db" \in Faults
             /\ sc' = [sc EXCEPT ![h] =
                  [id |-> r.id,
                   line |-> [account |-> r.account, product |-> r.product,
                             num |-> r.num, checked |-> r.checked]]]
          \/ /\ found # {}
             /\ sc' = [sc EXCEPT ![h] =
                  [id |-> First(found), line |-> Added(cart[First(found)], r)]]
    /\ pc' = [pc EXCEPT ![h] = "save"]
    /\ asked' = [asked EXCEPT ![sc'[h].line.product] = @ + req[h].num]
    /\ UNCHANGED <<cart, nextId, at, req, reply>>

\* Mutants: Create instead of Save; Save without AUTO_INCREMENT
MutCreate(h) ==
    /\ pc[h] = "save"
    /\ cart' = [j \in Rows \cup {nextId} |-> IF j = nextId THEN sc[h].line ELSE cart[j]]
    /\ nextId' = nextId + 1
    /\ Answer(h, "OK")
    /\ UNCHANGED <<sc, asked>>
MutNoAutoIncrement(h) ==
    /\ pc[h] = "save"
    /\ cart' = [j \in Rows \cup {sc[h].id} |->
                   IF j = sc[h].id THEN sc[h].line ELSE cart[j]]
    /\ Answer(h, "OK")
    /\ UNCHANGED <<nextId, sc, asked>>

\* internal.DB.Save(&sc): without an id an INSERT, else an UPDATE of every
\* column of that row, or an INSERT with that id when there is none.
AddSave(h) ==
    /\ pc[h] = "save"
    /\ LET id == IF sc[h].id = 0 THEN nextId ELSE sc[h].id IN
       /\ cart' = [j \in Rows \cup {id} |-> IF j = id THEN sc[h].line ELSE cart[j]]
       /\ nextId' = IF id < nextId THEN nextId ELSE id + 1
       /\ sc' = [sc EXCEPT ![h].id = id]
    /\ Answer(h, "OK")
    /\ UNCHANGED asked

\* The result of Save is not looked at.
AddSaveFails(h) ==
    /\ "db" \in Faults
    /\ pc[h] = "save"
    /\ Answer(h, "OK")
    /\ UNCHANGED <<cart, nextId, sc, asked>>

\* Delete(&model.ShopCart{AccountId, ProductId}) has no primary key and no
\* Where: gorm refuses it (ErrMissingWhereClause) before sending anything.
DeleteShopCart(h) ==
    /\ pc[h] = "Delete"
    /\ Answer(h, "ShopCartNotFound")
    /\ UNCHANGED <<cart, nextId, sc, asked>>

\* UpdateShopCartItem changes the struct it read and never saves it.
UpdateShopCartItem(h) ==
    /\ pc[h] = "Update"
    /\ LET found == Matches(req[h].account, req[h].product)
       IN \/ /\ found = {} \/ "db" \in Faults
             /\ Answer(h, "ShopCartNotFound")
          \/ /\ found # {}
             /\ Answer(h, IF req[h].num < 1 THEN "ParamError" ELSE "OK")
    /\ UNCHANGED <<cart, nextId, sc, asked>>

Handle(h) ==
    \/ ShopCartItemList(h) \/ AddRead(h) \/ AddSave(h) \/ AddSaveFails(h)
    \/ DeleteShopCart(h) \/ UpdateShopCartItem(h)

Terminating ==
    /\ \A h \in Handler : pc[h] \in {"done", "dead"}
    /\ UNCHANGED vars

Next ==
    \/ \E h \in Handler, i \in Instance, r \in Req : Arrive(h, i, r)
    \/ \E h \in Handler : Handle(h)
    \/ Terminating

Spec == Init /\ [][Next]_vars

\* Handlers never wait for each other: a goroutine that can run does.
FairSpec == Spec /\ \A h \in Handler : WF_vars(Handle(h))

-----------------------------------------------------------------------------
(* Properties *)

TypeOK ==
    /\ Rows \subseteq 1 .. nextId - 1
    /\ \A id \in Rows : cart[id] \in Line
    /\ nextId \in Nat \ {0}
    /\ pc \in [Handler -> {"idle", "save", "done", "dead"} \cup Op]
    /\ at \in [Handler -> Instance \cup {None}]
    /\ req \in [Handler -> Req \cup {NoReq}]
    /\ sc \in [Handler -> [id: Nat, line: Line \cup {NoLine}]]
    /\ reply \in [Handler -> {"none", "OK", "ShopCartNotFound", "ParamError"}]
    /\ asked \in [Product -> Int]

\* The sum of f[1] .. f[n]
Total(f, n) == LET sum[i \in 0 .. n] == IF i = 0 THEN 0 ELSE sum[i - 1] + f[i]
               IN  sum[n]

\* How much of product p the rows hold, added up in the order of their ids
Held(p) == [id \in 1 .. nextId - 1 |->
               IF id \in Rows /\ cart[id].product = p THEN cart[id].num ELSE 0]
InCart(p) == Total(Held(p), nextId - 1)

\* Whatever the interleaving, duplicate line and overwritten row, the cart never
\* holds more of a product than Adds asked for (shopcart.go:37-47): no stale
\* quantity is counted twice.
NeverInflated == \A p \in Product : InCart(p) <= asked[p]

\* As long as no Add names a row id (shopcart.go:101), no Save moves a line to
\* another account or product, and no line disappears.
NoIdsChosen == \A h \in Handler : req[h].op = "Add" => req[h].id = 0
LinesKeepOwner ==
    [][NoIdsChosen => \A id \in Rows :
          /\ id \in DOMAIN cart'
          /\ cart'[id].account = cart[id].account
          /\ cart'[id].product = cart[id].product]_vars

\* Every request is answered or dies with its instance.
Answered == \A h \in Handler : Running(h) ~> pc[h] \in {"done", "dead"}
=============================================================================
