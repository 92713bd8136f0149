------------------------------- MODULE Stock -------------------------------
(***************************************************************************)
(* The stock service (microservice_part3/biz/stock.go): gRPC handlers of    *)
(* several instances of the service, each with its own process-wide mutex   *)
(* m, working on one MySQL table of stock rows.                             *)
(*                                                                          *)
(* A handler is one request: the goroutine that gRPC starts for it.  The    *)
(* database is InnoDB as the code uses it: SELECT ... FOR UPDATE and UPDATE *)
(* take the row's exclusive lock until the transaction ends, a plain SELECT *)
(* reads the last committed row without a lock, and a statement that waits  *)
(* for a row lock may be given up by the server (deadlock victim or         *)
(* innodb_lock_wait_timeout), which the code sees as RowsAffected = 0.      *)
(* No code inserts or deletes a stock row: Stocked never changes.           *)
(***************************************************************************)
EXTENDS Integers, Sequences

CONSTANTS
    Product,      \* product ids a request may name
    Stocked,      \* the products that have a row in table stocks
    Instance,     \* running processes of the service (Consul round robin)
    Handler,      \* requests, each handled once
    Req,          \* the requests clients may send
    Num0,         \* initial num of each row
    MaxInt32,     \* largest int32 (a small bound under TLC)
    Faults,       \* which faults of the environment happen
    None          \* no owner, no instance

Int32 == -(MaxInt32 + 1) .. MaxInt32
Op == {"Sell", "SetStock", "StockDetail", "BackStock"}
Item == [p: Product, num: Int32]
Request == [op: Op, items: Seq(Item)]
NoReq == [op |-> "Sell", items |-> << >>]

ASSUME StockedAssumption == Stocked \subseteq Product
ASSUME MaxAssumption == MaxInt32 \in Nat
ASSUME Num0Assumption == Num0 \in [Stocked -> Int32]
ASSUME NoneAssumption == None \notin Handler \cup Instance
ASSUME FaultsAssumption == Faults \subseteq {"crash", "commit", "timeout"}
ASSUME ReqAssumption ==
    /\ Req \subseteq Request
    /\ \A r \in Req : r.op \in {"SetStock", "StockDetail"} => Len(r.items) = 1

VARIABLES
    rows,         \* newest version of each row, uncommitted updates included
    committed,    \* last committed version: what a plain SELECT sees
    rowLock,      \* the handler whose transaction holds the row's lock
    mutex,        \* the handler that holds m, per instance
    pc,           \* where each handler is in its code
    at,           \* the instance that serves the request
    req,          \* the request
    k,            \* Sell: index of the item the loop is at
    stock,        \* the handler's local variable stock
    reply,        \* what the handler returned
    taken,        \* ghost: what the open Sell transaction took so far
    sold,         \* ghost: what committed Sells took
    deducted      \* ghost: handlers whose Sell transaction committed

db == <<rows, committed, rowLock>>
ghosts == <<taken, sold, deducted>>
vars == <<rows, committed, rowLock, mutex, pc, at, req, k, stock, reply,
          taken, sold, deducted>>

Row == [num: Int32, version: Int32]
PC == {"idle", "select", "update", "return", "save", "done", "dead"} \cup Op
Reply == {"none", "OK", "ParamError", "ProductNotFound", "StockNotEnough"}
NoRow == [num |-> 0, version |-> 0]
Nothing == [p \in Stocked |-> 0]

\* Mutant: quantities that do not wrap
MutWrap(x) == x

\* int32 addition and subtraction of two int32 values wrap around
Wrap(x) ==
    IF x > MaxInt32 THEN x - 2 * (MaxInt32 + 1)
    ELSE IF x < -(MaxInt32 + 1) THEN x + 2 * (MaxInt32 + 1)
    ELSE x

Init ==
    /\ rows = [p \in Stocked |-> [num |-> Num0[p], version |-> 0]]
    /\ committed = rows
    /\ rowLock = [p \in Stocked |-> None]
    /\ mutex = [i \in Instance |-> None]
    /\ pc = [h \in Handler |-> "idle"]
    /\ at = [h \in Handler |-> None]
    /\ req = [h \in Handler |-> NoReq]
    /\ k = [h \in Handler |-> 1]
    /\ stock = [h \in Handler |-> NoRow]
    /\ reply = [h \in Handler |-> "none"]
    /\ taken = [h \in Handler |-> Nothing]
    /\ sold = Nothing
    /\ deducted = {}

-----------------------------------------------------------------------------
\* tx.Commit and tx.Rollback (and the server's own rollback of a transaction
\* whose connection is gone), on the rows that h's transaction has locked.
CommitTx(h) ==
    /\ committed' = [p \in Stocked |->
                        IF rowLock[p] = h THEN rows[p] ELSE committed[p]]
    /\ rowLock' = [p \in Stocked |-> IF rowLock[p] = h THEN None ELSE rowLock[p]]
    /\ UNCHANGED rows

RollbackTx(H) ==
    /\ rows' = [p \in Stocked |->
                   IF rowLock[p] \in H THEN committed[p] ELSE rows[p]]
    /\ rowLock' = [p \in Stocked |->
                      IF rowLock[p] \in H THEN None ELSE rowLock[p]]
    /\ UNCHANGED committed

Answer(h, r) ==
    /\ pc' = [pc EXCEPT ![h] = "done"]
    /\ reply' = [reply EXCEPT ![h] = r]

\* The deferred m.Unlock()
Unlock(h) == mutex' = [mutex EXCEPT ![at[h]] = None]

\* A request reaches one of the instances.
Arrive(h, i, r) ==
    /\ pc[h] = "idle"
    /\ pc' = [pc EXCEPT ![h] = r.op]
    /\ at' = [at EXCEPT ![h] = i]
    /\ req' = [req EXCEPT ![h] = r]
    /\ UNCHANGED <<db, mutex, k, stock, reply, ghosts>>

\* internal.DB.Begin() takes no lock; m.Lock() waits for the mutex.
SellLock(h) ==
    /\ pc[h] = "Sell"
    /\ mutex[at[h]] = None
    /\ mutex' = [mutex EXCEPT ![at[h]] = h]
    /\ pc' = [pc EXCEPT ![h] = "select"]
    /\ UNCHANGED <<db, at, req, k, stock, reply, ghosts>>

InLoop(h) == pc[h] = "select" /\ k[h] <= Len(req[h].items)

\* Mutant: an early return that forgets the mutex (no defer)
MutSellFail(h, error) ==
    /\ RollbackTx({h})
    /\ Answer(h, error)
    /\ taken' = [taken EXCEPT ![h] = Nothing]
    /\ UNCHANGED <<mutex, at, req, k, stock, sold, deducted>>

\* An early return of the loop: tx.Rollback(), the error, the deferred Unlock.
SellFail(h, error) ==
    /\ RollbackTx({h})
    /\ Unlock(h)
    /\ Answer(h, error)
    /\ taken' = [taken EXCEPT ![h] = Nothing]
    /\ UNCHANGED <<at, req, k, stock, sold, deducted>>

SellNoRow(h) ==
    /\ InLoop(h)
    /\ req[h].items[k[h]].p \notin Stocked
    /\ SellFail(h, "ProductNotFound")

\* SELECT ... FOR UPDATE waits for another transaction and is given up.
SellDenied(h) ==
    /\ InLoop(h)
    /\ LET p == req[h].items[k[h]].p IN
       p \in Stocked /\ rowLock[p] \notin {None, h}
    /\ SellFail(h, "ProductNotFound")

SellNotEnough(h) ==
    /\ InLoop(h)
    /\ LET item == req[h].items[k[h]] IN
       /\ item.p \in Stocked
       /\ rowLock[item.p] \in {None, h}
       /\ rows[item.p].num < item.num
    /\ SellFail(h, "StockNotEnough")

\* Mutants: a plain SELECT instead of FOR UPDATE; no comparison with the stock
MutPlainSelect(h) ==
    /\ InLoop(h)
    /\ LET item == req[h].items[k[h]] IN
       /\ item.p \in Stocked
       /\ ~(committed[item.p].num < item.num)
       /\ stock' = [stock EXCEPT ![h] =
                       [committed[item.p] EXCEPT !.num = Wrap(@ - item.num)]]
    /\ pc' = [pc EXCEPT ![h] = "update"]
    /\ UNCHANGED <<db, mutex, at, req, k, reply, ghosts>>
MutUncheckedSelect(h) ==
    /\ InLoop(h)
    /\ LET item == req[h].items[k[h]] IN
       /\ item.p \in Stocked
       /\ rowLock[item.p] \in {None, h}
       /\ rowLock' = [rowLock EXCEPT ![item.p] = h]
       /\ stock' = [stock EXCEPT ![h] =
                       [rows[item.p] EXCEPT !.num = Wrap(@ - item.num)]]
    /\ pc' = [pc EXCEPT ![h] = "update"]
    /\ UNCHANGED <<rows, committed, mutex, at, req, k, reply, ghosts>>

\* SELECT ... FOR UPDATE locks and reads the row, and the row covers the item.
SellSelect(h) ==
    /\ InLoop(h)
    /\ LET item == req[h].items[k[h]] IN
       /\ item.p \in Stocked
       /\ rowLock[item.p] \in {None, h}
       /\ ~(rows[item.p].num < item.num)
       /\ rowLock' = [rowLock EXCEPT ![item.p] = h]
       /\ stock' = [stock EXCEPT ![h] =
                       [rows[item.p] EXCEPT !.num = Wrap(@ - item.num)]]
    /\ pc' = [pc EXCEPT ![h] = "update"]
    /\ UNCHANGED <<rows, committed, mutex, at, req, k, reply, ghosts>>

\* Mutant: the update goes through internal.DB instead of tx
MutSellUpdate(h) ==
    /\ pc[h] = "update"
    /\ LET item == req[h].items[k[h]] IN
       /\ rows' = [rows EXCEPT ![item.p].num = stock[h].num]
       /\ committed' = [committed EXCEPT ![item.p].num = stock[h].num]
       /\ taken' = [taken EXCEPT ![h][item.p] = @ + item.num]
    /\ k' = [k EXCEPT ![h] = @ + 1]
    /\ pc' = [pc EXCEPT ![h] = "select"]
    /\ UNCHANGED <<rowLock, mutex, at, req, stock, reply, sold, deducted>>

\* UPDATE stocks SET num=? WHERE product_id=? AND version=?.  Select("num")
\* keeps the new version out of the SET list, and nobody looks at the result.
SellUpdate(h) ==
    /\ pc[h] = "update"
    /\ LET item == req[h].items[k[h]] IN
       /\ rowLock[item.p] \in {None, h}
       /\ rowLock' = [rowLock EXCEPT ![item.p] = h]
       /\ rows' = IF rows[item.p].version = stock[h].version
                    THEN [rows EXCEPT ![item.p].num = stock[h].num]
                    ELSE rows
       /\ taken' = [taken EXCEPT ![h][item.p] = @ + item.num]
    /\ k' = [k EXCEPT ![h] = @ + 1]
    /\ pc' = [pc EXCEPT ![h] = "select"]
    /\ UNCHANGED <<committed, mutex, at, req, stock, reply, sold, deducted>>

LoopOver(h) == pc[h] = "select" /\ k[h] > Len(req[h].items)

SellCommit(h) ==
    /\ LoopOver(h)
    /\ CommitTx(h)
    /\ pc' = [pc EXCEPT ![h] = "return"]
    /\ sold' = [p \in Stocked |-> sold[p] + taken[h][p]]
    /\ deducted' = deducted \cup {h}
    /\ UNCHANGED <<mutex, at, req, k, stock, reply, taken>>

\* tx.Commit() fails (its error is dropped): the server rolls back.
SellCommitFails(h) ==
    /\ "commit" \in Faults
    /\ LoopOver(h)
    /\ RollbackTx({h})
    /\ pc' = [pc EXCEPT ![h] = "return"]
    /\ taken' = [taken EXCEPT ![h] = Nothing]
    /\ UNCHANGED <<mutex, at, req, k, stock, reply, sold, deducted>>

SellReturn(h) ==
    /\ pc[h] = "return"
    /\ Unlock(h)
    /\ Answer(h, "OK")
    /\ UNCHANGED <<db, at, req, k, stock, ghosts>>

\* SetStock: a plain SELECT, then stock.Num += req.Num in memory.  The branch
\* for stock.ID < 1 is dead: a row that is not found returned ParamError.
SetStockRead(h) ==
    /\ pc[h] = "SetStock"
    /\ LET item == req[h].items[1] IN
       \/ /\ item.p \notin Stocked
          /\ Answer(h, "ParamError")
          /\ UNCHANGED stock
       \/ /\ item.p \in Stocked
          /\ stock' = [stock EXCEPT ![h] =
                          [committed[item.p] EXCEPT !.num = Wrap(@ + item.num)]]
          /\ pc' = [pc EXCEPT ![h] = "save"]
          /\ UNCHANGED reply
    /\ UNCHANGED <<db, mutex, at, req, k, ghosts>>

\* Mutant: Save does not wait for a Sell's row lock
MutSetStockSave(h) ==
    /\ pc[h] = "save"
    /\ LET item == req[h].items[1] IN
       /\ rows' = [rows EXCEPT ![item.p] = stock[h]]
       /\ committed' = [committed EXCEPT ![item.p] = stock[h]]
    /\ Answer(h, "OK")
    /\ UNCHANGED <<rowLock, mutex, at, req, k, stock, taken, sold, deducted>>

\* internal.DB.Save(stock): an autocommitted UPDATE of every column.
SetStockSave(h) ==
    /\ pc[h] = "save"
    /\ LET item == req[h].items[1] IN
       /\ rowLock[item.p] = None
       /\ rows' = [rows EXCEPT ![item.p] = stock[h]]
       /\ committed' = [committed EXCEPT ![item.p] = stock[h]]
    /\ Answer(h, "OK")
    /\ UNCHANGED <<rowLock, mutex, at, req, k, stock, taken, sold, deducted>>

\* The UPDATE waits for a Sell's row lock and is given up; Save's error is
\* dropped and the handler answers OK.
SetStockDenied(h) ==
    /\ "timeout" \in Faults
    /\ pc[h] = "save"
    /\ rowLock[req[h].items[1].p] # None
    /\ Answer(h, "OK")
    /\ UNCHANGED <<db, mutex, at, req, k, stock, taken, sold, deducted>>

StockDetail(h) ==
    /\ pc[h] = "StockDetail"
    /\ LET p == req[h].items[1].p IN
       \/ p \notin Stocked /\ Answer(h, "ParamError") /\ UNCHANGED stock
       \/ /\ p \in Stocked
          /\ stock' = [stock EXCEPT ![h] = committed[p]]
          /\ Answer(h, "OK")
    /\ UNCHANGED <<db, mutex, at, req, k, ghosts>>

\* BackStock: First(stock) is given a nil *model.Stock, so gorm returns
\* ErrInvalidValue with RowsAffected = 0 before any SQL is sent; the
\* transaction, still empty, is rolled back.
BackStock(h) ==
    /\ pc[h] = "BackStock"
    /\ Answer(h, IF req[h].items = << >> THEN "OK" ELSE "ProductNotFound")
    /\ UNCHANGED <<db, mutex, at, req, k, stock, ghosts>>

\* The process of instance i dies and is started again: its requests get no
\* answer, the server rolls their transactions back, its mutex is new.
Running(h) == pc[h] \notin {"idle", "done", "dead"}
Crash(i) ==
    LET H == {h \in Handler : at[h] = i /\ Running(h)} IN
    /\ "crash" \in Faults
    /\ H # {}
    /\ RollbackTx(H)
    /\ mutex' = [mutex EXCEPT ![i] = None]
    /\ pc' = [h \in Handler |-> IF h \in H THEN "dead" ELSE pc[h]]
    /\ taken' = [h \in Handler |->
                    IF h \in H /\ pc[h] # "return" THEN Nothing ELSE taken[h]]
    /\ UNCHANGED <<at, req, k, stock, reply, sold, deducted>>

-----------------------------------------------------------------------------
\* The steps of Sell from m.Lock() to its return
SellStep(h) ==
    \/ SellLock(h) \/ SellNoRow(h) \/ SellDenied(h) \/ SellNotEnough(h)
    \/ SellSelect(h) \/ SellUpdate(h) \/ SellCommit(h) \/ SellCommitFails(h)
    \/ SellReturn(h)

SetStock(h) == SetStockRead(h) \/ SetStockSave(h) \/ SetStockDenied(h)

Handle(h) == SellStep(h) \/ SetStock(h) \/ StockDetail(h) \/ BackStock(h)

Terminating ==
    /\ \A h \in Handler : pc[h] \in {"done", "dead"}
    /\ UNCHANGED vars

Next ==
    \/ \E h \in Handler, i \in Instance, r \in Req : Arrive(h, i, r)
    \/ \E h \in Handler : Handle(h)
    \/ \E i \in Instance : Crash(i)
    \/ Terminating

Spec == Init /\ [][Next]_vars

\* A handler that can step does: goroutines are scheduled, the mutex is handed
\* to a waiter, and MySQL either grants a row lock or gives the statement up
\* (innodb_lock_wait_timeout).  No request has to arrive.
FairSpec == Spec /\ \A h \in Handler : WF_vars(Handle(h))

-----------------------------------------------------------------------------
(* Properties *)

\* How many of product p the first n items of a basket order; a product may
\* appear in it twice.
OrderedBy(items, p) ==
    LET sum[n \in 0 .. Len(items)] ==
            IF n = 0 THEN 0
            ELSE sum[n - 1] + (IF items[n].p = p THEN items[n].num ELSE 0)
    IN  sum
Ordered(items, p) == OrderedBy(items, p)[Len(items)]

\* Restrictions on the requests under which some properties hold.
SellsOnly == \A r \in Req : r.op # "SetStock"
NonNegative == \A r \in Req : \A j \in 1 .. Len(r.items) : r.items[j].num >= 0
OneInstance == \A i, j \in Instance : i = j

TypeOK ==
    /\ rows \in [Stocked -> Row]
    /\ committed \in [Stocked -> Row]
    /\ rowLock \in [Stocked -> Handler \cup {None}]
    /\ mutex \in [Instance -> Handler \cup {None}]
    /\ pc \in [Handler -> PC]
    /\ at \in [Handler -> Instance \cup {None}]
    /\ req \in [Handler -> Request]
    /\ k \in [Handler -> Nat \ {0}]
    /\ stock \in [Handler -> Row]
    /\ reply \in [Handler -> Reply]
    /\ taken \in [Handler -> [Stocked -> Int]]
    /\ sold \in [Stocked -> Int]
    /\ deducted \in SUBSET Handler

\* A row is locked only by a Sell that is inside its loop and holds the mutex
\* of its instance: every early return, commit and crash of stock.go:47-72
\* leaves neither a row lock nor the mutex behind.
LockDiscipline ==
    /\ \A p \in Stocked : rowLock[p] # None =>
          /\ pc[rowLock[p]] \in {"select", "update"}
          /\ mutex[at[rowLock[p]]] = rowLock[p]
    /\ \A i \in Instance : mutex[i] # None =>
          pc[mutex[i]] \in {"select", "update", "return"} /\ at[mutex[i]] = i

\* What stock.go:53 read is still the row when stock.go:63-68 writes it, and a
\* row differs from its committed version by exactly what the open Sell that
\* locks it took so far.
ReadFresh(h) ==
    LET item == req[h].items[k[h]] IN
    /\ rowLock[item.p] = h
    /\ stock[h].num = rows[item.p].num - item.num
    /\ stock[h].version = rows[item.p].version
DirtyByOwner(p) ==
    IF rowLock[p] = None THEN rows[p] = committed[p]
    ELSE rows[p].num = committed[p].num - taken[rowLock[p]][p]
FreshUnderLock ==
    /\ \A h \in Handler : pc[h] = "update" => ReadFresh(h)
    /\ \A p \in Stocked : DirtyByOwner(p)

\* With Sells alone (any number of instances, crashes included) no unit is
\* sold twice or lost: committed stock and sales always add up.
Conservation == \A p \in Stocked : committed[p].num + sold[p] = Num0[p]

\* With Sells of non-negative quantities alone stock never falls below zero.
NeverOversold ==
    \A p \in Stocked : Num0[p] >= 0 => rows[p].num >= 0 /\ sold[p] <= Num0[p]

\* "Product not found" is answered only when a product of the basket is missing.
NotFoundMeansMissing ==
    \A h \in Handler :
        req[h].op = "Sell" /\ reply[h] = "ProductNotFound" =>
            \E j \in 1 .. Len(req[h].items) : req[h].items[j].p \notin Stocked

\* A Sell touches the committed table in one step only, a commit that succeeds,
\* and then takes from every row exactly what the basket orders of it, whatever
\* other Sells, SetStocks and crashes happened around it (stock.go:51-70).
SellExactStep ==
    \A h \in Handler : req[h].op = "Sell" /\ pc[h] # "idle" /\ pc'[h] # pc[h] =>
        \A p \in Stocked :
            committed'[p].num = committed[p].num -
                (IF h \in deducted' \ deducted THEN Ordered(req[h].items, p) ELSE 0)
SellExact == [][SellExactStep]_vars

\* Every request that arrives is answered, or dies with its instance: two
\* instances that lock the same rows in opposite orders do not hang.
Answered ==
    \A h \in Handler : Running(h) ~> pc[h] \in {"done", "dead"}

\* Sells refine the one-step basket of StockAbs: the quantities on hand are the
\* committed rows, a basket is taken at the commit and acknowledged at the
\* return.  StockDetail and BackStock change nothing there.
absAvail == [p \in Stocked |-> committed[p].num]
absTook == [h \in Handler |-> IF h \in deducted THEN taken[h] ELSE Nothing]
absPhase ==
    [h \in Handler |->
        IF req[h].op = "Sell" /\ reply[h] = "OK" THEN "acknowledged"
        ELSE IF req[h].op = "Sell" /\ reply[h] # "none" THEN "refused"
        ELSE IF h \in deducted THEN "taken" ELSE "open"]
Abs == INSTANCE StockAbs WITH avail <- absAvail, took <- absTook, phase <- absPhase
SellIsAtomic == Abs!AbsSpec
=============================================================================
