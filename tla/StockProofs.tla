---------------------------- MODULE StockProofs ----------------------------
(***************************************************************************)
(* Proofs about Stock, for any set of products, instances, handlers and     *)
(* requests.                                                                *)
(***************************************************************************)
EXTENDS Stock, WellFoundedInduction, TLAPS

\* Where a handler's control and its request fit together: the request is one
\* of Req, an item or row that the code is about to use exists.
ControlOf(h) ==
    /\ req[h] \in Req \cup {NoReq}
    /\ pc[h] \in {"SetStock", "save", "StockDetail"} => Len(req[h].items) = 1
    /\ pc[h] = "save" => req[h].items[1].p \in Stocked
    /\ pc[h] = "update" =>
          k[h] <= Len(req[h].items) /\ req[h].items[k[h]].p \in Stocked
    /\ pc[h] \in {"Sell", "select", "update", "return"} => req[h].op = "Sell"
    /\ pc[h] \in {"SetStock", "save"} => req[h].op = "SetStock"
    /\ pc[h] = "BackStock" => req[h].op = "BackStock"
    /\ pc[h] = "StockDetail" => req[h].op = "StockDetail"
    /\ Running(h) => at[h] \in Instance
Control == \A h \in Handler : ControlOf(h)

TypeInv == TypeOK /\ Control

\* int32 addition and subtraction stay within int32 (stock.go:32, 61).
LEMMA WrapType ==
    ASSUME NEW x \in Int32, NEW y \in Int32
    PROVE  Wrap(x + y) \in Int32 /\ Wrap(x - y) \in Int32
  BY MaxAssumption DEF Wrap, Int32

\* A row with another quantity is a row.
LEMMA RowUpdate ==
    ASSUME NEW r \in Row, NEW n \in Int32
    PROVE  [r EXCEPT !.num = n] \in Row
  BY DEF Row

\* The initial state is well typed.
LEMMA TypeInit == Init => TypeInv
  <1> SUFFICES ASSUME Init PROVE TypeInv
    OBVIOUS
  <1>1. /\ 0 \in Int32 /\ NoReq \in Request
        /\ \A p \in Stocked : Num0[p] \in Int32
    BY MaxAssumption, Num0Assumption DEF Int32, NoReq, Request, Op
  <1>2. TypeOK
    BY <1>1 DEF TypeOK, Init, Row, PC, Reply, NoRow, Nothing, Op
  <1>3. Control
    BY DEF Control, ControlOf, Init, NoReq, Running
  <1> QED
    BY <1>2, <1>3 DEF TypeInv

\* An item the code looks at is a product id and an int32 quantity.
LEMMA ItemType ==
    ASSUME TypeOK, NEW h \in Handler, NEW j \in 1 .. Len(req[h].items)
    PROVE  req[h].items[j] \in Item
  BY DEF TypeOK, Request

LEMMA ItemNum == \A item \in Item : item.num \in Int32 /\ item.num \in Int
  BY MaxAssumption DEF Item, Int32

\* A step of one handler that leaves the others and the requests alone keeps
\* Control if it does so for the handler itself; one that ends it always does.
LEMMA ControlMove ==
    ASSUME TypeInv, NEW h \in Handler, NEW x, pc' = [pc EXCEPT ![h] = x],
           UNCHANGED <<req, at>>, \A g \in Handler : g # h => k'[g] = k[g],
           ControlOf(h)'
    PROVE  Control'
  <1> SUFFICES ASSUME NEW g \in Handler, g # h PROVE ControlOf(g)'
    BY DEF Control
  <1>1. pc'[g] = pc[g] /\ k'[g] = k[g]
    BY DEF TypeInv, TypeOK
  <1>2. ControlOf(g)
    BY DEF TypeInv, Control
  <1> QED
    BY <1>1, <1>2 DEF ControlOf, Running

LEMMA ControlDone ==
    ASSUME TypeInv, NEW h \in Handler, pc' = [pc EXCEPT ![h] = "done"],
           UNCHANGED <<req, at, k>>
    PROVE  Control'
  <1>1. pc'[h] = "done" /\ req[h] \in Req \cup {NoReq}
    BY DEF TypeInv, TypeOK, Control, ControlOf
  <1>2. ControlOf(h)'
    BY <1>1 DEF ControlOf, Running
  <1> QED
    BY <1>2, ControlMove

\* The item at the loop's index exists while the loop runs, and has a row when
\* it is about to be written.
LEMMA LoopItem ==
    ASSUME TypeInv, NEW h \in Handler,
           pc[h] = "update" \/ (pc[h] = "select" /\ k[h] <= Len(req[h].items))
    PROVE  /\ k[h] \in 1 .. Len(req[h].items)
           /\ req[h].items[k[h]] \in Item
           /\ pc[h] = "update" => req[h].items[k[h]].p \in Stocked
  <1>1. k[h] \in Nat \ {0} /\ Len(req[h].items) \in Nat
    BY DEF TypeInv, TypeOK, Request
  <1>2. /\ k[h] <= Len(req[h].items)
        /\ pc[h] = "update" => req[h].items[k[h]].p \in Stocked
    BY DEF TypeInv, Control, ControlOf
  <1>3. k[h] \in 1 .. Len(req[h].items)
    BY <1>1, <1>2
  <1> QED
    BY <1>2, <1>3, ItemType DEF TypeInv

\* Every step of every action keeps the state well typed.
LEMMA TypeStep == TypeInv /\ [Next]_vars => TypeInv'
  <1> SUFFICES ASSUME TypeInv, [Next]_vars PROVE TypeInv'
    OBVIOUS
  <1> USE DEF TypeInv
  <1>1. ASSUME NEW h \in Handler, NEW i \in Instance, NEW r \in Req,
               Arrive(h, i, r)
        PROVE  TypeInv'
    <2>1. r \in Request /\ r.op \in Op
      BY ReqAssumption DEF Request
    <2>2. TypeOK'
      BY <1>1, <2>1 DEF TypeOK, Arrive, db, ghosts, PC
    <2>3. Control'
      BY <1>1, <2>1, ReqAssumption DEF TypeOK, Control, ControlOf, Arrive, Running, Op
    <2> QED
      BY <2>2, <2>3
  <1>2. ASSUME NEW h \in Handler, SellLock(h) PROVE TypeInv'
    <2>1. TypeOK'
      BY <1>2 DEF SellLock, TypeOK, db, ghosts, PC
    <2>2. /\ pc[h] = "Sell" /\ pc' = [pc EXCEPT ![h] = "select"]
          /\ UNCHANGED <<req, at, k>> /\ ControlOf(h) /\ pc'[h] = "select"
      BY <1>2 DEF SellLock, TypeOK, Control
    <2>3. ControlOf(h)'
      BY <2>2 DEF ControlOf, Running
    <2> QED
      BY <2>1, <2>2, <2>3, ControlMove
  <1>3. ASSUME NEW h \in Handler, NEW e \in Reply, SellFail(h, e) PROVE TypeInv'
    <2>1. TypeOK'
      <3>1. rows' \in [Stocked -> Row] /\ rowLock' \in [Stocked -> Handler \cup {None}]
        BY <1>3 DEF SellFail, RollbackTx, TypeOK
      <3>2. taken' \in [Handler -> [Stocked -> Int]]
        BY <1>3 DEF SellFail, TypeOK, Nothing
      <3> QED
        BY <1>3, <3>1, <3>2 DEF SellFail, RollbackTx, Unlock, Answer, TypeOK, PC
    <2>2. Control'
      BY <1>3, ControlDone DEF SellFail, Answer
    <2> QED
      BY <2>1, <2>2
  <1>4. ASSUME NEW h \in Handler, SellSelect(h) PROVE TypeInv'
    <2> DEFINE item == req[h].items[k[h]]
    <2>1. item \in Item /\ k[h] <= Len(req[h].items) /\ item.p \in Stocked
      BY <1>4, LoopItem DEF SellSelect, InLoop
    <2>2. Wrap(rows[item.p].num - item.num) \in Int32
      BY <2>1, WrapType DEF TypeOK, Row, Item
    <2>3. stock' \in [Handler -> Row]
      BY <1>4, <2>1, <2>2, RowUpdate DEF SellSelect, TypeOK
    <2>4. TypeOK'
      BY <1>4, <2>3 DEF SellSelect, TypeOK, ghosts, PC
    <2>5. Control'
      <3>1. /\ pc[h] = "select" /\ pc' = [pc EXCEPT ![h] = "update"]
            /\ UNCHANGED <<req, at, k>> /\ ControlOf(h) /\ pc'[h] = "update"
        BY <1>4 DEF SellSelect, InLoop, TypeOK, Control
      <3>2. ControlOf(h)'
        BY <2>1, <3>1 DEF ControlOf, Running
      <3> QED
        BY <3>1, <3>2, ControlMove
    <2> QED
      BY <2>4, <2>5
  <1>5. ASSUME NEW h \in Handler, SellUpdate(h) PROVE TypeInv'
    <2> DEFINE item == req[h].items[k[h]]
    <2>1. item \in Item /\ item.p \in Stocked
      BY <1>5, LoopItem DEF SellUpdate
    <2>2. rows' \in [Stocked -> Row]
      <3>1. stock[h].num \in Int32 /\ rows[item.p] \in Row
        BY <2>1 DEF TypeOK, Row
      <3> QED
        BY <1>5, <2>1, <3>1, RowUpdate DEF SellUpdate, TypeOK
    <2>3. taken' \in [Handler -> [Stocked -> Int]]
      <3>1. item.num \in Int /\ taken \in [Handler -> [Stocked -> Int]]
        BY <2>1, ItemNum DEF TypeOK
      <3>2. taken' = [taken EXCEPT ![h][item.p] = @ + item.num]
        BY <1>5 DEF SellUpdate
      <3> HIDE DEF item
      <3> QED
        BY <2>1, <3>1, <3>2
    <2>4. TypeOK'
      <3>1. k' \in [Handler -> Nat \ {0}]
        <4>1. k \in [Handler -> Nat \ {0}] /\ k' = [k EXCEPT ![h] = @ + 1]
          BY <1>5 DEF SellUpdate, TypeOK
        <4> QED
          BY <4>1
      <3>2. rowLock' \in [Stocked -> Handler \cup {None}]
        BY <1>5 DEF SellUpdate, TypeOK
      <3> QED
        BY <1>5, <2>2, <2>3, <3>1, <3>2 DEF SellUpdate, TypeOK, PC
    <2>5. Control'
      <3>1. /\ pc[h] = "update" /\ pc' = [pc EXCEPT ![h] = "select"]
            /\ UNCHANGED <<req, at>> /\ ControlOf(h) /\ pc'[h] = "select"
            /\ \A g \in Handler : g # h => k'[g] = k[g]
        BY <1>5 DEF SellUpdate, TypeOK, Control
      <3>2. ControlOf(h)'
        BY <3>1 DEF ControlOf, Running
      <3> QED
        BY <3>1, <3>2, ControlMove
    <2> QED
      BY <2>4, <2>5
  <1>6. ASSUME NEW h \in Handler, SellCommit(h) PROVE TypeInv'
    <2>1. TypeOK'
      BY <1>6 DEF SellCommit, LoopOver, CommitTx, TypeOK, PC, Reply, Nothing
    <2>2. Control'
      <3>1. /\ pc[h] = "select" /\ pc' = [pc EXCEPT ![h] = "return"]
            /\ UNCHANGED <<req, at, k>> /\ ControlOf(h) /\ pc'[h] = "return"
        BY <1>6 DEF SellCommit, LoopOver, TypeOK, Control
      <3>2. ControlOf(h)'
        BY <3>1 DEF ControlOf, Running
      <3> QED
        BY <3>1, <3>2, ControlMove
    <2> QED
      BY <2>1, <2>2
  <1>7. ASSUME NEW h \in Handler, SellCommitFails(h) PROVE TypeInv'
    <2>1. TypeOK'
      BY <1>7 DEF SellCommitFails, LoopOver, RollbackTx, TypeOK, PC, Reply, Nothing
    <2>2. Control'
      <3>1. /\ pc[h] = "select" /\ pc' = [pc EXCEPT ![h] = "return"]
            /\ UNCHANGED <<req, at, k>> /\ ControlOf(h) /\ pc'[h] = "return"
        BY <1>7 DEF SellCommitFails, LoopOver, TypeOK, Control
      <3>2. ControlOf(h)'
        BY <3>1 DEF ControlOf, Running
      <3> QED
        BY <3>1, <3>2, ControlMove
    <2> QED
      BY <2>1, <2>2
  <1>8. ASSUME NEW h \in Handler, SellReturn(h) PROVE TypeInv'
    <2>1. TypeOK'
      BY <1>8 DEF SellReturn, Unlock, Answer, db, ghosts, TypeOK, PC, Reply, Nothing
    <2>2. Control'
      BY <1>8, ControlDone DEF SellReturn, Answer
    <2> QED
      BY <2>1, <2>2
  <1>9. ASSUME NEW h \in Handler, SetStockRead(h) PROVE TypeInv'
    <2> DEFINE item == req[h].items[1]
    <2>1. item \in Item
      <3>1. pc[h] = "SetStock"
        BY <1>9 DEF SetStockRead
      <3> QED
        BY <3>1, ItemType DEF Control, ControlOf
    <2>2. item.p \in Stocked => Wrap(committed[item.p].num + item.num) \in Int32
      BY <2>1, WrapType DEF TypeOK, Row, Item
    <2>3. stock' \in [Handler -> Row]
      <3>1. CASE item.p \notin Stocked
        BY <1>9, <3>1 DEF SetStockRead, TypeOK
      <3>2. CASE item.p \in Stocked
        <4>1. /\ committed[item.p] \in Row
              /\ stock' = [stock EXCEPT ![h] = [committed[item.p]
                             EXCEPT !.num = Wrap(@ + item.num)]]
          BY <1>9, <3>2 DEF SetStockRead, TypeOK
        <4> QED
          BY <2>2, <3>2, <4>1, RowUpdate DEF TypeOK
      <3> QED
        BY <3>1, <3>2
    <2>4. TypeOK'
      BY <1>9, <2>3 DEF SetStockRead, Answer, TypeOK, db, ghosts, PC, Reply
    <2>5. Control'
      <3>1. /\ pc[h] = "SetStock" /\ UNCHANGED <<at, req, k>>
            /\ \/ pc' = [pc EXCEPT ![h] = "done"]
               \/ pc' = [pc EXCEPT ![h] = "save"] /\ item.p \in Stocked
        BY <1>9 DEF SetStockRead, Answer
      <3> QED
        <4>1. CASE pc' = [pc EXCEPT ![h] = "done"]
          BY <3>1, <4>1, ControlDone
        <4>2. CASE pc' = [pc EXCEPT ![h] = "save"] /\ item.p \in Stocked
          <5>1. ControlOf(h) /\ pc'[h] = "save"
            BY <4>2 DEF TypeOK, Control
          <5>2. ControlOf(h)'
            BY <3>1, <4>2, <5>1 DEF ControlOf, Running
          <5> QED
            BY <3>1, <4>2, <5>2, ControlMove
        <4> QED
          BY <3>1, <4>1, <4>2
    <2> QED
      BY <2>4, <2>5
  <1>10. ASSUME NEW h \in Handler, SetStockSave(h) PROVE TypeInv'
    <2>1. TypeOK'
      BY <1>10 DEF SetStockSave, Answer, TypeOK, ghosts, PC, Reply
    <2>2. Control'
      BY <1>10, ControlDone DEF SetStockSave, Answer
    <2> QED
      BY <2>1, <2>2
  <1>11. ASSUME NEW h \in Handler, SetStockDenied(h) PROVE TypeInv'
    <2>1. TypeOK'
      BY <1>11 DEF SetStockDenied, Answer, TypeOK, db, ghosts, PC, Reply
    <2>2. Control'
      BY <1>11, ControlDone DEF SetStockDenied, Answer
    <2> QED
      BY <2>1, <2>2
  <1>12. ASSUME NEW h \in Handler, StockDetail(h) PROVE TypeInv'
    <2>1. TypeOK'
      <3>1. stock' \in [Handler -> Row]
        BY <1>12 DEF StockDetail, TypeOK
      <3>2. pc' \in [Handler -> PC] /\ reply' \in [Handler -> Reply]
        BY <1>12 DEF StockDetail, Answer, TypeOK, PC, Reply
      <3> QED
        BY <1>12, <3>1, <3>2 DEF StockDetail, db, ghosts, TypeOK
    <2>2. Control'
      BY <1>12, ControlDone DEF StockDetail, Answer
    <2> QED
      BY <2>1, <2>2
  <1>13. ASSUME NEW h \in Handler, BackStock(h) PROVE TypeInv'
    <2>1. TypeOK'
      BY <1>13 DEF BackStock, Answer, TypeOK, PC, Reply, db, ghosts
    <2>2. Control'
      BY <1>13, ControlDone DEF BackStock, Answer
    <2> QED
      BY <2>1, <2>2
  <1>14. ASSUME NEW i \in Instance, Crash(i) PROVE TypeInv'
    <2>1. TypeOK'
      BY <1>14 DEF Crash, RollbackTx, TypeOK, PC, Reply, Nothing
    <2>2. Control'
      <3>1. /\ UNCHANGED <<req, at, k>>
            /\ \A g \in Handler : pc'[g] = pc[g] \/ pc'[g] = "dead"
        BY <1>14 DEF Crash
      <3> SUFFICES ASSUME NEW g \in Handler PROVE ControlOf(g)'
        BY DEF Control
      <3>2. ControlOf(g)
        BY DEF Control
      <3> QED
        BY <3>1, <3>2 DEF ControlOf, Running
    <2> QED
      BY <2>1, <2>2
  <1>15. CASE UNCHANGED vars
    BY <1>15 DEF vars, TypeOK, Control, ControlOf, Running
  <1> QED
    BY <1>1, <1>2, <1>3, <1>4, <1>5, <1>6, <1>7, <1>8, <1>9, <1>10, <1>11,
       <1>12, <1>13, <1>14, <1>15
       DEF Next, Handle, SellStep, SetStock, SellNoRow, SellDenied,
           SellNotEnough, Terminating, Reply

\* Every variable of the stock service keeps its type, and the handlers only
\* ever use an item or a row that exists.
THEOREM TypeCorrect == Spec => []TypeOK
  <1>1. Spec => []TypeInv
    BY TypeInit, TypeStep, PTL DEF Spec
  <1>2. TypeInv => TypeOK
    BY DEF TypeInv
  <1> QED
    BY <1>1, <1>2, PTL

-----------------------------------------------------------------------------
(* Locks *)

\* A Sell past m.Lock() holds its instance's mutex; a Sell whose transaction
\* committed has left the loop.
MutexHeld ==
    /\ \A h \in Handler :
          pc[h] \in {"select", "update", "return"} => mutex[at[h]] = h
    /\ \A h \in deducted : pc[h] \in {"return", "done", "dead"}

LockInv == LockDiscipline /\ MutexHeld

LEMMA LockInit == Init => LockInv
  BY DEF Init, LockInv, LockDiscipline, MutexHeld

\* SELECT ... FOR UPDATE gives its Sell one row lock and no one else any.
LEMMA SelectLocks ==
    ASSUME TypeInv, NEW h \in Handler, SellSelect(h)
    PROVE  /\ pc[h] = "select" /\ pc' = [pc EXCEPT ![h] = "update"]
           /\ UNCHANGED <<mutex, at, deducted>>
           /\ \A q \in Stocked : rowLock'[q] \in {rowLock[q], h}
  <1> DEFINE p == req[h].items[k[h]].p
  <1>1. /\ pc[h] = "select" /\ pc' = [pc EXCEPT ![h] = "update"]
        /\ UNCHANGED <<mutex, at, deducted>>
        /\ rowLock' = [rowLock EXCEPT ![p] = h]
    BY DEF SellSelect, InLoop, ghosts
  <1>2. rowLock \in [Stocked -> Handler \cup {None}]
    BY DEF TypeInv, TypeOK
  <1> HIDE DEF p
  <1> QED
    BY <1>1, <1>2

\* A step inside the loop that at most adds a row lock of its own Sell.
LEMMA LockFrame ==
    ASSUME TypeInv, LockInv, NEW h \in Handler, NEW x \in {"select", "update"},
           pc[h] \in {"select", "update"}, pc' = [pc EXCEPT ![h] = x],
           UNCHANGED <<mutex, at, deducted>>,
           \A q \in Stocked : rowLock'[q] \in {rowLock[q], h}
    PROVE  LockInv'
  <1>1. /\ pc'[h] \in {"select", "update"} /\ mutex[at[h]] = h
        /\ \A g \in Handler : g # h => pc'[g] = pc[g]
        /\ h \notin deducted
    BY DEF TypeInv, TypeOK, LockInv, MutexHeld
  <1>2. LockDiscipline'
    BY <1>1, NoneAssumption DEF TypeInv, TypeOK, LockInv, LockDiscipline
  <1>3. MutexHeld'
    BY <1>1 DEF TypeInv, TypeOK, LockInv, MutexHeld
  <1> QED
    BY <1>2, <1>3 DEF LockInv

LEMMA LockStep == TypeInv /\ LockInv /\ [Next]_vars => LockInv'
  <1> SUFFICES ASSUME TypeInv, LockInv, [Next]_vars PROVE LockInv'
    OBVIOUS
  <1> USE NoneAssumption
  <1>1. ASSUME NEW h \in Handler, NEW i \in Instance, NEW r \in Req,
               Arrive(h, i, r)
        PROVE  LockInv'
    <2>1. r.op \in Op
      BY ReqAssumption DEF Request
    <2> QED
      BY <1>1, <2>1 DEF Arrive, db, ghosts, Op, TypeInv, TypeOK, LockInv, LockDiscipline, MutexHeld
  <1>2. ASSUME NEW h \in Handler, SellLock(h) PROVE LockInv'
    <2>1. at[h] \in Instance
      BY <1>2 DEF SellLock, TypeInv, Control, ControlOf, Running
    <2> QED
      BY <1>2, <2>1 DEF SellLock, db, ghosts, TypeInv, TypeOK, LockInv, LockDiscipline,
                  MutexHeld
  <1>3. ASSUME NEW h \in Handler, NEW e \in Reply, SellFail(h, e), pc[h] = "select"
        PROVE  LockInv'
    BY <1>3 DEF SellFail, RollbackTx, Unlock, Answer, Control, ControlOf, Running, TypeInv, TypeOK, LockInv, LockDiscipline,
                  MutexHeld
  <1>4. ASSUME NEW h \in Handler, SellSelect(h) PROVE LockInv'
    BY <1>4, SelectLocks, LockFrame
  <1>5. ASSUME NEW h \in Handler, SellUpdate(h) PROVE LockInv'
    <2>1. /\ pc[h] = "update" /\ pc' = [pc EXCEPT ![h] = "select"]
          /\ UNCHANGED <<mutex, at, deducted>>
          /\ \A q \in Stocked : rowLock'[q] \in {rowLock[q], h}
      BY <1>5 DEF SellUpdate, TypeInv, TypeOK
    <2> QED
      BY <2>1, LockFrame
  <1>6. ASSUME NEW h \in Handler, SellCommit(h) PROVE LockInv'
    BY <1>6 DEF SellCommit, LoopOver, CommitTx, TypeInv, TypeOK, LockInv, LockDiscipline,
                  MutexHeld
  <1>7. ASSUME NEW h \in Handler, SellCommitFails(h) PROVE LockInv'
    BY <1>7 DEF SellCommitFails, LoopOver, RollbackTx, TypeInv, TypeOK, LockInv, LockDiscipline,
                  MutexHeld
  <1>8. ASSUME NEW h \in Handler, SellReturn(h) PROVE LockInv'
    BY <1>8 DEF SellReturn, Unlock, Answer, Control, ControlOf, Running, db, ghosts, TypeInv, TypeOK, LockInv, LockDiscipline,
                  MutexHeld
  <1>9. ASSUME NEW h \in Handler, SetStock(h) \/ StockDetail(h) \/ BackStock(h)
        PROVE  LockInv'
    <2>1. /\ pc[h] \in {"SetStock", "save", "StockDetail", "BackStock"}
          /\ \E x \in {"save", "done"} : pc' = [pc EXCEPT ![h] = x]
          /\ UNCHANGED <<rowLock, mutex, at, deducted>>
      BY <1>9 DEF SetStock, SetStockRead, SetStockSave, SetStockDenied,
                  StockDetail, BackStock, Answer, db, ghosts
    <2> QED
      BY <2>1 DEF TypeInv, TypeOK, LockInv, LockDiscipline, MutexHeld
  <1>10. ASSUME NEW i \in Instance, Crash(i) PROVE LockInv'
    BY <1>10 DEF Crash, RollbackTx, Running, Control, ControlOf, TypeInv, TypeOK, LockInv, LockDiscipline,
                  MutexHeld
  <1>11. CASE UNCHANGED vars
    BY <1>11 DEF vars, LockInv, LockDiscipline, MutexHeld
  <1> QED
    BY <1>1, <1>2, <1>3, <1>4, <1>5, <1>6, <1>7, <1>8, <1>9, <1>10, <1>11
       DEF Next, Handle, SellStep, SellNoRow, SellDenied, SellNotEnough, InLoop,
           Terminating, Reply

\* No Sell leaves a row lock or the mutex behind: whoever holds one is inside
\* the loop (or about to return) and will release it.
THEOREM LocksReleased == Spec => []LockDiscipline
  <1>1. Spec => [](TypeInv /\ LockInv)
    BY TypeInit, TypeStep, LockInit, LockStep, PTL DEF Spec
  <1>2. LockInv => LockDiscipline
    BY DEF LockInv
  <1> QED
    BY <1>1, <1>2, PTL

-----------------------------------------------------------------------------
(* The ledger of the open transactions *)

\* An open Sell has taken only from rows it locks, and never more than was
\* there.
TakenCovered(h) ==
    /\ \A p \in Stocked : taken[h][p] \in Nat
    /\ h \notin deducted => \A p \in Stocked :
          taken[h][p] # 0 => rowLock[p] = h /\ rows[p].num >= 0
    /\ pc[h] = "update" => stock[h].num >= 0

LedgerInv == FreshUnderLock /\ \A h \in Handler : TakenCovered(h)

LEMMA LedgerInit == Init => LedgerInv
  BY NoneAssumption DEF Init, LedgerInv, FreshUnderLock, ReadFresh, DirtyByOwner,
                        TakenCovered, Nothing

LEMMA RowNum == \A r \in Row : r.num \in Int /\ r.num <= MaxInt32
  BY MaxAssumption DEF Row, Int32

\* A quantity of a request is not negative.
LEMMA ItemNat ==
    ASSUME NonNegative, TypeInv, NEW h \in Handler,
           NEW j \in 1 .. Len(req[h].items)
    PROVE  req[h].items[j].num \in Nat
  <1>1. req[h] \in Req
    BY DEF TypeInv, Control, ControlOf, NoReq
  <1>2. req[h].items[j] \in Item
    BY ItemType DEF TypeInv
  <1> QED
    BY <1>1, <1>2, ItemNum DEF NonNegative

\* A Sell about to write loses nothing by a step that leaves it and its row
\* alone.
LEMMA FreshFrame ==
    ASSUME NEW g, ReadFresh(g), req'[g] = req[g], k'[g] = k[g],
           stock'[g] = stock[g],
           rowLock'[req[g].items[k[g]].p] = rowLock[req[g].items[k[g]].p],
           rows'[req[g].items[k[g]].p] = rows[req[g].items[k[g]].p]
    PROVE  ReadFresh(g)'
  BY DEF ReadFresh

\* A Sell about to write has a row.
LEMMA UpdateRow ==
    ASSUME TypeInv, LedgerInv, NEW g \in Handler, pc[g] = "update"
    PROVE  /\ ReadFresh(g)
           /\ req[g].items[k[g]].p \in Stocked
           /\ rowLock[req[g].items[k[g]].p] = g
  BY DEF TypeInv, Control, ControlOf, LedgerInv, FreshUnderLock, ReadFresh

\* A rollback of the transactions of H, at the end of their handlers.
LEMMA LedgerRollback ==
    ASSUME TypeInv, LedgerInv, NEW H \in SUBSET Handler, RollbackTx(H),
           \A g \in Handler : g \notin H => pc'[g] = pc[g] /\ taken'[g] = taken[g],
           \A g \in H : /\ pc'[g] # "update"
                        /\ taken'[g] = Nothing \/ (g \in deducted /\ taken'[g] = taken[g]),
           UNCHANGED <<req, k, stock, deducted>>
    PROVE  LedgerInv'
  <1>1. ASSUME NEW g \in Handler, pc'[g] = "update" PROVE ReadFresh(g)'
    <2>1. g \notin H /\ pc[g] = "update"
      BY <1>1
    <2> QED
      BY <2>1, UpdateRow, FreshFrame DEF RollbackTx
  <1>2. ASSUME NEW p \in Stocked PROVE DirtyByOwner(p)'
    <2>1. DirtyByOwner(p)
      BY DEF LedgerInv, FreshUnderLock
    <2>2. rowLock[p] \in Handler \cup {None}
      BY DEF TypeInv, TypeOK
    <2> QED
      BY <2>1, <2>2, NoneAssumption DEF RollbackTx, DirtyByOwner
  <1>3. ASSUME NEW g \in Handler PROVE TakenCovered(g)'
    <2>1. TakenCovered(g)
      BY DEF LedgerInv
    <2> QED
      BY <2>1 DEF TakenCovered, RollbackTx, Nothing
  <1> QED
    BY <1>1, <1>2, <1>3 DEF LedgerInv, FreshUnderLock

LEMMA LedgerSelect ==
    ASSUME NonNegative, TypeInv, LockInv, LedgerInv, NEW h \in Handler,
           SellSelect(h)
    PROVE  LedgerInv'
  <1> DEFINE item == req[h].items[k[h]]
  <1>1. pc[h] = "select" /\ k[h] \in 1 .. Len(req[h].items)
    BY LoopItem DEF SellSelect, InLoop
  <1>2. /\ item.p \in Stocked /\ item.num \in Nat
        /\ h \notin deducted
    BY <1>1, ItemNat DEF SellSelect, LockInv, MutexHeld
  <1>3. /\ pc' = [pc EXCEPT ![h] = "update"]
        /\ UNCHANGED <<rows, committed, req, k, taken, deducted>>
        /\ rowLock' = [rowLock EXCEPT ![item.p] = h]
        /\ rowLock[item.p] \in {None, h}
        /\ stock' = [stock EXCEPT ![h] =
                        [rows[item.p] EXCEPT !.num = Wrap(@ - item.num)]]
        /\ ~(rows[item.p].num < item.num)
    BY DEF SellSelect, ghosts
  <1>4. /\ rows[item.p] \in Row /\ rows[item.p].num \in Int
        /\ rows[item.p].num <= MaxInt32
        /\ pc \in [Handler -> PC] /\ stock \in [Handler -> Row]
        /\ rowLock \in [Stocked -> Handler \cup {None}]
    BY <1>2, RowNum DEF TypeInv, TypeOK
  <1> HIDE DEF item
  <1>5. Wrap(rows[item.p].num - item.num) = rows[item.p].num - item.num
    BY <1>2, <1>3, <1>4, MaxAssumption DEF Wrap
  <1>6. /\ stock'[h].version = rows[item.p].version
        /\ stock'[h].num = rows[item.p].num - item.num
        /\ \A g \in Handler : g # h => stock'[g] = stock[g]
    BY <1>3, <1>4, <1>5 DEF Row
  <1>7. stock'[h].num >= 0
    BY <1>2, <1>3, <1>4, <1>6
  <1>8. ReadFresh(h)'
    BY <1>2, <1>3, <1>4, <1>6 DEF ReadFresh, item
  <1>9. ASSUME NEW g \in Handler, pc'[g] = "update", g # h PROVE ReadFresh(g)'
    <2>1. pc[g] = "update"
      BY <1>3, <1>4, <1>9
    <2>2. /\ ReadFresh(g) /\ req[g].items[k[g]].p \in Stocked
          /\ rowLock[req[g].items[k[g]].p] = g
      BY <2>1, UpdateRow
    <2>3. rowLock'[req[g].items[k[g]].p] = g
      BY <1>3, <1>4, <2>2, <1>9, NoneAssumption
    <2> QED
      BY <1>3, <1>6, <1>9, <2>2, <2>3, FreshFrame
  <1>10. ASSUME NEW p \in Stocked PROVE DirtyByOwner(p)'
    <2>1. DirtyByOwner(p) /\ TakenCovered(h) /\ committed[p].num \in Int
      BY RowNum DEF LedgerInv, FreshUnderLock, TypeInv, TypeOK
    <2>2. CASE p = item.p /\ rowLock[p] = None
      <3>1. taken[h][p] = 0 /\ rows[p] = committed[p]
        BY <1>2, <2>1, <2>2, NoneAssumption DEF TakenCovered, DirtyByOwner
      <3> QED
        BY <1>3, <1>4, <2>1, <2>2, <3>1, NoneAssumption DEF DirtyByOwner
    <2>3. CASE ~(p = item.p /\ rowLock[p] = None)
      <3>1. rowLock'[p] = rowLock[p]
        BY <1>3, <1>4, <2>3
      <3> QED
        BY <1>3, <2>1, <3>1 DEF DirtyByOwner
    <2> QED
      BY <2>2, <2>3
  <1>11. ASSUME NEW g \in Handler PROVE TakenCovered(g)'
    <2>1. TakenCovered(g)
      BY DEF LedgerInv
    <2>2. \A p \in Stocked : rowLock[p] = g => rowLock'[p] = g
      BY <1>3, <1>4, NoneAssumption
    <2>3. pc'[g] = "update" => stock'[g].num >= 0
      BY <1>3, <1>4, <1>6, <1>7, <2>1 DEF TakenCovered
    <2> QED
      BY <1>3, <2>1, <2>2, <2>3 DEF TakenCovered
  <1> QED
    BY <1>8, <1>9, <1>10, <1>11 DEF LedgerInv, FreshUnderLock

LEMMA LedgerUpdate ==
    ASSUME NonNegative, TypeInv, LockInv, LedgerInv, NEW h \in Handler,
           SellUpdate(h)
    PROVE  LedgerInv'
  <1> DEFINE item == req[h].items[k[h]]
  <1>1. pc[h] = "update" /\ k[h] \in 1 .. Len(req[h].items)
    BY LoopItem DEF SellUpdate
  <1>2. /\ item.p \in Stocked /\ item.num \in Nat /\ rowLock[item.p] = h
        /\ stock[h].num = rows[item.p].num - item.num
        /\ stock[h].version = rows[item.p].version
        /\ stock[h].num >= 0 /\ h \notin deducted
    BY <1>1, ItemNat, UpdateRow
       DEF ReadFresh, LockInv, MutexHeld, LedgerInv, TakenCovered
  <1>3. /\ pc \in [Handler -> PC] /\ rows \in [Stocked -> Row]
        /\ rowLock \in [Stocked -> Handler \cup {None}]
        /\ taken \in [Handler -> [Stocked -> Int]] /\ k \in [Handler -> Nat \ {0}]
    BY DEF TypeInv, TypeOK
  <1>4. /\ pc' = [pc EXCEPT ![h] = "select"]
        /\ UNCHANGED <<committed, req, stock, deducted>>
        /\ rowLock' = rowLock
        /\ taken' = [taken EXCEPT ![h][item.p] = @ + item.num]
        /\ rows' = [rows EXCEPT ![item.p].num = stock[h].num]
        /\ k' = [k EXCEPT ![h] = @ + 1]
    BY <1>2, <1>3 DEF SellUpdate
  <1> HIDE DEF item
  <1>5. /\ rows'[item.p].num = stock[h].num
        /\ \A p \in Stocked : p # item.p => rows'[p] = rows[p]
    BY <1>2, <1>3, <1>4 DEF Row
  <1>6. /\ taken'[h][item.p] = taken[h][item.p] + item.num
        /\ \A g \in Handler, p \in Stocked :
              (g # h \/ p # item.p) => taken'[g][p] = taken[g][p]
    BY <1>2, <1>3, <1>4
  <1>7. ASSUME NEW g \in Handler, pc'[g] = "update" PROVE ReadFresh(g)'
    <2>1. g # h /\ pc[g] = "update" /\ k'[g] = k[g]
      BY <1>3, <1>4, <1>7
    <2>2. /\ ReadFresh(g) /\ req[g].items[k[g]].p \in Stocked
          /\ rowLock[req[g].items[k[g]].p] = g
      BY <2>1, UpdateRow
    <2>3. rows'[req[g].items[k[g]].p] = rows[req[g].items[k[g]].p]
      BY <1>2, <1>5, <2>1, <2>2
    <2> QED
      BY <1>4, <2>1, <2>2, <2>3, FreshFrame
  <1>8. ASSUME NEW p \in Stocked PROVE DirtyByOwner(p)'
    <2>1. DirtyByOwner(p)
      BY DEF LedgerInv, FreshUnderLock
    <2>2. CASE p = item.p
      <3>1. /\ rows[p].num = committed[p].num - taken[h][p]
            /\ committed[p].num \in Int /\ rows[p].num \in Int
            /\ taken[h][p] \in Int
        BY <1>2, <1>3, <2>1, <2>2, NoneAssumption, RowNum
           DEF DirtyByOwner, TypeInv, TypeOK
      <3>2. rows'[p].num = committed[p].num - taken'[h][p]
        BY <1>2, <1>5, <1>6, <2>2, <3>1
      <3> QED
        BY <1>2, <1>4, <2>2, <3>2, NoneAssumption DEF DirtyByOwner
    <2>3. CASE p # item.p
      <3>1. rowLock[p] # None => taken'[rowLock[p]][p] = taken[rowLock[p]][p]
        BY <1>3, <1>6, <2>3
      <3> QED
        BY <1>4, <1>5, <2>1, <2>3, <3>1 DEF DirtyByOwner
    <2> QED
      BY <2>2, <2>3
  <1>9. ASSUME NEW g \in Handler PROVE TakenCovered(g)'
    <2>1. TakenCovered(g)
      BY DEF LedgerInv
    <2>2. \A p \in Stocked : taken'[g][p] \in Nat
      BY <1>2, <1>6, <2>1 DEF TakenCovered
    <2>3. ASSUME g \notin deducted, NEW p \in Stocked, taken'[g][p] # 0
          PROVE  rowLock[p] = g /\ rows'[p].num >= 0
      <3>1. CASE p = item.p /\ g = h
        BY <1>2, <1>5, <3>1
      <3>2. CASE p # item.p \/ g # h
        BY <1>2, <1>5, <1>6, <2>1, <2>3, <3>2 DEF TakenCovered
      <3> QED
        BY <3>1, <3>2
    <2>4. pc'[g] = "update" => stock[g].num >= 0
      BY <1>3, <1>4, <2>1 DEF TakenCovered
    <2> QED
      BY <1>4, <2>2, <2>3, <2>4 DEF TakenCovered
  <1> QED
    BY <1>7, <1>8, <1>9 DEF LedgerInv, FreshUnderLock

LEMMA LedgerCommit ==
    ASSUME TypeInv, LockInv, LedgerInv, NEW h \in Handler, SellCommit(h)
    PROVE  LedgerInv'
  <1>1. /\ pc[h] = "select" /\ pc' = [pc EXCEPT ![h] = "return"]
        /\ UNCHANGED <<rows, req, k, stock, taken>>
        /\ deducted' = deducted \cup {h}
        /\ \A p \in Stocked :
              IF rowLock[p] = h
                THEN rowLock'[p] = None /\ committed'[p] = rows[p]
                ELSE rowLock'[p] = rowLock[p] /\ committed'[p] = committed[p]
        /\ pc \in [Handler -> PC]
    BY DEF SellCommit, LoopOver, CommitTx, TypeInv, TypeOK
  <1>2. ASSUME NEW g \in Handler, pc'[g] = "update" PROVE ReadFresh(g)'
    <2>1. g # h /\ pc[g] = "update"
      BY <1>1, <1>2
    <2> QED
      BY <1>1, <2>1, UpdateRow, FreshFrame
  <1>3. ASSUME NEW p \in Stocked PROVE DirtyByOwner(p)'
    <2>1. DirtyByOwner(p)
      BY DEF LedgerInv, FreshUnderLock
    <2> QED
      BY <1>1, <2>1 DEF DirtyByOwner
  <1>4. ASSUME NEW g \in Handler PROVE TakenCovered(g)'
    <2>1. TakenCovered(g)
      BY DEF LedgerInv
    <2> QED
      BY <1>1, <2>1 DEF TakenCovered
  <1> QED
    BY <1>2, <1>3, <1>4 DEF LedgerInv, FreshUnderLock

LEMMA LedgerSave ==
    ASSUME TypeInv, LedgerInv, NEW h \in Handler, SetStockSave(h)
    PROVE  LedgerInv'
  <1> DEFINE q == req[h].items[1].p
  <1>1. /\ pc[h] = "save" /\ pc' = [pc EXCEPT ![h] = "done"]
        /\ rowLock[q] = None
        /\ rows' = [rows EXCEPT ![q] = stock[h]]
        /\ committed' = [committed EXCEPT ![q] = stock[h]]
        /\ UNCHANGED <<rowLock, req, k, stock, taken, deducted>>
    BY DEF SetStockSave, Answer
  <1>2. /\ q \in Stocked /\ pc \in [Handler -> PC]
        /\ rows \in [Stocked -> Row] /\ committed \in [Stocked -> Row]
    BY <1>1 DEF TypeInv, TypeOK, Control, ControlOf
  <1> HIDE DEF q
  <1>3. ASSUME NEW g \in Handler, pc'[g] = "update" PROVE ReadFresh(g)'
    <2>1. pc[g] = "update"
      BY <1>1, <1>2, <1>3
    <2>2. /\ ReadFresh(g) /\ req[g].items[k[g]].p \in Stocked
          /\ rowLock[req[g].items[k[g]].p] = g
      BY <2>1, UpdateRow
    <2>3. rows'[req[g].items[k[g]].p] = rows[req[g].items[k[g]].p]
      BY <1>1, <1>2, <2>2, NoneAssumption
    <2> QED
      BY <1>1, <2>2, <2>3, FreshFrame
  <1>4. ASSUME NEW p \in Stocked PROVE DirtyByOwner(p)'
    <2>1. DirtyByOwner(p)
      BY DEF LedgerInv, FreshUnderLock
    <2> QED
      BY <1>1, <1>2, <2>1 DEF DirtyByOwner
  <1>5. ASSUME NEW g \in Handler PROVE TakenCovered(g)'
    <2>1. TakenCovered(g)
      BY DEF LedgerInv
    <2>2. \A p \in Stocked : rowLock[p] = g => rows'[p] = rows[p]
      BY <1>1, <1>2, NoneAssumption
    <2> QED
      BY <1>1, <1>2, <2>1, <2>2 DEF TakenCovered
  <1> QED
    BY <1>3, <1>4, <1>5 DEF LedgerInv, FreshUnderLock

LEMMA LedgerStep ==
    ASSUME NonNegative
    PROVE  TypeInv /\ LockInv /\ LedgerInv /\ [Next]_vars => LedgerInv'
  <1> SUFFICES ASSUME TypeInv, LockInv, LedgerInv, [Next]_vars PROVE LedgerInv'
    OBVIOUS
  \* a step that leaves the tables, the locks and the sales alone
  <1>1. ASSUME NEW h \in Handler, pc[h] # "update", pc'[h] # "update",
               \A g \in Handler : g # h =>
                  /\ pc'[g] = pc[g] /\ stock'[g] = stock[g] /\ req'[g] = req[g],
               UNCHANGED <<rows, committed, rowLock, k, taken, deducted>>
        PROVE  LedgerInv'
    <2>1. ASSUME NEW g \in Handler, pc'[g] = "update" PROVE ReadFresh(g)'
      BY <1>1, <2>1, UpdateRow, FreshFrame
    <2>2. ASSUME NEW p \in Stocked PROVE DirtyByOwner(p)'
      BY <1>1 DEF LedgerInv, FreshUnderLock, DirtyByOwner
    <2>3. ASSUME NEW g \in Handler PROVE TakenCovered(g)'
      BY <1>1 DEF LedgerInv, TakenCovered
    <2> QED
      BY <2>1, <2>2, <2>3 DEF LedgerInv, FreshUnderLock
  <1>2. ASSUME NEW h \in Handler, NEW i \in Instance, NEW r \in Req,
               Arrive(h, i, r)
        PROVE  LedgerInv'
    <2>1. r.op \in Op
      BY ReqAssumption DEF Request
    <2> QED
      BY <1>1, <1>2, <2>1 DEF Arrive, db, ghosts, Op, TypeInv, TypeOK
  <1>3. ASSUME NEW h \in Handler, SellLock(h) PROVE LedgerInv'
    BY <1>1, <1>3 DEF SellLock, db, ghosts, TypeInv, TypeOK
  <1>4. ASSUME NEW h \in Handler, NEW e, SellFail(h, e) PROVE LedgerInv'
    BY <1>4, LedgerRollback DEF SellFail, Answer, TypeInv, TypeOK
  <1>5. ASSUME NEW h \in Handler, SellCommitFails(h) PROVE LedgerInv'
    <2>1. pc \in [Handler -> PC] /\ taken \in [Handler -> [Stocked -> Int]]
      BY DEF TypeInv, TypeOK
    <2>2. RollbackTx({h}) /\ UNCHANGED <<req, k, stock, deducted>>
      BY <1>5 DEF SellCommitFails
    <2>3. /\ pc'[h] # "update" /\ taken'[h] = Nothing
          /\ \A g \in Handler : g \notin {h} => pc'[g] = pc[g] /\ taken'[g] = taken[g]
      BY <1>5, <2>1 DEF SellCommitFails
    <2> QED
      BY <2>2, <2>3, LedgerRollback
  <1>6. ASSUME NEW h \in Handler, SellReturn(h) PROVE LedgerInv'
    BY <1>1, <1>6 DEF SellReturn, Answer, db, ghosts, TypeInv, TypeOK
  <1>7. ASSUME NEW h \in Handler,
               SetStockRead(h) \/ SetStockDenied(h) \/ StockDetail(h) \/ BackStock(h)
        PROVE  LedgerInv'
    <2>1. pc \in [Handler -> PC] /\ stock \in [Handler -> Row]
      BY DEF TypeInv, TypeOK
    <2>2. /\ pc[h] # "update" /\ pc'[h] # "update"
          /\ \A g \in Handler : g # h => pc'[g] = pc[g] /\ stock'[g] = stock[g]
          /\ UNCHANGED <<rows, committed, rowLock, req, k, taken, deducted>>
      <3>1. CASE SetStockRead(h)
        BY <2>1, <3>1 DEF SetStockRead, Answer, db, ghosts
      <3>2. CASE SetStockDenied(h)
        BY <2>1, <3>2 DEF SetStockDenied, Answer, db
      <3>3. CASE StockDetail(h)
        BY <2>1, <3>3 DEF StockDetail, Answer, db, ghosts
      <3>4. CASE BackStock(h)
        BY <2>1, <3>4 DEF BackStock, Answer, db, ghosts
      <3> QED
        BY <1>7, <3>1, <3>2, <3>3, <3>4
    <2> QED
      BY <1>1, <2>2
  <1>8. ASSUME NEW i \in Instance, Crash(i) PROVE LedgerInv'
    <2> DEFINE H == {g \in Handler : at[g] = i /\ Running(g)}
    <2>1. /\ RollbackTx(H) /\ UNCHANGED <<req, k, stock, deducted>>
          /\ \A g \in Handler : g \notin H => pc'[g] = pc[g] /\ taken'[g] = taken[g]
          /\ \A g \in H : pc'[g] = "dead"
          /\ \A g \in H : pc[g] # "return" => taken'[g] = Nothing
          /\ \A g \in H : pc[g] = "return" => taken'[g] = taken[g]
      BY <1>8 DEF Crash
    <2>2. \A g \in H : pc[g] = "return" /\ g \notin deducted => taken[g] = Nothing
      <3> SUFFICES ASSUME NEW g \in H, pc[g] = "return", g \notin deducted
                   PROVE  taken[g] = Nothing
        OBVIOUS
      <3>1. \A p \in Stocked : rowLock[p] # g
        BY NoneAssumption DEF LockInv, LockDiscipline
      <3>2. \A p \in Stocked : taken[g][p] = 0
        BY <3>1 DEF LedgerInv, TakenCovered
      <3> QED
        BY <3>2 DEF TypeInv, TypeOK, Nothing
    <2>3. \A g \in H : taken'[g] = Nothing \/ (g \in deducted /\ taken'[g] = taken[g])
      BY <2>1, <2>2
    <2> HIDE DEF H
    <2>4. H \in SUBSET Handler
      BY DEF H
    <2> QED
      BY <2>1, <2>3, <2>4, LedgerRollback
  <1>9. CASE UNCHANGED vars
    BY <1>9 DEF vars, LedgerInv, FreshUnderLock, ReadFresh, DirtyByOwner, TakenCovered
  <1> QED
    BY <1>2, <1>3, <1>4, <1>5, <1>6, <1>7, <1>8, <1>9, LedgerSelect,
       LedgerUpdate, LedgerCommit, LedgerSave
       DEF Next, Handle, SellStep, SellNoRow, SellDenied, SellNotEnough,
           SetStock, Terminating

\* Quantities being non-negative, a row that a Sell has read for update does
\* not change before the Sell writes it, and every uncommitted difference is
\* accounted for by the one Sell that locks the row.
THEOREM ReadsStayFresh ==
    ASSUME NonNegative PROVE Spec => []FreshUnderLock
  <1>1. Spec => [](TypeInv /\ LockInv /\ LedgerInv)
    BY TypeInit, TypeStep, LockInit, LockStep, LedgerInit, LedgerStep, PTL DEF Spec
  <1>2. LedgerInv => FreshUnderLock
    BY DEF LedgerInv
  <1> QED
    BY <1>1, <1>2, PTL

-----------------------------------------------------------------------------
(* A Sell takes what its basket orders *)

\* Induction, for a set of naturals: a least number outside T has a
\* predecessor in T.
LEMMA AllNaturals ==
    ASSUME NEW T, 0 \in T, \A n \in Nat : n \in T => n + 1 \in T
    PROVE  \A n \in Nat : n \in T
  <1> DEFINE Others == {n \in Nat : n \notin T}
             Less == OpToRel(<, Nat)
  <1> SUFFICES ASSUME Others # {} PROVE FALSE
    OBVIOUS
  <1>1. PICK x \in Others : \A y \in Others : <<y, x>> \notin Less
    <2>1. IsWellFoundedOn(Less, Nat) /\ Others \in SUBSET Nat
      BY NatLessThanWellFounded
    <2> HIDE DEF Less, Others
    <2> QED
      BY <2>1, WFMin
  <1>2. x \in Nat /\ x # 0 /\ x \notin T
    BY <1>1
  <1>3. x - 1 \in Nat /\ x - 1 < x
    BY <1>2
  <1>4. <<x - 1, x>> \in Less
    BY <1>2, <1>3 DEF OpToRel
  <1>5. x - 1 \in T
    BY <1>1, <1>3, <1>4
  <1> HIDE DEF Others, Less
  <1> QED
    BY <1>2, <1>3, <1>5

\* f adds up the first n items.
SumsItems(items, p, n, f) ==
    f = [i \in 0 .. n |->
            IF i = 0 THEN 0
            ELSE f[i - 1] + (IF items[i].p = p THEN items[i].num ELSE 0)]

\* The recursion of OrderedBy defines a function.
LEMMA OrderedExists ==
    ASSUME NEW items, NEW p
    PROVE  \A n \in Nat : \E f : SumsItems(items, p, n, f)
  <1> DEFINE T == {n \in Nat : \E f : SumsItems(items, p, n, f)}
  <1>1. 0 \in T
    <2>1. SumsItems(items, p, 0, [i \in 0 .. 0 |-> 0])
      BY DEF SumsItems
    <2> QED
      BY <2>1
  <1>2. ASSUME NEW n \in Nat, n \in T PROVE n + 1 \in T
    <2>1. PICK f : SumsItems(items, p, n, f)
      BY <1>2
    <2> DEFINE v == IF items[n + 1].p = p THEN items[n + 1].num ELSE 0
               g == [i \in 0 .. n + 1 |-> IF i = n + 1 THEN f[n] + v ELSE f[i]]
    <2>2. \A i \in 0 .. n :
             f[i] = IF i = 0 THEN 0
                    ELSE f[i - 1] + (IF items[i].p = p THEN items[i].num ELSE 0)
      BY <2>1 DEF SumsItems
    <2>3. \A i \in 0 .. n + 1 :
             g[i] = IF i = 0 THEN 0
                    ELSE g[i - 1] + (IF items[i].p = p THEN items[i].num ELSE 0)
      <3>1. \A i \in 0 .. n : g[i] = f[i]
        OBVIOUS
      <3>2. g[n + 1] = g[n] + v
        BY <3>1
      <3> HIDE DEF g
      <3> QED
        BY <2>2, <3>1, <3>2
    <2>4. SumsItems(items, p, n + 1, g)
      BY <2>3 DEF SumsItems
    <2> QED
      BY <2>4
  <1>3. \A n \in Nat : n \in T
    <2> HIDE DEF T
    <2> QED
      BY <1>1, <1>2, AllNaturals
  <1> QED
    BY <1>3

LEMMA OrderedNext ==
    ASSUME NEW items, NEW p, Len(items) \in Nat
    PROVE  /\ OrderedBy(items, p)[0] = 0
           /\ \A n \in 1 .. Len(items) :
                OrderedBy(items, p)[n] = OrderedBy(items, p)[n - 1] +
                    (IF items[n].p = p THEN items[n].num ELSE 0)
  <1> DEFINE f == CHOOSE g : SumsItems(items, p, Len(items), g)
  <1>1. \E g : SumsItems(items, p, Len(items), g)
    BY OrderedExists
  <1>2. SumsItems(items, p, Len(items), f)
    BY <1>1
  <1>3. OrderedBy(items, p) = f
    BY DEF OrderedBy, SumsItems
  <1> HIDE DEF f
  <1>4. \A i \in 0 .. Len(items) :
           f[i] = IF i = 0 THEN 0
                  ELSE f[i - 1] + (IF items[i].p = p THEN items[i].num ELSE 0)
    BY <1>2 DEF SumsItems
  <1> QED
    BY <1>3, <1>4

\* The loop has taken what the items before its index order.
TakenOf(h) ==
    /\ pc[h] \in {"idle", "Sell"} =>
          k[h] = 1 /\ \A p \in Stocked : taken[h][p] = 0
    /\ pc[h] \in {"select", "update"} =>
          /\ k[h] <= Len(req[h].items) + 1
          /\ \A p \in Stocked : taken[h][p] = OrderedBy(req[h].items, p)[k[h] - 1]
TakenInv == \A h \in Handler : TakenOf(h)

LEMMA TakenInit == Init => TakenInv
  BY DEF Init, TakenInv, TakenOf, Nothing

LEMMA TakenStep == TypeInv /\ TakenInv /\ [Next]_vars => TakenInv'
  <1> SUFFICES ASSUME TypeInv, TakenInv, [Next]_vars, NEW g \in Handler
               PROVE  TakenOf(g)'
    BY DEF TakenInv
  <1>1. /\ TakenOf(g) /\ pc \in [Handler -> PC] /\ Len(req[g].items) \in Nat
        /\ k \in [Handler -> Nat \ {0}]
    BY DEF TakenInv, TypeInv, TypeOK, Request
  \* a step after which g is as it was, or past its loop
  <1>2. ASSUME \/ pc'[g] \notin {"idle", "Sell", "select", "update"}
               \/ /\ pc'[g] = pc[g] /\ k'[g] = k[g]
                  /\ req'[g] = req[g] /\ taken'[g] = taken[g]
        PROVE  TakenOf(g)'
    BY <1>1, <1>2 DEF TakenOf
  <1>3. ASSUME NEW h \in Handler, NEW i \in Instance, NEW r \in Req, Arrive(h, i, r)
        PROVE  TakenOf(g)'
    <2>1. r.op \in Op
      BY ReqAssumption DEF Request
    <2> QED
      BY <1>1, <1>2, <1>3, <2>1 DEF Arrive, ghosts, Op, TakenOf, TypeInv, TypeOK
  <1>4. ASSUME NEW h \in Handler, SellLock(h) PROVE TakenOf(g)'
    <2>1. CASE g = h
      <3>1. /\ pc[g] = "Sell" /\ pc'[g] = "select"
            /\ UNCHANGED <<k, req, taken>>
        BY <1>1, <1>4, <2>1 DEF SellLock, ghosts
      <3>2. \A p \in Stocked : OrderedBy(req[g].items, p)[0] = 0
        BY <1>1, OrderedNext
      <3> QED
        BY <1>1, <3>1, <3>2 DEF TakenOf
    <2>2. CASE g # h
      BY <1>1, <1>2, <1>4, <2>2 DEF SellLock, ghosts
    <2> QED
      BY <2>1, <2>2
  <1>5. ASSUME NEW h \in Handler, SellSelect(h) PROVE TakenOf(g)'
    <2>1. /\ pc[h] = "select" /\ pc' = [pc EXCEPT ![h] = "update"]
          /\ UNCHANGED <<k, req, taken>>
      BY <1>5 DEF SellSelect, InLoop, ghosts
    <2> QED
      BY <1>1, <2>1 DEF TakenOf
  <1>6. ASSUME NEW h \in Handler, SellUpdate(h) PROVE TakenOf(g)'
    <2>1. /\ pc[h] = "update" /\ pc' = [pc EXCEPT ![h] = "select"]
          /\ k' = [k EXCEPT ![h] = @ + 1] /\ UNCHANGED req
          /\ taken' = [taken EXCEPT ![h][req[h].items[k[h]].p] =
                          @ + req[h].items[k[h]].num]
          /\ taken \in [Handler -> [Stocked -> Int]]
      BY <1>6 DEF SellUpdate, TypeInv, TypeOK
    <2>2. CASE g = h
      <3> DEFINE item == req[g].items[k[g]]
      <3>1. k[g] \in 1 .. Len(req[g].items) /\ item.num \in Int
        BY <2>1, <2>2, LoopItem, ItemNum
      <3>2. /\ pc'[g] = "select" /\ k'[g] = k[g] + 1
            /\ \A p \in Stocked :
                  taken'[g][p] = taken[g][p] + (IF item.p = p THEN item.num ELSE 0)
        BY <1>1, <2>1, <2>2, <3>1
      <3>3. \A p \in Stocked :
               OrderedBy(req[g].items, p)[k[g]] = OrderedBy(req[g].items, p)[k[g] - 1]
                   + (IF item.p = p THEN item.num ELSE 0)
        BY <1>1, <3>1, OrderedNext
      <3>4. \A p \in Stocked : taken[g][p] = OrderedBy(req[g].items, p)[k[g] - 1]
        BY <1>1, <2>1, <2>2 DEF TakenOf
      <3>5. k'[g] - 1 = k[g] /\ k'[g] <= Len(req[g].items) + 1
        BY <1>1, <3>1, <3>2
      <3> HIDE DEF item
      <3> QED
        BY <2>1, <3>2, <3>3, <3>4, <3>5 DEF TakenOf
    <2>3. CASE g # h
      BY <1>1, <1>2, <2>1, <2>3
    <2> QED
      BY <2>2, <2>3
  <1>7. ASSUME NEW h \in Handler, NEW x \in {"return", "save", "done"},
               pc' = [pc EXCEPT ![h] = x], UNCHANGED <<k, req>>,
               \A f \in Handler : f # h => taken'[f] = taken[f]
        PROVE  TakenOf(g)'
    BY <1>1, <1>2, <1>7
  <1>8. ASSUME NEW h \in Handler, SellNoRow(h) \/ SellDenied(h) \/ SellNotEnough(h)
                  \/ SellCommit(h) \/ SellCommitFails(h) \/ SellReturn(h)
        PROVE  TakenOf(g)'
    <2>1. taken \in [Handler -> [Stocked -> Int]]
      BY DEF TypeInv, TypeOK
    <2>2. /\ \E x \in {"return", "save", "done"} : pc' = [pc EXCEPT ![h] = x]
          /\ UNCHANGED <<k, req>>
          /\ \A f \in Handler : f # h => taken'[f] = taken[f]
      BY <1>8, <2>1 DEF SellNoRow, SellDenied, SellNotEnough, SellFail, SellCommit,
                        SellCommitFails, SellReturn, Answer, ghosts
    <2> QED
      BY <1>7, <2>2
  <1>9. ASSUME NEW h \in Handler, SetStock(h) \/ StockDetail(h) \/ BackStock(h)
        PROVE  TakenOf(g)'
    <2>1. /\ \E x \in {"return", "save", "done"} : pc' = [pc EXCEPT ![h] = x]
          /\ UNCHANGED <<k, req, taken>>
      BY <1>9 DEF SetStock, SetStockRead, SetStockSave, SetStockDenied, StockDetail,
                  BackStock, Answer, ghosts
    <2> QED
      BY <1>7, <2>1
  <1>10. ASSUME NEW i \in Instance, Crash(i) PROVE TakenOf(g)'
    BY <1>1, <1>2, <1>10 DEF Crash
  <1>11. ASSUME UNCHANGED vars PROVE TakenOf(g)'
    BY <1>2, <1>11 DEF vars
  <1>12. ASSUME NEW h \in Handler, Handle(h) PROVE TakenOf(g)'
    BY <1>4, <1>5, <1>6, <1>8, <1>9, <1>12 DEF Handle, SellStep
  <1> QED
    BY <1>3, <1>10, <1>11, <1>12 DEF Next, Terminating

-----------------------------------------------------------------------------
(* Sells alone: nothing is lost, nothing is sold twice *)

AllInv == TypeInv /\ LockInv /\ LedgerInv

LEMMA AllInvHolds == ASSUME NonNegative PROVE Spec => []AllInv
  <1>1. AllInv /\ [Next]_vars => AllInv'
    BY TypeStep, LockStep, LedgerStep DEF AllInv
  <1>2. Init => AllInv
    BY TypeInit, LockInit, LedgerInit DEF AllInv
  <1> QED
    BY <1>1, <1>2, PTL DEF Spec

\* Only a SetStock's Save and a Sell's commit change the committed table.
LEMMA CommittedFrame ==
    ASSUME Next, \A h \in Handler : ~SellCommit(h) /\ ~SetStockSave(h)
    PROVE  UNCHANGED <<committed, sold, deducted>>
  <1>1. ASSUME NEW h \in Handler, SellStep(h) PROVE UNCHANGED <<committed, sold, deducted>>
    BY <1>1 DEF SellStep, SellLock, SellNoRow, SellDenied, SellNotEnough, SellFail,
                SellSelect, SellUpdate, SellCommitFails, SellReturn, RollbackTx,
                db, ghosts
  <1>2. ASSUME NEW h \in Handler, SetStock(h) \/ StockDetail(h) \/ BackStock(h)
        PROVE  UNCHANGED <<committed, sold, deducted>>
    BY <1>2 DEF SetStock, SetStockRead, SetStockDenied, StockDetail, BackStock,
                db, ghosts
  <1> QED
    BY <1>1, <1>2
       DEF Next, Handle, Arrive, Crash, RollbackTx, Terminating, db, ghosts, vars

\* A commit takes from each row what the transaction took, no more than there is.
LEMMA CommitEffect ==
    ASSUME AllInv, NEW h \in Handler, SellCommit(h), NEW p \in Stocked
    PROVE  /\ committed'[p].num = committed[p].num - taken[h][p]
           /\ taken[h][p] \in Nat
           /\ taken[h][p] # 0 => taken[h][p] <= committed[p].num
           /\ sold'[p] = sold[p] + taken[h][p]
  <1>1. /\ DirtyByOwner(p) /\ TakenCovered(h)
        /\ rows[p].num \in Int /\ committed[p].num \in Int
        /\ rowLock \in [Stocked -> Handler \cup {None}]
    BY RowNum DEF AllInv, LedgerInv, FreshUnderLock, TypeInv, TypeOK
  <1>2. h \notin deducted
    BY DEF SellCommit, LoopOver, AllInv, LockInv, MutexHeld
  <1>3. /\ committed'[p] = IF rowLock[p] = h THEN rows[p] ELSE committed[p]
        /\ sold'[p] = sold[p] + taken[h][p]
    BY DEF SellCommit, CommitTx
  <1>4. CASE rowLock[p] = h
    <2>1. rows[p].num = committed[p].num - taken[h][p]
      BY <1>1, <1>4, NoneAssumption DEF DirtyByOwner
    <2> QED
      BY <1>1, <1>2, <1>3, <1>4, <2>1 DEF TakenCovered
  <1>5. CASE rowLock[p] # h
    BY <1>1, <1>2, <1>3, <1>5 DEF TakenCovered
  <1> QED
    BY <1>4, <1>5

LEMMA ExactStep == AllInv /\ TakenInv /\ [Next]_vars => [SellExactStep]_vars
  <1> SUFFICES ASSUME AllInv, TakenInv, Next,
                      NEW h \in Handler, req[h].op = "Sell", pc[h] # "idle",
                      pc'[h] # pc[h], NEW p \in Stocked
               PROVE  committed'[p].num = committed[p].num -
                         (IF h \in deducted' \ deducted
                            THEN Ordered(req[h].items, p) ELSE 0)
    BY DEF SellExactStep
  <1>1. committed[p].num \in Int /\ pc \in [Handler -> PC]
    BY RowNum DEF AllInv, TypeInv, TypeOK
  <1>2. CASE \E g \in Handler : SellCommit(g)
    <2>1. PICK g \in Handler : SellCommit(g)
      BY <1>2
    <2>2. /\ g = h /\ pc[h] = "select" /\ k[h] > Len(req[h].items)
          /\ deducted' = deducted \cup {h}
      BY <1>1, <2>1 DEF SellCommit, LoopOver
    <2>3. h \notin deducted
      BY <2>2 DEF AllInv, LockInv, MutexHeld
    <2>4. committed'[p].num = committed[p].num - taken[h][p]
      BY <2>1, <2>2, CommitEffect
    <2>5. /\ k[h] <= Len(req[h].items) + 1
          /\ taken[h][p] = OrderedBy(req[h].items, p)[k[h] - 1]
      BY <2>2 DEF TakenInv, TakenOf
    <2>6. k[h] - 1 = Len(req[h].items)
      BY <2>2, <2>5 DEF AllInv, TypeInv, TypeOK, Request
    <2> QED
      BY <2>2, <2>3, <2>4, <2>5, <2>6 DEF Ordered
  <1>3. CASE \E g \in Handler : SetStockSave(g)
    <2>1. PICK g \in Handler : SetStockSave(g)
      BY <1>3
    <2>2. g = h /\ pc[h] = "save"
      BY <1>1, <2>1 DEF SetStockSave, Answer
    <2> QED
      BY <2>2 DEF AllInv, TypeInv, Control, ControlOf
  <1>4. CASE \A g \in Handler : ~SellCommit(g) /\ ~SetStockSave(g)
    BY <1>1, <1>4, CommittedFrame
  <1> QED
    BY <1>2, <1>3, <1>4

\* Quantities being non-negative, a Sell takes from every row exactly what its
\* basket orders, in the one step of its commit (stock.go:51-70).
THEOREM SellsAreExact == ASSUME NonNegative PROVE Spec => SellExact
  <1>1. Spec => [](AllInv /\ TakenInv)
    <2>1. AllInv /\ TakenInv /\ [Next]_vars => TakenInv'
      BY TakenStep DEF AllInv
    <2> QED
      BY <2>1, AllInvHolds, TakenInit, PTL DEF Spec
  <1> QED
    BY <1>1, ExactStep, PTL DEF Spec, SellExact

\* Without SetStock requests no handler reaches SetStock's Save.
LEMMA NoSave ==
    ASSUME SellsOnly, TypeInv, NEW h \in Handler
    PROVE  ~SetStockSave(h)
  BY DEF SellsOnly, NoReq, TypeInv, Control, ControlOf, SetStockSave

SumInv ==
    /\ Conservation
    /\ \A p \in Stocked : Num0[p] >= 0 => committed[p].num >= 0

LEMMA SumInit == Init => SumInv
  BY Num0Assumption, MaxAssumption
     DEF Init, SumInv, Conservation, Nothing, Int32

LEMMA SumStep ==
    ASSUME SellsOnly PROVE AllInv /\ SumInv /\ [Next]_vars => SumInv'
  <1> SUFFICES ASSUME AllInv, SumInv, [Next]_vars PROVE SumInv'
    OBVIOUS
  <1>1. \A p \in Stocked : /\ committed[p].num \in Int /\ sold[p] \in Int
                           /\ Num0[p] \in Int
    BY RowNum, Num0Assumption, MaxAssumption DEF AllInv, TypeInv, TypeOK, Int32
  <1>2. CASE \E h \in Handler : SellCommit(h)
    <2>1. PICK h \in Handler : SellCommit(h)
      BY <1>2
    <2> QED
      BY <1>1, <2>1, CommitEffect DEF SumInv, Conservation
  <1>3. CASE UNCHANGED <<committed, sold, deducted>>
    BY <1>3 DEF SumInv, Conservation
  <1> QED
    BY <1>2, <1>3, NoSave, CommittedFrame DEF AllInv, vars

\* Sells of non-negative quantities, on any number of instances and with any
\* crashes, lose no unit and sell none twice.
THEOREM StockConserved ==
    ASSUME NonNegative, SellsOnly PROVE Spec => []Conservation
  <1>1. Spec => [](AllInv /\ SumInv)
    BY AllInvHolds, SumInit, SumStep, PTL DEF Spec
  <1>2. SumInv => Conservation
    BY DEF SumInv
  <1> QED
    BY <1>1, <1>2, PTL

\* Nor do they ever sell more than there was.
THEOREM StockNeverOversold ==
    ASSUME NonNegative, SellsOnly PROVE Spec => []NeverOversold
  <1>1. Spec => [](AllInv /\ SumInv)
    BY AllInvHolds, SumInit, SumStep, PTL DEF Spec
  <1>2. AllInv /\ SumInv => NeverOversold
    <2> SUFFICES ASSUME AllInv, SumInv, NEW p \in Stocked, Num0[p] >= 0
                 PROVE  rows[p].num >= 0 /\ sold[p] <= Num0[p]
      BY DEF NeverOversold
    <2>1. /\ committed[p].num \in Int /\ sold[p] \in Int /\ Num0[p] \in Int
          /\ rows[p].num \in Int /\ rowLock[p] \in Handler \cup {None}
      BY RowNum, Num0Assumption, MaxAssumption DEF AllInv, TypeInv, TypeOK, Int32
    <2>2. committed[p].num >= 0 /\ sold[p] <= Num0[p]
      BY <2>1 DEF SumInv, Conservation
    <2>3. DirtyByOwner(p)
      BY DEF AllInv, LedgerInv, FreshUnderLock
    <2>4. CASE rowLock[p] = None
      BY <2>2, <2>3, <2>4 DEF DirtyByOwner
    <2>5. CASE rowLock[p] # None
      <3> DEFINE h == rowLock[p]
      <3>1. h \in Handler /\ h \notin deducted /\ TakenCovered(h)
        BY <2>1, <2>5 DEF AllInv, LockInv, LockDiscipline, MutexHeld, LedgerInv
      <3>2. taken[h][p] # 0 => rows[p].num >= 0
        BY <3>1 DEF TakenCovered
      <3>3. taken[h][p] = 0 => rows[p].num >= 0
        BY <2>1, <2>2, <2>3, <2>5 DEF DirtyByOwner
      <3> QED
        BY <2>2, <3>2, <3>3
    <2> QED
      BY <2>2, <2>4, <2>5
  <1> QED
    BY <1>1, <1>2, PTL

-----------------------------------------------------------------------------
(* One instance *)

\* With a single instance of the service its mutex keeps Sells from ever
\* waiting for each other's rows, so "product not found" means what it says.
THEOREM NotFoundIsHonest ==
    ASSUME OneInstance PROVE Spec => []NotFoundMeansMissing
  <1> DEFINE Inv == TypeInv /\ LockInv /\ NotFoundMeansMissing
                    /\ \A h \in Handler : reply[h] # "none" => pc[h] = "done"
  <1>1. Init => Inv
    BY TypeInit, LockInit DEF Init, NotFoundMeansMissing
  <1>2. Inv /\ [Next]_vars => Inv'
    <2> SUFFICES ASSUME Inv, [Next]_vars
                 PROVE  /\ NotFoundMeansMissing'
                        /\ \A h \in Handler : reply'[h] # "none" => pc'[h] = "done"
      BY TypeStep, LockStep
    <2>1. ASSUME NEW h \in Handler, SellDenied(h) PROVE FALSE
      <3> DEFINE p == req[h].items[k[h]].p
                 g == rowLock[p]
      <3>1. pc[h] = "select" /\ p \in Stocked /\ g \notin {None, h}
        BY <2>1 DEF SellDenied, InLoop
      <3> HIDE DEF p
      <3>2. g \in Handler /\ pc[g] \in {"select", "update"} /\ mutex[at[g]] = g
        <4>1. rowLock \in [Stocked -> Handler \cup {None}]
          BY DEF TypeInv, TypeOK
        <4> QED
          BY <3>1, <4>1 DEF LockInv, LockDiscipline
      <3>3. mutex[at[h]] = h /\ at[h] \in Instance /\ at[g] \in Instance
        BY <3>1, <3>2 DEF LockInv, MutexHeld, TypeInv, Control, ControlOf, Running
      <3> QED
        BY <3>1, <3>2, <3>3 DEF OneInstance
    <2> DEFINE Missing(h) == \E j \in 1 .. Len(req[h].items) :
                                req[h].items[j].p \notin Stocked
               Goal == /\ NotFoundMeansMissing'
                       /\ \A h \in Handler : reply'[h] # "none" => pc'[h] = "done"
    <2>2. ASSUME NEW h \in Handler, NEW e, Answer(h, e), UNCHANGED req,
                 e = "ProductNotFound" /\ req[h].op = "Sell" => Missing(h)
          PROVE  Goal
      BY <2>2 DEF Answer, NotFoundMeansMissing, TypeInv, TypeOK
    <2>3. ASSUME UNCHANGED reply,
                 \A h \in Handler : pc[h] = "done" =>
                    pc'[h] = "done" /\ req'[h] = req[h]
          PROVE  Goal
      BY <2>3 DEF NotFoundMeansMissing
    <2> HIDE DEF Goal
    <2>4. ASSUME NEW h \in Handler, NEW i \in Instance, NEW r \in Req, Arrive(h, i, r)
          PROVE  Goal
      BY <2>3, <2>4 DEF Arrive, TypeInv, TypeOK
    <2>5. ASSUME NEW h \in Handler, SellNoRow(h) PROVE Goal
      <3>1. k[h] \in 1 .. Len(req[h].items)
        <4>1. k[h] <= Len(req[h].items)
          BY <2>5 DEF SellNoRow, InLoop
        <4>2. k[h] \in Nat \ {0} /\ Len(req[h].items) \in Nat
          BY DEF TypeInv, TypeOK, Request
        <4> QED
          BY <4>1, <4>2
      <3> QED
        BY <2>2, <2>5, <3>1 DEF SellNoRow, SellFail
    <2>6. ASSUME NEW h \in Handler,
                 SellNotEnough(h) \/ SellReturn(h) PROVE Goal
      BY <2>2, <2>6 DEF SellNotEnough, SellFail, SellReturn
    <2>7. ASSUME NEW h \in Handler,
                 \/ SellLock(h) \/ SellSelect(h) \/ SellUpdate(h)
                 \/ SellCommit(h) \/ SellCommitFails(h)
          PROVE  Goal
      BY <2>3, <2>7 DEF SellLock, SellSelect, SellUpdate, SellCommit,
                        SellCommitFails, LoopOver, InLoop, TypeInv, TypeOK
    <2>8. ASSUME NEW h \in Handler, SetStock(h) PROVE Goal
      <3>1. CASE SetStockRead(h)
        <4>1. req[h].op # "Sell" /\ pc[h] = "SetStock"
          BY <3>1 DEF SetStockRead, TypeInv, Control, ControlOf
        <4> QED
          BY <2>2, <2>3, <3>1, <4>1 DEF SetStockRead, TypeInv, TypeOK
      <3>2. CASE SetStockSave(h) \/ SetStockDenied(h)
        BY <2>2, <3>2 DEF SetStockSave, SetStockDenied
      <3> QED
        BY <2>8, <3>1, <3>2 DEF SetStock
    <2>9. ASSUME NEW h \in Handler, StockDetail(h) PROVE Goal
      BY <2>2, <2>9 DEF StockDetail
    <2>10. ASSUME NEW h \in Handler, BackStock(h) PROVE Goal
      <3>1. req[h].op # "Sell"
        BY <2>10 DEF BackStock, TypeInv, Control, ControlOf
      <3> QED
        BY <2>2, <2>10, <3>1 DEF BackStock
    <2>11. ASSUME NEW i \in Instance, Crash(i) PROVE Goal
      BY <2>3, <2>11 DEF Crash, Running
    <2>12. ASSUME UNCHANGED vars PROVE Goal
      BY <2>3, <2>12 DEF vars
    <2>13. Goal
      BY <2>1, <2>4, <2>5, <2>6, <2>7, <2>8, <2>9, <2>10, <2>11, <2>12
         DEF Next, Handle, SellStep, Terminating
    <2> QED
      BY <2>13 DEF Goal
  <1> QED
    BY <1>1, <1>2, PTL DEF Spec

-----------------------------------------------------------------------------
(* Stock implements StockAbs: whatever the interleaving of the handlers of  *)
(* all instances, and whichever instances crash, a Sell is one atomic step. *)

\* A handler has replied exactly when it is done, and reaches its return only
\* with its transaction committed (no commit fails).
ReplyInv ==
    \A h \in Handler : /\ reply[h] # "none" => pc[h] = "done"
                       /\ pc[h] = "return" => h \in deducted
                       /\ pc[h] = "idle" => req[h].op = "Sell"

LEMMA ReplyInit == Init => ReplyInv
  BY DEF Init, ReplyInv, NoReq

LEMMA ReplyStep ==
    ASSUME "commit" \notin Faults
    PROVE  TypeInv /\ LockInv /\ ReplyInv /\ [Next]_vars => ReplyInv'
  <1> SUFFICES ASSUME TypeInv, LockInv, ReplyInv, Next \/ UNCHANGED vars,
                      NEW g \in Handler
               PROVE  /\ reply'[g] # "none" => pc'[g] = "done"
                      /\ pc'[g] = "return" => g \in deducted'
                      /\ pc'[g] = "idle" => req'[g].op = "Sell"
    BY DEF ReplyInv
  <1> DEFINE Goal == /\ reply'[g] # "none" => pc'[g] = "done"
                     /\ pc'[g] = "return" => g \in deducted'
                     /\ pc'[g] = "idle" => req'[g].op = "Sell"
  <1>1. /\ pc \in [Handler -> PC] /\ reply \in [Handler -> Reply]
        /\ reply[g] # "none" => pc[g] = "done"
        /\ pc[g] = "return" => g \in deducted
        /\ pc[g] = "idle" => req[g].op = "Sell"
    BY DEF TypeInv, TypeOK, ReplyInv
  <1>2. ASSUME NEW h \in Handler, NEW e, Answer(h, e), UNCHANGED <<req, deducted>>
        PROVE  Goal
    BY <1>1, <1>2 DEF Answer
  <1>3. ASSUME NEW h \in Handler, NEW x \in PC \ {"idle", "done", "return"},
               pc[h] # "done", pc' = [pc EXCEPT ![h] = x],
               req' = req \/ g = h, UNCHANGED <<reply, deducted>>
        PROVE  Goal
    BY <1>1, <1>3
  <1>4. ASSUME NEW h \in Handler, SellCommit(h) PROVE Goal
    BY <1>1, <1>4 DEF SellCommit, LoopOver
  <1>5. ASSUME NEW h \in Handler, NEW i \in Instance, NEW r \in Req, Arrive(h, i, r)
        PROVE  Goal
    <2>1. r.op \in Op
      BY ReqAssumption DEF Request
    <2> QED
      BY <1>1, <1>5, <2>1 DEF Arrive, ghosts, Op, TypeInv, TypeOK
  <1>6. ASSUME NEW i \in Instance, Crash(i) PROVE Goal
    BY <1>1, <1>6 DEF Crash, Running
  <1>7. ASSUME UNCHANGED vars PROVE Goal
    BY <1>1, <1>7 DEF vars
  <1> HIDE DEF Goal
  <1>8. ASSUME NEW h \in Handler, SellNoRow(h) \/ SellDenied(h) \/ SellNotEnough(h)
        PROVE  Goal
    BY <1>2, <1>8 DEF SellNoRow, SellDenied, SellNotEnough, SellFail
  <1>9. ASSUME NEW h \in Handler, SellLock(h) \/ SellSelect(h) \/ SellUpdate(h)
        PROVE  Goal
    BY <1>3, <1>9 DEF SellLock, SellSelect, SellUpdate, InLoop, ghosts, PC
  <1>10. ASSUME NEW h \in Handler, SetStockRead(h) PROVE Goal
    <2>1. \/ Answer(h, "ParamError") /\ UNCHANGED <<req, deducted>>
          \/ pc' = [pc EXCEPT ![h] = "save"] /\ UNCHANGED <<reply, req, deducted>>
      BY <1>10 DEF SetStockRead, ghosts
    <2>2. pc[h] = "SetStock"
      BY <1>10 DEF SetStockRead
    <2> QED
      BY <1>2, <1>3, <2>1, <2>2 DEF PC
  <1>11. ASSUME NEW h \in Handler, SellReturn(h) \/ SetStockSave(h)
                \/ SetStockDenied(h) \/ StockDetail(h) \/ BackStock(h)
         PROVE  Goal
    BY <1>2, <1>11 DEF SellReturn, SetStockSave, SetStockDenied, StockDetail,
                       BackStock, ghosts
  <1>12. \A h \in Handler : ~SellCommitFails(h)
    BY DEF SellCommitFails
  <1>13. Goal
    BY <1>4, <1>5, <1>6, <1>7, <1>8, <1>9, <1>10, <1>11, <1>12
       DEF Next, Handle, SellStep, SetStock, Terminating
  <1> QED
    BY <1>13 DEF Goal

RefInv == AllInv /\ ReplyInv

LEMMA RefInit == Init => Abs!AbsInit
  <1> SUFFICES ASSUME Init PROVE Abs!AbsInit
    OBVIOUS
  <1>1. absAvail = Num0
    BY Num0Assumption DEF absAvail, Init
  <1>2. absTook = [h \in Handler |-> Nothing]
    BY DEF absTook, Init
  <1>3. absPhase = [h \in Handler |-> "open"]
    BY DEF absPhase, Init
  <1> QED
    BY <1>1, <1>2, <1>3 DEF Abs!AbsInit, Abs!AbsNothing, Nothing

\* A commit is the step that takes the whole basket.
LEMMA CommitTakes ==
    ASSUME RefInv, NEW h \in Handler, SellCommit(h)
    PROVE  Abs!Take(h)
  <1>1. /\ pc[h] = "select" /\ h \notin deducted /\ reply[h] = "none"
        /\ req[h].op = "Sell"
        /\ deducted' = deducted \cup {h} /\ UNCHANGED <<taken, reply, req>>
        /\ taken \in [Handler -> [Stocked -> Int]]
    BY DEF SellCommit, LoopOver, RefInv, AllInv, ReplyInv, LockInv, MutexHeld,
           TypeInv, TypeOK, Control, ControlOf
  <1>2. absPhase[h] = "open" /\ absPhase' = [absPhase EXCEPT ![h] = "taken"]
    BY <1>1 DEF absPhase
  <1>3. absTook' = [absTook EXCEPT ![h] = taken[h]] /\ absTook'[h] = taken[h]
    BY <1>1 DEF absTook
  <1>4. \A p \in Stocked : /\ taken[h][p] \in Nat
                           /\ taken[h][p] # 0 => taken[h][p] <= absAvail[p]
                           /\ committed'[p].num = absAvail[p] - taken[h][p]
    BY CommitEffect DEF RefInv, absAvail
  <1>5. absAvail' = [p \in Stocked |-> absAvail[p] - taken[h][p]]
    BY <1>4 DEF absAvail
  <1> QED
    BY <1>2, <1>3, <1>4, <1>5 DEF Abs!Take

LEMMA RefStep ==
    ASSUME SellsOnly
    PROVE  RefInv /\ [Next]_vars => [Abs!AbsNext]_(Abs!absVars)
  <1> SUFFICES ASSUME RefInv, Next \/ UNCHANGED vars
               PROVE  Abs!AbsNext \/ UNCHANGED Abs!absVars
    OBVIOUS
  <1> DEFINE Goal == Abs!AbsNext \/ UNCHANGED Abs!absVars
  <1>1. /\ taken \in [Handler -> [Stocked -> Int]] /\ pc \in [Handler -> PC]
        /\ reply \in [Handler -> Reply]
        /\ \A g \in Handler : reply[g] # "none" => pc[g] = "done"
        /\ \A g \in deducted : pc[g] \in {"return", "done", "dead"}
    BY DEF RefInv, AllInv, TypeInv, TypeOK, ReplyInv, LockInv, MutexHeld
  <1>2. ASSUME UNCHANGED <<committed, deducted>>,
               \A g \in Handler : /\ taken'[g] = taken[g] \/ g \notin deducted
                                  /\ absPhase'[g] = absPhase[g]
        PROVE  Goal
    BY <1>2 DEF Abs!absVars, absAvail, absTook, absPhase
  <1>3. ASSUME UNCHANGED <<committed, deducted, reply>>,
               \A g \in Handler : /\ taken'[g] = taken[g] \/ g \notin deducted
                                  /\ req'[g] = req[g] \/ reply[g] = "none"
        PROVE  Goal
    BY <1>2, <1>3 DEF absPhase
  <1>4. ASSUME NEW h \in Handler, SellCommit(h) PROVE Goal
    BY <1>4, CommitTakes DEF Abs!AbsNext
  <1>5. ASSUME NEW h \in Handler, SellReturn(h) PROVE Goal
    <2>1. /\ pc[h] = "return" /\ h \in deducted /\ reply[h] = "none"
          /\ req[h].op = "Sell" /\ reply' = [reply EXCEPT ![h] = "OK"]
          /\ UNCHANGED <<committed, deducted, taken, req>>
      BY <1>5 DEF SellReturn, Answer, db, ghosts, RefInv, ReplyInv, AllInv,
                  TypeInv, Control, ControlOf
    <2>2. absPhase[h] = "taken" /\ absPhase' = [absPhase EXCEPT ![h] = "acknowledged"]
      BY <1>1, <2>1 DEF absPhase
    <2>3. UNCHANGED <<absAvail, absTook>>
      BY <2>1 DEF absAvail, absTook
    <2> QED
      BY <2>2, <2>3 DEF Abs!AbsNext, Abs!Acknowledge
  <1>6. ASSUME NEW h \in Handler, pc[h] = "select", NEW e \in Reply \ {"none", "OK"},
               SellFail(h, e)
        PROVE  Goal
    <2>1. /\ h \notin deducted /\ reply[h] = "none" /\ req[h].op = "Sell"
          /\ reply' = [reply EXCEPT ![h] = e]
          /\ taken' = [taken EXCEPT ![h] = Nothing]
          /\ UNCHANGED <<committed, deducted, req>>
      BY <1>1, <1>6 DEF SellFail, Answer, RollbackTx, RefInv, AllInv, TypeInv, Control, ControlOf
    <2>2. absPhase[h] = "open" /\ absPhase' = [absPhase EXCEPT ![h] = "refused"]
      BY <1>1, <2>1 DEF absPhase
    <2>3. UNCHANGED <<absAvail, absTook>>
      BY <1>1, <2>1 DEF absAvail, absTook
    <2> QED
      BY <2>2, <2>3 DEF Abs!AbsNext, Abs!Refuse
  <1>7. ASSUME NEW h \in Handler, NEW e, Answer(h, e), req[h].op # "Sell",
               UNCHANGED <<committed, deducted, taken, req>>
        PROVE  Goal
    <2>1. \A g \in Handler : absPhase'[g] = absPhase[g]
      BY <1>1, <1>7 DEF absPhase, Answer
    <2> QED
      BY <1>2, <1>7, <2>1
  <1> HIDE DEF Goal
  <1>8. ASSUME NEW h \in Handler, SellNoRow(h) \/ SellDenied(h) \/ SellNotEnough(h)
        PROVE  Goal
    BY <1>6, <1>8 DEF SellNoRow, SellDenied, SellNotEnough, InLoop, Reply
  <1>9. ASSUME NEW h \in Handler, NEW i \in Instance, NEW r \in Req, Arrive(h, i, r)
        PROVE  Goal
    BY <1>1, <1>3, <1>9 DEF Arrive, db, ghosts, RefInv, AllInv, TypeInv, TypeOK
  <1>10. ASSUME NEW h \in Handler, SellLock(h) \/ SellSelect(h) PROVE Goal
    BY <1>3, <1>10 DEF SellLock, SellSelect, db, ghosts
  <1>11. ASSUME NEW h \in Handler, SellUpdate(h) PROVE Goal
    <2>1. /\ UNCHANGED <<committed, deducted, reply, req>>
          /\ pc[h] = "update"
          /\ \A g \in Handler : g # h => taken'[g] = taken[g]
      BY <1>1, <1>11 DEF SellUpdate
    <2> QED
      BY <1>1, <1>3, <2>1
  <1>12. ASSUME NEW h \in Handler, SellCommitFails(h) PROVE Goal
    <2>1. /\ UNCHANGED <<committed, deducted, reply, req>>
          /\ pc[h] = "select"
          /\ \A g \in Handler : g # h => taken'[g] = taken[g]
      BY <1>1, <1>12 DEF SellCommitFails, LoopOver, RollbackTx
    <2> QED
      BY <1>1, <1>3, <2>1
  <1>13. ASSUME NEW h \in Handler, SetStock(h) PROVE FALSE
    <2>1. pc[h] \in {"SetStock", "save"}
      BY <1>13 DEF SetStock, SetStockRead, SetStockSave, SetStockDenied
    <2>2. req[h] \in Req \cup {NoReq} /\ req[h].op = "SetStock"
      BY <2>1 DEF RefInv, AllInv, TypeInv, Control, ControlOf
    <2> QED
      BY <2>2 DEF SellsOnly, NoReq
  <1>14. ASSUME NEW h \in Handler, StockDetail(h) \/ BackStock(h) PROVE Goal
    <2>1. req[h].op # "Sell"
      BY <1>14 DEF StockDetail, BackStock, RefInv, AllInv, TypeInv, Control, ControlOf
    <2> QED
      BY <1>7, <1>14, <2>1 DEF StockDetail, BackStock, db, ghosts
  <1>15. ASSUME NEW i \in Instance, Crash(i) PROVE Goal
    <2>1. /\ UNCHANGED <<committed, deducted, reply, req>>
          /\ \A g \in Handler : pc[g] \in {"return", "done", "dead"} => taken'[g] = taken[g]
      BY <1>1, <1>15 DEF Crash, RollbackTx, Running
    <2> QED
      BY <1>1, <1>3, <2>1
  <1>16. ASSUME UNCHANGED vars PROVE Goal
    BY <1>3, <1>16 DEF vars
  <1>17. Goal
    BY <1>4, <1>5, <1>8, <1>9, <1>10, <1>11, <1>12, <1>13, <1>14, <1>15, <1>16
       DEF Next, Handle, SellStep, Terminating
  <1> QED
    BY <1>17 DEF Goal

\* When no commit fails, the Sells of all instances behave as one atomic stock:
\* every basket is taken whole, in one step, when it is covered, and a caller
\* is told OK only after that step and an error only if it never happens.
THEOREM SellRefinesAtomicStock ==
    ASSUME NonNegative, SellsOnly, "commit" \notin Faults
    PROVE  Spec => SellIsAtomic
  <1>1. Spec => []AllInv
    BY AllInvHolds
  <1>2. AllInv => TypeInv /\ LockInv
    BY DEF AllInv
  <1>3. Spec => []RefInv
    BY <1>1, <1>2, ReplyInit, ReplyStep, PTL DEF Spec, RefInv
  <1> QED
    BY <1>3, RefInit, RefStep, PTL DEF Spec, SellIsAtomic, Abs!AbsSpec
=============================================================================
