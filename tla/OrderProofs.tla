---------------------------- MODULE OrderProofs ----------------------------
(***************************************************************************)
(* Proofs about Order, for any orders, lines, accounts and stock, and any   *)
(* repaired slips and faults except where a theorem names its assumption.   *)
(***************************************************************************)
EXTENDS Order, TLAPS, FiniteSetTheorems

\* What StockFollowsOrder needs: nothing dies or goes unheard.
Orderly == Faults \subseteq {"db", "mq"} /\ Patched = Orders

-----------------------------------------------------------------------------
\* Beyond Sell, the stock is sold.
SoldInv ==
    /\ placed \subseteq sold
    /\ \A o \in Orders : pc[o] \in {"save", "delete", "send", "commit"} => o \in sold

\* A call that runs has an open half message, unless a check-back came early, and
\* only then an order can become placed; a placed order's own verdict is Rollback.
HalfOf(o) ==
    /\ InFlight(o) /\ o \notin misjudged \cup placed => half[o] = "half"
    /\ InFlight(o) /\ "slow" \notin Faults => half[o] = "half"
    /\ pc[o] = "idle" => half[o] = "none"
    /\ o \in placed => pc[o] \in {"end", "done", "dead"}
    /\ o \in placed /\ pc[o] = "end" => verdict[o] = "Rollback"

\* Returns come from a half message that was committed, of an order that is
\* not placed or was misjudged.
ReturnOf(o) ==
    /\ returns[o] = IF half[o] = "Commit" THEN 1 ELSE 0
    /\ o \in misjudged => half[o] = "Commit"
    /\ half[o] = "Commit" /\ o \in placed => o \in misjudged

ReturnInv == \A o \in Orders : HalfOf(o) /\ ReturnOf(o)

\* The timeout consumer only sends for a placed order, once whenever it found it.
ExpireOf(o) ==
    /\ expired[o] > 0 \/ delayed[o] \in {"found", "sent"} =>
          o \in placed /\ "timeout" \in Fixed
    /\ expired[o] + (IF delayed[o] = "found" THEN 1 ELSE 0) <= tries[o]

ExpireInv == \A o \in Orders : ExpireOf(o)

\* How far an order got shows in its verdict, then in its half message.
FollowOf(o) ==
    /\ pc[o] # "dead" /\ o \notin misjudged
    /\ pc[o] \in {"idle", "local", "sell"} => o \notin sold
    /\ pc[o] = "end" => (verdict[o] = "Commit" <=> o \in sold /\ o \notin placed)
    /\ pc[o] = "done" =>
          /\ half[o] # "half"
          /\ half[o] = "Commit" <=> o \in sold /\ o \notin placed

FollowInv == \A o \in Orders : FollowOf(o)

-----------------------------------------------------------------------------
\* A basket has a natural number of lines.
LEMMA BasketSize ==
    ASSUME TypeOK, NEW o \in Orders
    PROVE  Cardinality(basket[o]) \in Nat
  <1>1. basket[o] \subseteq Line
    BY DEF TypeOK
  <1> QED
    BY <1>1, CartAssumption, FS_Subset, FS_CardinalityType

\* A local transaction that ended has a verdict.
Decided == \A o \in Orders : pc[o] = "end" => verdict[o] \in {"Commit", "Rollback"}
TypeInv == TypeOK /\ Decided

\* What one step of the local transaction does to the label of each order.
LEMMA GotoOne ==
    ASSUME TypeOK, NEW o \in Orders, NEW x, Goto(o, x)
    PROVE  /\ pc'[o] = x
           /\ \A n \in Orders : n # o => pc'[n] = pc[n]
  BY DEF Goto, TypeOK

LEMMA ReturnOne ==
    ASSUME TypeOK, NEW o \in Orders, NEW v, Return(o, v)
    PROVE  /\ pc'[o] = "end" /\ verdict'[o] = v
           /\ \A n \in Orders : n # o => pc'[n] = pc[n] /\ verdict'[n] = verdict[n]
  BY DEF Return, Goto, TypeOK

\* A nil pointer is the death of its process, and of its call with it.
LEMMA PanicDies ==
    ASSUME NEW o \in Orders, PanicOnNil(o) PROVE \E g : Die(g)
  BY DEF PanicOnNil, Panic, Die

\* The verdict is the last thing a call does before it answers or dies.
LEMMA EndsOne ==
    ASSUME TypeOK, NEW o \in Orders, EndTransaction(o)
    PROVE  /\ pc[o] = "end" /\ pc'[o] \in {"done", "dead"}
           /\ UNCHANGED <<cart, seen, basket, sold, onHand, placed, verdict, status,
                          misjudged, delayed, tries, expired>>
           /\ \/ half[o] = "half" /\ Resolve(o, verdict[o])
              \/ UNCHANGED <<half, returns>>
           /\ \/ /\ Goto(o, "done") /\ UNCHANGED <<tx, deleted>>
                 /\ \A n \in Orders : n # o => pc'[n] = pc[n]
              \/ \E g : o \in g /\ Perish(g)
  <1>1. /\ pc[o] = "end"
        /\ UNCHANGED <<cart, seen, basket, sold, onHand, placed, verdict, status,
                       misjudged, delayed, tries, expired>>
        /\ \/ half[o] = "half" /\ Resolve(o, verdict[o])
           \/ UNCHANGED <<half, returns>>
        /\ \/ Goto(o, "done") /\ UNCHANGED <<tx, deleted>>
           \/ Panic(o)
    BY DEF EndTransaction, timer
  <1>2. CASE Goto(o, "done") /\ UNCHANGED <<tx, deleted>>
    BY <1>1, <1>2, GotoOne
  <1>3. CASE Panic(o)
    BY <1>1, <1>3 DEF Panic, Perish, InFlight, TypeOK
  <1> QED
    BY <1>1, <1>2, <1>3

\* What a dying process does to each call.
LEMMA PerishEach ==
    ASSUME TypeOK, NEW g, Perish(g), NEW o \in Orders
    PROVE  /\ pc'[o] = IF o \in g /\ InFlight(o) THEN "dead" ELSE pc[o]
           /\ deleted'[o] = IF o \in g \ placed THEN {} ELSE deleted[o]
           /\ o \in tx' <=> o \in tx /\ o \notin g
  BY DEF Perish, TypeOK

\* Only Return ends a local transaction.
LEMMA DecidedStep == TypeInv /\ [Next]_vars => Decided'
  <1> SUFFICES ASSUME TypeInv, [Next]_vars PROVE Decided'
    OBVIOUS
  <1> USE DEF TypeInv, Decided
  <1>1. ASSUME UNCHANGED <<pc, verdict>> PROVE Decided'
    BY <1>1
  <1>2. ASSUME NEW g, Perish(g), UNCHANGED verdict PROVE Decided'
    BY <1>2, PerishEach
  <1>3. ASSUME NEW o \in Orders, NEW x, x # "end", Goto(o, x), UNCHANGED verdict
        PROVE  Decided'
    BY <1>3, GotoOne
  <1>4. ASSUME NEW o \in Orders, NEW v \in {"Commit", "Rollback"}, Return(o, v)
        PROVE  Decided'
    BY <1>4, ReturnOne
  <1>5. ASSUME NEW o \in Orders, EndTransaction(o) PROVE Decided'
    BY <1>2, <1>3, <1>5, EndsOne
  <1>6. ASSUME NEW o \in Orders, SendHalf(o) \/ Step(o) PROVE Decided'
    BY <1>2, <1>3, <1>4, <1>5, <1>6
       DEF SendHalf, Step, PanicOnNil, Panic, ReadCart, Sell, TxFails, SaveOrder,
           DeleteCart, SendTimeout, CommitOrder
  <1> QED
    BY <1>1, <1>2, <1>6
       DEF Next, AddLine, CheckLocalTransaction, TimeoutLookup, TimeoutSend,
           TimeoutAck, Crash, Die, Terminating, vars

\* The type invariant and Decided are inductive together.
LEMMA TypeInductive == Spec => []TypeInv
  <1>1. Init => TypeInv
    BY CartAssumption DEF Init, TypeInv, TypeOK, Decided, Label
  <1>2. TypeInv /\ [Next]_vars => TypeOK'
    <2> SUFFICES ASSUME TypeInv, [Next]_vars PROVE TypeOK'
      OBVIOUS
    <2> USE DEF TypeInv, local, broker, timer
    <2>1. ASSUME NEW l \in Line, AddLine(l) PROVE TypeOK'
      BY <2>1 DEF AddLine, TypeOK
    <2>2. ASSUME NEW o \in Orders, SendHalf(o) PROVE TypeOK'
      BY <2>2 DEF SendHalf, Goto, Return, TypeOK, Label
    <2>3. ASSUME NEW g, Die(g) PROVE TypeOK'
      BY <2>3 DEF Die, Perish, TypeOK, Label
    <2>4. ASSUME NEW o \in Orders, ReadCart(o) PROVE TypeOK'
      <3>1. Checked(o) \subseteq Line
        BY DEF Checked, TypeOK
      <3> QED
        BY <2>4, <3>1 DEF ReadCart, Goto, Return, TypeOK, Label
    <2>5. ASSUME NEW o \in Orders, Sell(o) PROVE TypeOK'
      BY <2>5, BasketSize DEF Sell, Goto, Return, TypeOK, Label
    <2>6. ASSUME NEW o \in Orders, TxFails(o) PROVE TypeOK'
      BY <2>6 DEF TxFails, Goto, Return, TypeOK, Label
    <2>7. ASSUME NEW o \in Orders, SaveOrder(o) PROVE TypeOK'
      BY <2>7 DEF SaveOrder, Goto, TypeOK, Label
    <2>8. ASSUME NEW o \in Orders, DeleteCart(o) PROVE TypeOK'
      <3>1. Checked(o) \subseteq Line
        BY DEF Checked, TypeOK
      <3> QED
        BY <2>8, <3>1 DEF DeleteCart, Goto, TypeOK, Label
    <2>9. ASSUME NEW o \in Orders, SendTimeout(o) PROVE TypeOK'
      BY <2>9 DEF SendTimeout, Goto, Return, TypeOK, Label
    <2>10. ASSUME NEW o \in Orders, CommitOrder(o) PROVE TypeOK'
      BY <2>10 DEF CommitOrder, Goto, Return, TypeOK, Label
    <2>11. ASSUME NEW o \in Orders, EndTransaction(o) PROVE TypeOK'
      <3>1. half' \in [Orders -> {"none", "half", "Commit", "Rollback"}]
            /\ returns' \in [Orders -> Nat]
        BY <2>11 DEF Decided, EndTransaction, Resolve, TypeOK
      <3>2. pc' \in [Orders -> Label] /\ tx' \subseteq Orders
            /\ deleted' \in [Orders -> SUBSET Line]
        BY <2>11 DEF EndTransaction, Goto, Panic, Perish, TypeOK, Label
      <3> QED
        BY <2>11, <3>1, <3>2 DEF EndTransaction, TypeOK
    <2>12. ASSUME NEW o \in Orders, CheckLocalTransaction(o) PROVE TypeOK'
      BY <2>12 DEF CheckLocalTransaction, Resolve, TypeOK
    <2>13. ASSUME NEW o \in Orders, TimeoutLookup(o) \/ TimeoutSend(o) \/ TimeoutAck(o)
           PROVE  TypeOK'
      BY <2>13 DEF TimeoutLookup, TimeoutSend, TimeoutAck, TypeOK
    <2>14. CASE UNCHANGED vars
      BY <2>14 DEF vars, TypeOK
    <2> QED
      BY <2>1, <2>2, <2>3, <2>4, <2>5, <2>6, <2>7, <2>8, <2>9, <2>10, <2>11,
         <2>12, <2>13, <2>14, PanicDies
         DEF Next, Step, Crash, Terminating
  <1> QED
    BY <1>1, <1>2, DecidedStep, PTL DEF Spec, TypeInv

\* Every variable of Order keeps its type; stock never goes below zero and
\* returns are counted (order.go, all handlers).
THEOREM OrderTypeCorrect == Spec => []TypeOK
  BY TypeInductive, PTL DEF TypeInv

-----------------------------------------------------------------------------
\* Sell comes before everything that makes an order visible (order.go:99-179).
LEMMA SoldStep == TypeInv /\ SoldInv /\ [Next]_vars => SoldInv'
  <1> SUFFICES ASSUME TypeInv, SoldInv, [Next]_vars PROVE SoldInv'
    OBVIOUS
  <1> USE DEF TypeInv, SoldInv, local
  <1>1. ASSUME UNCHANGED <<pc, sold, placed>> PROVE SoldInv'
    BY <1>1
  <1>2. ASSUME NEW g, Perish(g), UNCHANGED <<sold, placed>> PROVE SoldInv'
    BY <1>2, PerishEach
  <1>3. ASSUME NEW o \in Orders, NEW x, Goto(o, x), sold \subseteq sold',
               UNCHANGED placed,
               x \in {"save", "delete", "send", "commit"} => o \in sold'
        PROVE  SoldInv'
    BY <1>3, GotoOne
  <1>4. ASSUME NEW o \in Orders, NEW v, Return(o, v), sold \subseteq sold',
               placed' \subseteq sold
        PROVE  SoldInv'
    BY <1>4, ReturnOne
  <1>5. ASSUME NEW o \in Orders, SendHalf(o) PROVE SoldInv'
    BY <1>3, <1>4, <1>5 DEF SendHalf, local
  <1>6. ASSUME NEW o \in Orders, ReadCart(o) PROVE SoldInv'
    BY <1>3, <1>4, <1>6 DEF ReadCart
  <1>7. ASSUME NEW o \in Orders, Sell(o) PROVE SoldInv'
    BY <1>3, <1>4, <1>7 DEF Sell
  <1>8. ASSUME NEW o \in Orders, TxFails(o) PROVE SoldInv'
    BY <1>4, <1>8 DEF TxFails
  <1>9. ASSUME NEW o \in Orders, SaveOrder(o) \/ DeleteCart(o) PROVE SoldInv'
    BY <1>3, <1>9 DEF SaveOrder, DeleteCart
  <1>10. ASSUME NEW o \in Orders, SendTimeout(o) PROVE SoldInv'
    BY <1>3, <1>4, <1>10 DEF SendTimeout
  <1>11. ASSUME NEW o \in Orders, CommitOrder(o) PROVE SoldInv'
    BY <1>4, <1>11 DEF CommitOrder
  <1>12. ASSUME NEW o \in Orders, EndTransaction(o) PROVE SoldInv'
    BY <1>2, <1>3, <1>12, EndsOne
  <1>13. ASSUME NEW o \in Orders, PanicOnNil(o) PROVE SoldInv'
    BY <1>2, <1>13 DEF PanicOnNil, Panic
  <1> QED
    BY <1>1, <1>2, <1>5, <1>6, <1>7, <1>8, <1>9, <1>10, <1>11, <1>12, <1>13
       DEF Next, Step, AddLine, CheckLocalTransaction, TimeoutLookup, TimeoutSend,
           TimeoutAck, Crash, Die, Terminating, vars

\* A committed order row belongs to an order whose Sell took the stock,
\* whatever fails, crashes or is answered late (order.go:99-183).
THEOREM PlacedOrdersAreSold == Spec => [](placed \subseteq sold)
  <1>1. Init => SoldInv
    BY DEF Init, SoldInv
  <1>2. SoldInv => placed \subseteq sold
    BY DEF SoldInv
  <1> QED
    BY <1>1, <1>2, SoldStep, TypeInductive, PTL DEF Spec

-----------------------------------------------------------------------------
\* A step of order o leaves what the other orders' invariants speak of alone.
LEMMA ReturnFrame ==
    ASSUME TypeInv, ReturnInv, NEW o \in Orders, HalfOf(o)', ReturnOf(o)',
           \A n \in Orders : n # o =>
              /\ pc'[n] = pc[n] /\ verdict'[n] = verdict[n] /\ half'[n] = half[n]
              /\ returns'[n] = returns[n]
              /\ n \in placed' <=> n \in placed
              /\ n \in misjudged' <=> n \in misjudged
    PROVE  ReturnInv'
  <1> SUFFICES ASSUME NEW n \in Orders, n # o PROVE HalfOf(n)' /\ ReturnOf(n)'
    BY DEF ReturnInv
  <1> QED
    BY DEF ReturnInv, HalfOf, ReturnOf, InFlight

LEMMA ReturnStep ==
    ASSUME TypeInv, ReturnInv, [Next]_vars
    PROVE  ReturnInv'
  <1> USE DEF TypeInv, local, broker, timer
  <1>1. ASSUME UNCHANGED <<pc, verdict, half, returns, placed, misjudged>>
        PROVE  ReturnInv'
    BY <1>1 DEF ReturnInv, HalfOf, ReturnOf, InFlight
  <1>2. ASSUME NEW g, Perish(g), UNCHANGED <<half, returns, placed, misjudged, verdict>>
        PROVE  ReturnInv'
    <2> SUFFICES ASSUME NEW o \in Orders PROVE HalfOf(o)' /\ ReturnOf(o)'
      BY DEF ReturnInv
    <2>1. pc'[o] = IF o \in g /\ InFlight(o) THEN "dead" ELSE pc[o]
      BY <1>2, PerishEach
    <2> QED
      BY <1>2, <2>1 DEF ReturnInv, HalfOf, ReturnOf, InFlight
  \* within the local transaction, before the commit
  <1>3. ASSUME NEW o \in Orders,
               NEW x \in {"local", "sell", "save", "delete", "send", "commit"},
               pc[o] \in {"local", "sell", "save", "delete", "send"},
               Goto(o, x), UNCHANGED <<verdict, half, returns, placed, misjudged>>
        PROVE  ReturnInv'
    <2>1. pc'[o] = x /\ \A n \in Orders : n # o => pc'[n] = pc[n]
      BY <1>3, GotoOne
    <2>2. HalfOf(o) /\ ReturnOf(o)
      BY DEF ReturnInv
    <2>3. HalfOf(o)' /\ ReturnOf(o)'
      BY <1>3, <2>1, <2>2 DEF HalfOf, ReturnOf, InFlight
    <2> QED
      BY <1>3, <2>1, <2>3, ReturnFrame
  \* a local transaction that gives up
  <1>4. ASSUME NEW o \in Orders, NEW v \in {"Commit", "Rollback"}, Return(o, v),
               pc[o] \in {"local", "sell", "save", "delete", "send"},
               UNCHANGED <<half, returns, placed, misjudged>>
        PROVE  ReturnInv'
    <2>1. /\ pc'[o] = "end" /\ verdict'[o] = v
          /\ \A n \in Orders : n # o => pc'[n] = pc[n] /\ verdict'[n] = verdict[n]
      BY <1>4, ReturnOne
    <2>2. HalfOf(o) /\ ReturnOf(o)
      BY DEF ReturnInv
    <2>3. HalfOf(o)' /\ ReturnOf(o)'
      BY <1>4, <2>1, <2>2 DEF HalfOf, ReturnOf, InFlight
    <2> QED
      BY <1>4, <2>1, <2>3, ReturnFrame
  <1>5. ASSUME NEW o \in Orders, SendHalf(o) PROVE ReturnInv'
    <2>1. pc[o] = "idle" /\ UNCHANGED <<returns, placed, misjudged>>
      BY <1>5 DEF SendHalf
    <2>2. half'[o] \in {"none", "half"} /\ \A n \in Orders : n # o => half'[n] = half[n]
      BY <1>5, <2>1 DEF SendHalf, TypeOK, ReturnInv, HalfOf
    <2>3. /\ \A n \in Orders : n # o => pc'[n] = pc[n] /\ verdict'[n] = verdict[n]
          /\ \/ pc'[o] = "done"
             \/ pc'[o] \in {"local", "end"} /\ half'[o] = "half"
      BY <1>5, GotoOne, ReturnOne DEF SendHalf, TypeOK
    <2>4. HalfOf(o) /\ ReturnOf(o)
      BY DEF ReturnInv
    <2>5. o \notin placed /\ o \notin misjudged /\ returns[o] = 0
      BY <2>1, <2>4 DEF HalfOf, ReturnOf
    <2>6. HalfOf(o)' /\ ReturnOf(o)'
      BY <2>1, <2>2, <2>3, <2>5 DEF HalfOf, ReturnOf, InFlight
    <2> QED
      BY <2>1, <2>2, <2>3, <2>6, ReturnFrame
  <1>6. ASSUME NEW o \in Orders, ReadCart(o) \/ Sell(o) PROVE ReturnInv'
    BY <1>3, <1>4, <1>6 DEF ReadCart, Sell
  <1>7. ASSUME NEW o \in Orders, TxFails(o) \/ SaveOrder(o) \/ DeleteCart(o)
        PROVE  ReturnInv'
    BY <1>3, <1>4, <1>7 DEF TxFails, SaveOrder, DeleteCart
  <1>8. ASSUME NEW o \in Orders, SendTimeout(o) PROVE ReturnInv'
    BY <1>3, <1>4, <1>8 DEF SendTimeout
  <1>9. ASSUME NEW o \in Orders, CommitOrder(o) PROVE ReturnInv'
    <2>1. /\ pc[o] = "commit" /\ Return(o, "Rollback")
          /\ UNCHANGED <<half, returns, misjudged>>
          /\ placed' \in {placed, placed \cup {o}}
      BY <1>9 DEF CommitOrder
    <2>2. /\ pc'[o] = "end" /\ verdict'[o] = "Rollback"
          /\ \A n \in Orders : n # o => pc'[n] = pc[n] /\ verdict'[n] = verdict[n]
      BY <2>1, ReturnOne
    <2>3. HalfOf(o) /\ ReturnOf(o)
      BY DEF ReturnInv
    <2>4. o \in misjudged \/ half[o] = "half"
      BY <2>1, <2>3 DEF HalfOf, InFlight
    <2>5. HalfOf(o)' /\ ReturnOf(o)'
      BY <2>1, <2>2, <2>3, <2>4 DEF HalfOf, ReturnOf, InFlight
    <2> QED
      BY <2>1, <2>2, <2>5, ReturnFrame
  <1>10. ASSUME NEW o \in Orders, EndTransaction(o) PROVE ReturnInv'
    <2>1. /\ pc[o] = "end" /\ UNCHANGED <<verdict, placed, misjudged>>
          /\ pc'[o] \in {"done", "dead"}
          /\ \A n \in Orders : pc'[n] \in {pc[n], "done", "dead"}
          /\ \A n \in Orders : n # o => pc'[n] \in {pc[n], "dead"}
          /\ \A n \in Orders : pc[n] = "idle" /\ n # o => pc'[n] = "idle"
      BY <1>10, EndsOne, PerishEach DEF InFlight
    <2>2. HalfOf(o) /\ ReturnOf(o) /\ returns[o] \in Nat
      BY DEF ReturnInv, TypeOK
    <2>3. /\ verdict[o] \in {"Commit", "Rollback"}
          /\ verdict[o] = "Commit" => o \notin placed
      BY <2>1, <2>2 DEF Decided, HalfOf
    <2>4. \/ UNCHANGED <<half, returns>>
          \/ /\ half[o] = "half" /\ half'[o] = verdict[o]
             /\ returns'[o] = returns[o] + IF verdict[o] = "Commit" THEN 1 ELSE 0
             /\ \A n \in Orders : n # o => half'[n] = half[n] /\ returns'[n] = returns[n]
      BY <1>10, EndsOne DEF Resolve, TypeOK
    <2>5. HalfOf(o)' /\ ReturnOf(o)'
      BY <2>1, <2>2, <2>3, <2>4 DEF HalfOf, ReturnOf, InFlight
    <2>6. ASSUME NEW n \in Orders, n # o PROVE HalfOf(n)' /\ ReturnOf(n)'
      <3>1. HalfOf(n) /\ ReturnOf(n)
        BY DEF ReturnInv
      <3>2. half'[n] = half[n] /\ returns'[n] = returns[n]
        BY <2>4, <2>6
      <3> QED
        BY <2>1, <2>6, <3>1, <3>2 DEF HalfOf, ReturnOf, InFlight
    <2> QED
      BY <2>5, <2>6 DEF ReturnInv
  <1>11. ASSUME NEW o \in Orders, CheckLocalTransaction(o) PROVE ReturnInv'
    <2>1. /\ half[o] = "half" /\ UNCHANGED <<pc, verdict, placed>>
          /\ \/ half'[o] = "Rollback" /\ returns'[o] = returns[o]
                /\ o \in placed /\ UNCHANGED misjudged
             \/ half'[o] = "Commit" /\ returns'[o] = returns[o] + 1
                /\ misjudged' = IF InFlight(o) \/ o \in placed THEN misjudged \cup {o}
                                ELSE misjudged
          /\ \A n \in Orders : n # o => half'[n] = half[n] /\ returns'[n] = returns[n]
          /\ InFlight(o) => "slow" \in Faults
      BY <1>11 DEF CheckLocalTransaction, Resolve, TypeOK
    <2>2. HalfOf(o) /\ ReturnOf(o) /\ returns[o] \in Nat
      BY DEF ReturnInv, TypeOK
    <2>3. CASE half'[o] = "Commit"
      <3>1. HalfOf(o)'
        BY <2>1, <2>2, <2>3 DEF HalfOf, InFlight
      <3>2. ReturnOf(o)'
        BY <2>1, <2>2, <2>3 DEF ReturnOf
      <3>3. \A n \in Orders : n # o => (n \in misjudged' <=> n \in misjudged)
        BY <2>1
      <3> QED
        BY <2>1, <3>1, <3>2, <3>3, ReturnFrame
    <2>4. CASE half'[o] = "Rollback" /\ o \in placed
      <3>1. HalfOf(o)'
        BY <2>1, <2>2, <2>4 DEF HalfOf, InFlight
      <3>2. ReturnOf(o)'
        BY <2>1, <2>2, <2>4 DEF ReturnOf
      <3> QED
        BY <2>1, <2>4, <3>1, <3>2, ReturnFrame
    <2> QED
      BY <2>1, <2>3, <2>4
  <1>12. ASSUME NEW o \in Orders, Step(o) PROVE ReturnInv'
    BY <1>2, <1>6, <1>7, <1>8, <1>9, <1>10, <1>12 DEF Step, PanicOnNil, Panic
  <1> QED
    BY <1>1, <1>2, <1>5, <1>11, <1>12
       DEF Next, AddLine, TimeoutLookup, TimeoutSend, TimeoutAck, Crash, Die,
           Terminating, vars

LEMMA ReturnInductive == Spec => []ReturnInv
  <1>1. Init => ReturnInv
    BY DEF Init, ReturnInv, HalfOf, ReturnOf, InFlight
  <1>2. TypeInv /\ ReturnInv /\ [Next]_vars => ReturnInv'
    BY ReturnStep
  <1> QED
    BY <1>1, <1>2, TypeInductive, PTL DEF Spec

\* Over every fault, lost verdicts, lost answers, failed commits, late and early
\* check-backs and crashes, the half message of a placed order returns its stock
\* only when a check-back misjudged it (order.go:99-205).
THEOREM PlacedOrdersKeepStock == Spec => []PlacedKeepsStock
  <1>1. TypeInv /\ ReturnInv => PlacedKeepsStock
    BY DEF ReturnInv, ReturnOf, PlacedKeepsStock, TypeInv, TypeOK
  <1> QED
    BY <1>1, ReturnInductive, TypeInductive, PTL

-----------------------------------------------------------------------------
\* Orders stay placed, and only the consumer touches its own state, except for
\* the message that CreateOrder sends before the order is placed.
LEMMA ExpireStep ==
    ASSUME TypeInv, ReturnInv, ExpireInv, [Next]_vars
    PROVE  ExpireInv'
  <1> USE DEF TypeInv, local, broker, timer
  <1>1. ASSUME UNCHANGED timer, placed \subseteq placed' PROVE ExpireInv'
    BY <1>1 DEF ExpireInv, ExpireOf
  <1>2. ASSUME NEW o \in Orders, SendTimeout(o) PROVE ExpireInv'
    <2>1. /\ pc[o] = "send" /\ UNCHANGED <<tries, expired, placed>>
          /\ delayed' \in {delayed, [delayed EXCEPT ![o] = "queued"]}
      BY <1>2 DEF SendTimeout
    <2>2. o \notin placed
      BY <2>1 DEF ReturnInv, HalfOf
    <2>3. ASSUME NEW n \in Orders PROVE ExpireOf(n)'
      <3>1. ExpireOf(n) /\ expired[n] \in Nat /\ tries[n] \in Nat
        BY DEF ExpireInv, TypeOK
      <3>2. delayed'[n] = delayed[n] \/ (n = o /\ delayed'[n] = "queued")
        BY <2>1 DEF TypeOK
      <3> QED
        BY <2>1, <2>2, <3>1, <3>2 DEF ExpireOf
    <2> QED
      BY <2>3 DEF ExpireInv
  <1>3. ASSUME NEW o \in Orders, TimeoutLookup(o) \/ TimeoutSend(o) \/ TimeoutAck(o)
        PROVE  ExpireInv'
    <2>1. /\ UNCHANGED placed
          /\ \A n \in Orders : n # o =>
                /\ delayed'[n] = delayed[n] /\ tries'[n] = tries[n]
                /\ expired'[n] = expired[n]
      BY <1>3 DEF TimeoutLookup, TimeoutSend, TimeoutAck, TypeOK
    <2>2. ExpireOf(o) /\ expired[o] \in Nat /\ tries[o] \in Nat
      BY DEF ExpireInv, TypeOK
    <2>3. ASSUME TimeoutLookup(o) PROVE ExpireOf(o)'
      BY <2>2, <2>3 DEF TimeoutLookup, ExpireOf, TypeOK
    <2>4. ASSUME TimeoutSend(o) PROVE ExpireOf(o)'
      BY <2>2, <2>4 DEF TimeoutSend, ExpireOf, TypeOK
    <2>5. ASSUME TimeoutAck(o) PROVE ExpireOf(o)'
      BY <2>2, <2>5 DEF TimeoutAck, ExpireOf, TypeOK
    <2>6. ASSUME NEW n \in Orders, n # o PROVE ExpireOf(n)'
      BY <2>1, <2>6 DEF ExpireInv, ExpireOf
    <2> QED
      BY <1>3, <2>3, <2>4, <2>5, <2>6 DEF ExpireInv
  <1>4. ASSUME NEW o \in Orders, CommitOrder(o) PROVE ExpireInv'
    BY <1>1, <1>4 DEF CommitOrder
  <1>5. ASSUME NEW o \in Orders, SendHalf(o) \/ Step(o) PROVE ExpireInv'
    BY <1>1, <1>2, <1>4, <1>5
       DEF SendHalf, Step, PanicOnNil, ReadCart, Sell, TxFails, SaveOrder, DeleteCart,
           EndTransaction
  <1> QED
    BY <1>1, <1>3, <1>5
       DEF Next, AddLine, CheckLocalTransaction, Crash, Die, Terminating, vars

LEMMA ExpireInductive == Spec => []ExpireInv
  <1>1. Init => ExpireInv
    BY DEF Init, ExpireInv, ExpireOf
  <1> QED
    BY <1>1, ExpireStep, ReturnInductive, TypeInductive, PTL DEF Spec

\* With the timeout consumer at work too, an order's stock is returned once, and
\* once more only for each further time that its timeout message was handled,
\* unless a check-back misjudged the order (order.go, main.go:118-147).
THEOREM StockReturnsOnce == Spec => []ReturnedOnce
  <1>1. TypeInv /\ ReturnInv /\ ExpireInv => ReturnedOnce
    <2> SUFFICES ASSUME TypeInv, ReturnInv, ExpireInv, NEW o \in Orders \ misjudged
                 PROVE  returns[o] + expired[o] <= IF tries[o] > 1 THEN tries[o] ELSE 1
      BY DEF ReturnedOnce
    <2>1. /\ ReturnOf(o) /\ ExpireOf(o)
          /\ expired[o] \in Nat /\ tries[o] \in Nat /\ returns[o] \in Nat
      BY DEF ReturnInv, ExpireInv, TypeInv, TypeOK
    <2>2. CASE o \in placed
      <3>1. returns[o] = 0 /\ expired[o] <= tries[o]
        BY <2>1, <2>2 DEF ReturnOf, ExpireOf
      <3> QED
        BY <2>1, <3>1
    <2>3. CASE o \notin placed
      <3>1. expired[o] = 0 /\ returns[o] <= 1
        BY <2>1, <2>3 DEF ReturnOf, ExpireOf
      <3> QED
        BY <2>1, <3>1
    <2> QED
      BY <2>2, <2>3
  <1> QED
    BY <1>1, ReturnInductive, ExpireInductive, TypeInductive, PTL

-----------------------------------------------------------------------------
\* Where no answer gets lost, how far an order got decides about its stock.
LEMMA FollowFrame ==
    ASSUME TypeInv, FollowInv, NEW o \in Orders, FollowOf(o)',
           \A n \in Orders : n # o =>
              /\ pc'[n] = pc[n] /\ verdict'[n] = verdict[n] /\ half'[n] = half[n]
              /\ n \in misjudged' <=> n \in misjudged
              /\ n \in placed' <=> n \in placed
              /\ n \in sold' <=> n \in sold
    PROVE  FollowInv'
  <1> SUFFICES ASSUME NEW n \in Orders, n # o PROVE FollowOf(n)'
    BY DEF FollowInv
  <1> QED
    BY DEF FollowInv, FollowOf

LEMMA FollowStep ==
    ASSUME Orderly, TypeInv, SoldInv, ReturnInv, FollowInv, [Next]_vars
    PROVE  FollowInv'
  <1> USE DEF TypeInv, local, broker, timer
  <1>1. ASSUME UNCHANGED <<pc, verdict, half, misjudged, placed, sold>>
        PROVE  FollowInv'
    BY <1>1 DEF FollowInv, FollowOf
  <1>2. ASSUME NEW o \in Orders PROVE FollowOf(o) /\ HalfOf(o) /\ ReturnOf(o)
    BY DEF FollowInv, ReturnInv
  \* a label is left for another one within the local transaction
  <1>3. ASSUME NEW o \in Orders,
               NEW x \in {"local", "sell", "save", "delete", "send", "commit"},
               Goto(o, x), x \in {"local", "sell"} => o \notin sold',
               UNCHANGED <<verdict, misjudged, placed>>,
               \/ UNCHANGED half
               \/ half' = [half EXCEPT ![o] = "half"],
               sold' \in {sold, sold \cup {o}}
        PROVE  FollowInv'
    <2>1. pc'[o] = x /\ \A n \in Orders : n # o => pc'[n] = pc[n]
      BY <1>3, GotoOne
    <2>2. \A n \in Orders : n # o => half'[n] = half[n]
      BY <1>3 DEF TypeOK
    <2>3. FollowOf(o)'
      BY <1>2, <1>3, <2>1 DEF FollowOf
    <2> QED
      BY <1>3, <2>1, <2>2, <2>3, FollowFrame
  \* the local transaction ends with the verdict the stock calls for
  <1>4. ASSUME NEW o \in Orders, NEW v \in {"Commit", "Rollback"}, Return(o, v),
               v = "Commit" <=> o \in sold /\ o \notin placed',
               placed' \in {placed, placed \cup {o}},
               UNCHANGED <<half, misjudged, sold>>
        PROVE  FollowInv'
    <2>1. /\ pc'[o] = "end" /\ verdict'[o] = v
          /\ \A n \in Orders : n # o => pc'[n] = pc[n] /\ verdict'[n] = verdict[n]
      BY <1>4, ReturnOne
    <2>2. FollowOf(o)'
      BY <1>2, <1>4, <2>1 DEF FollowOf
    <2> QED
      BY <1>4, <2>1, <2>2, FollowFrame
  <1>5. ASSUME NEW o \in Orders, SendHalf(o) PROVE FollowInv'
    <2>1. /\ pc[o] = "idle" /\ UNCHANGED <<verdict, misjudged, placed, sold>>
          /\ \/ Goto(o, "done") /\ UNCHANGED half
             \/ Goto(o, "local") /\ half' = [half EXCEPT ![o] = "half"]
      BY <1>5 DEF SendHalf, Orderly
    <2>2. o \notin sold /\ o \notin placed /\ half[o] = "none"
      BY <1>2, <2>1 DEF FollowOf, HalfOf
    <2>3. CASE Goto(o, "local") /\ half' = [half EXCEPT ![o] = "half"]
      BY <1>3, <2>1, <2>2, <2>3
    <2>4. CASE Goto(o, "done") /\ UNCHANGED half
      <3>1. pc'[o] = "done" /\ \A n \in Orders : n # o => pc'[n] = pc[n]
        BY <2>4, GotoOne
      <3>2. FollowOf(o)'
        BY <1>2, <2>1, <2>2, <2>4, <3>1 DEF FollowOf
      <3> QED
        BY <2>1, <2>4, <3>1, <3>2, FollowFrame
    <2> QED
      BY <2>1, <2>3, <2>4
  <1>6. ASSUME NEW o \in Orders, ReadCart(o) PROVE FollowInv'
    <2>1. o \notin sold
      BY <1>2, <1>6 DEF ReadCart, FollowOf
    <2> QED
      BY <1>3, <1>4, <1>6, <2>1 DEF ReadCart
  <1>7. ASSUME NEW o \in Orders, Sell(o) PROVE FollowInv'
    <2>1. o \notin sold
      BY <1>2, <1>7 DEF Sell, FollowOf
    <2>2. CASE Goto(o, "save") /\ sold' = sold \cup {o} /\ UNCHANGED <<verdict, half, misjudged, placed>>
      BY <1>3, <2>2
    <2>3. CASE Return(o, "Rollback") /\ UNCHANGED <<sold, half, misjudged, placed>>
      BY <1>4, <2>1, <2>3
    <2> QED
      BY <1>7, <2>2, <2>3 DEF Sell, Orderly
  <1>8. ASSUME NEW o \in Orders, TxFails(o) PROVE FollowInv'
    <2>1. o \in sold /\ o \notin placed
      BY <1>2, <1>8 DEF TxFails, SoldInv, HalfOf
    <2> QED
      BY <1>4, <1>8, <2>1 DEF TxFails
  <1>9. ASSUME NEW o \in Orders, SaveOrder(o) \/ DeleteCart(o) PROVE FollowInv'
    BY <1>3, <1>9 DEF SaveOrder, DeleteCart
  <1>10. ASSUME NEW o \in Orders, SendTimeout(o) PROVE FollowInv'
    <2>1. o \in sold /\ o \notin placed
      BY <1>2, <1>10 DEF SendTimeout, SoldInv, HalfOf
    <2> QED
      BY <1>3, <1>4, <1>10, <2>1 DEF SendTimeout
  <1>11. ASSUME NEW o \in Orders, CommitOrder(o) PROVE FollowInv'
    <2>1. placed' = placed \cup {o} /\ Return(o, "Rollback") /\ UNCHANGED <<half, misjudged, sold>>
      BY <1>11 DEF CommitOrder, Orderly
    <2> QED
      BY <1>4, <2>1
  <1>12. ASSUME NEW o \in Orders, EndTransaction(o) PROVE FollowInv'
    <2>1. /\ pc[o] = "end" /\ Goto(o, "done")
          /\ UNCHANGED <<verdict, placed, sold, misjudged>>
      BY <1>12 DEF EndTransaction, Orderly
    <2>2. half[o] = "half" /\ Resolve(o, verdict[o])
      BY <1>2, <1>12, <2>1 DEF EndTransaction, Orderly, HalfOf, InFlight, FollowOf
    <2>3. /\ half'[o] = verdict[o] /\ verdict[o] \in {"Commit", "Rollback"}
          /\ \A n \in Orders : n # o => half'[n] = half[n]
      BY <2>1, <2>2 DEF Resolve, TypeOK, Decided
    <2>4. pc'[o] = "done" /\ \A n \in Orders : n # o => pc'[n] = pc[n]
      BY <2>1, GotoOne
    <2>5. FollowOf(o)'
      BY <1>2, <2>1, <2>3, <2>4 DEF FollowOf
    <2> QED
      BY <2>1, <2>3, <2>4, <2>5, FollowFrame
  <1>13. ASSUME NEW o \in Orders, CheckLocalTransaction(o) PROVE FALSE
    BY <1>2, <1>13 DEF CheckLocalTransaction, Orderly, FollowOf, HalfOf, InFlight
  <1>14. ASSUME NEW o \in Orders, Step(o) PROVE FollowInv'
    BY <1>6, <1>7, <1>8, <1>9, <1>10, <1>11, <1>12, <1>14
       DEF Step, PanicOnNil, Orderly
  <1> QED
    BY <1>1, <1>5, <1>13, <1>14
       DEF Next, AddLine, TimeoutLookup, TimeoutSend, TimeoutAck, Crash, Terminating,
           Orderly, vars

\* As long as statements and producers may fail but no answer is lost and
\* nothing dies, the half message follows the local transaction: a settled
\* order's stock is returned exactly when it was sold and there is no order
\* (order.go:34-184).
THEOREM StockFollowsTheOrder == ASSUME Orderly PROVE Spec => []StockFollowsOrder
  <1>2. Init => FollowInv
    BY DEF Init, FollowInv, FollowOf
  <1>3. TypeInv /\ SoldInv /\ ReturnInv /\ FollowInv /\ [Next]_vars => FollowInv'
    BY FollowStep
  <1>4. TypeInv /\ ReturnInv /\ FollowInv => StockFollowsOrder
    <2> SUFFICES ASSUME TypeInv, ReturnInv, FollowInv, NEW o \in Orders, Settled(o)
                 PROVE  returns[o] > 0 <=> o \in sold /\ o \notin placed
      BY DEF StockFollowsOrder
    <2>1. FollowOf(o) /\ ReturnOf(o)
      BY DEF FollowInv, ReturnInv
    <2> QED
      BY <2>1 DEF FollowOf, ReturnOf, Settled
  <1>5. Init => SoldInv
    BY DEF Init, SoldInv
  <1>6. Spec => []SoldInv
    BY <1>5, SoldStep, TypeInductive, PTL DEF Spec
  <1> QED
    BY <1>2, <1>3, <1>4, <1>6, ReturnInductive, TypeInductive, PTL DEF Spec

-----------------------------------------------------------------------------
(* The cart *)

\* A call that has not come to its end is not placed, and a transaction only
\* deletes lines of its order's account.
CartInv ==
    \A o \in Orders :
        /\ o \in placed => pc[o] \in {"end", "done", "dead"}
        /\ "account" \in Fixed => \A l \in deleted[o] : owner[l] = acct[o]

LEMMA CartStep == TypeInv /\ CartInv /\ [Next]_vars => CartInv'
  <1> SUFFICES ASSUME TypeInv, CartInv, [Next]_vars PROVE CartInv'
    OBVIOUS
  <1> USE DEF TypeInv, CartInv, local, broker, timer
  <1>1. ASSUME UNCHANGED <<pc, placed, deleted>> PROVE CartInv'
    BY <1>1
  <1>2. ASSUME NEW g, Perish(g), UNCHANGED placed PROVE CartInv'
    BY <1>2, PerishEach DEF InFlight
  <1>3. ASSUME NEW o \in Orders, o \notin placed, NEW x, Goto(o, x),
               UNCHANGED <<placed, deleted>>
        PROVE  CartInv'
    BY <1>3, GotoOne
  <1>4. ASSUME NEW o \in Orders, NEW v, Return(o, v), UNCHANGED <<placed, deleted>>
        PROVE  CartInv'
    BY <1>4, ReturnOne
  <1>5. ASSUME NEW o \in Orders, DeleteCart(o) PROVE CartInv'
    <2>1. "account" \in Fixed => \A l \in Checked(o) : owner[l] = acct[o]
      BY DEF Checked
    <2>2. deleted'[o] = Checked(o) /\ \A n \in Orders : n # o => deleted'[n] = deleted[n]
      BY <1>5 DEF DeleteCart, TypeOK
    <2> QED
      BY <1>5, <2>1, <2>2, GotoOne DEF DeleteCart
  <1>6. ASSUME NEW o \in Orders, CommitOrder(o) PROVE CartInv'
    <2>1. \A n \in Orders : deleted'[n] \subseteq deleted[n]
      BY <1>6 DEF CommitOrder, TypeOK
    <2> QED
      BY <1>6, <2>1, ReturnOne DEF CommitOrder
  <1>7. ASSUME NEW o \in Orders, EndTransaction(o) PROVE CartInv'
    BY <1>2, <1>7, EndsOne, GotoOne
  <1>8. ASSUME NEW o \in Orders, SendHalf(o) \/ Step(o) PROVE CartInv'
    BY <1>2, <1>3, <1>4, <1>5, <1>6, <1>7, <1>8
       DEF SendHalf, Step, PanicOnNil, Panic, ReadCart, Sell, TxFails, SaveOrder,
           SendTimeout
  <1> QED
    BY <1>1, <1>2, <1>8
       DEF Next, AddLine, CheckLocalTransaction, TimeoutLookup, TimeoutSend, TimeoutAck,
           Crash, Die, Terminating, vars

\* Cart lines disappear only with an order of their owner, under every fault
\* (order.go:143 within the transaction that order.go:179 commits).
THEOREM CartGoesWithTheOrder == Spec => CartGoesWithOrder
  <1> DEFINE Kept == \A l \in cart \ cart' : \E o \in placed' \ placed :
                         "account" \in Fixed => owner[l] = acct[o]
  <1>1. Init => CartInv
    BY DEF Init, CartInv
  <1>2. TypeInv /\ CartInv /\ [Next]_vars => [Kept]_vars
    <2> SUFFICES ASSUME TypeInv, CartInv, [Next]_vars PROVE Kept
      OBVIOUS
    <2>1. ASSUME cart \subseteq cart' PROVE Kept
      BY <2>1
    <2>2. ASSUME NEW o \in Orders, CommitOrder(o) PROVE Kept
      <3>1. pc[o] = "commit" /\ o \notin placed
        BY <2>2 DEF CommitOrder, CartInv
      <3>2. CASE UNCHANGED cart
        BY <3>2
      <3>3. CASE placed' = placed \cup {o} /\ cart' = cart \ deleted[o]
        BY <3>1, <3>3 DEF CartInv
      <3> QED
        BY <2>2, <3>2, <3>3 DEF CommitOrder
    <2>3. ASSUME NEW o \in Orders, SendHalf(o) \/ Step(o) PROVE Kept
      BY <2>1, <2>2, <2>3
         DEF SendHalf, Step, PanicOnNil, ReadCart, Sell, TxFails, SaveOrder,
             DeleteCart, SendTimeout, EndTransaction, local
    <2> QED
      BY <2>1, <2>3
         DEF Next, AddLine, CheckLocalTransaction, TimeoutLookup, TimeoutSend,
             TimeoutAck, Crash, Die, Terminating, local, vars
  <1> QED
    BY <1>1, <1>2, TypeInductive, CartStep, PTL DEF Spec, CartGoesWithOrder

-----------------------------------------------------------------------------
(* One decision per order *)

\* What an order has sold, deleted and locked by the label it is at; an open
\* transaction deletes lines that are still there, and no other one does.
BookOf(o) ==
    /\ pc[o] \in {"idle", "local", "sell"} => o \notin sold
    /\ pc[o] = "sell" => basket[o] # {}
    /\ pc[o] \in {"idle", "local", "sell", "save", "delete"} => deleted[o] = {}
    /\ pc[o] \in {"delete", "send", "commit"} => o \in tx
    /\ pc[o] \in {"send", "commit"} => deleted[o] # {}
    /\ o \in tx => deleted[o] \subseteq cart

Apart == \A o, n \in tx : o # n => deleted[o] \cap deleted[n] = {}

BookInv == Apart /\ \A o \in Orders : BookOf(o)

\* A step of order o that takes nothing out of the cart, opens no transaction
\* with deleted lines, and deletes nothing more leaves the other orders alone.
LEMMA BookFrame ==
    ASSUME TypeInv, BookInv, NEW o \in Orders, BookOf(o)', cart \subseteq cart',
           tx' \subseteq tx \/ (tx' = tx \cup {o} /\ deleted[o] = {}),
           deleted'[o] \subseteq deleted[o],
           \A n \in Orders : n # o =>
              /\ pc'[n] = pc[n] /\ basket'[n] = basket[n] /\ deleted'[n] = deleted[n]
              /\ n \in sold' <=> n \in sold
              /\ n \in tx' <=> n \in tx
    PROVE  BookInv'
  <1> USE DEF TypeInv, TypeOK
  <1>1. ASSUME NEW n \in Orders PROVE BookOf(n)'
    <2>1. CASE n = o
      BY <2>1
    <2>2. CASE n # o
      BY <2>2 DEF BookInv, BookOf
    <2> QED
      BY <2>1, <2>2
  <1>2. Apart'
    <2> SUFFICES ASSUME NEW m \in tx', NEW n \in tx', m # n
                 PROVE  deleted'[m] \cap deleted'[n] = {}
      BY DEF Apart
    <2>1. /\ tx \subseteq Orders /\ m \in Orders /\ n \in Orders
          /\ deleted'[m] \subseteq deleted[m] /\ deleted'[n] \subseteq deleted[n]
      OBVIOUS
    <2>2. CASE m \in tx /\ n \in tx
      BY <2>1, <2>2 DEF BookInv, Apart
    <2>3. CASE m \notin tx \/ n \notin tx
      BY <2>1, <2>3
    <2> QED
      BY <2>2, <2>3
  <1> QED
    BY <1>1, <1>2 DEF BookInv

LEMMA BookStep == TypeInv /\ SoldInv /\ BookInv /\ [Next]_vars => BookInv'
  <1> SUFFICES ASSUME TypeInv, SoldInv, BookInv, [Next]_vars PROVE BookInv'
    OBVIOUS
  <1> USE DEF TypeInv, local, broker, timer
  <1>1. ASSUME UNCHANGED <<pc, basket, sold, tx, deleted>>, cart \subseteq cart'
        PROVE  BookInv'
    BY <1>1 DEF BookInv, BookOf, Apart
  <1>2. ASSUME NEW g, Perish(g), UNCHANGED <<cart, basket, sold>> PROVE BookInv'
    <2>1. ASSUME NEW o \in Orders PROVE BookOf(o)' /\ deleted'[o] \subseteq deleted[o]
      <3>1. /\ pc'[o] = IF o \in g /\ InFlight(o) THEN "dead" ELSE pc[o]
            /\ deleted'[o] = IF o \in g \ placed THEN {} ELSE deleted[o]
            /\ o \in tx' <=> o \in tx /\ o \notin g
        BY <1>2, PerishEach
      <3> QED
        BY <1>2, <3>1 DEF BookInv, BookOf, InFlight
    <2>2. tx' \subseteq tx /\ tx \subseteq Orders
      BY <1>2 DEF Perish, TypeOK
    <2>3. Apart'
      BY <2>1, <2>2 DEF BookInv, Apart
    <2> QED
      BY <2>1, <2>3 DEF BookInv
  <1>3. ASSUME NEW o \in Orders, SendHalf(o) PROVE BookInv'
    <2>1. /\ pc[o] = "idle" /\ UNCHANGED <<cart, basket, sold, tx, deleted>>
          /\ pc'[o] \in {"local", "done", "end"}
          /\ \A n \in Orders : n # o => pc'[n] = pc[n]
      BY <1>3, GotoOne, ReturnOne DEF SendHalf
    <2>2. BookOf(o)'
      BY <2>1 DEF BookInv, BookOf
    <2> QED
      BY <2>1, <2>2, BookFrame
  <1>4. ASSUME NEW o \in Orders, ReadCart(o) PROVE BookInv'
    <2>1. /\ pc[o] = "local" /\ UNCHANGED <<cart, sold, tx, deleted>>
          /\ pc'[o] = "end" \/ (pc'[o] = "sell" /\ basket'[o] # {})
          /\ \A n \in Orders : n # o => pc'[n] = pc[n] /\ basket'[n] = basket[n]
      <3>1. /\ pc[o] = "local" /\ UNCHANGED <<cart, sold, tx, deleted>>
            /\ basket'[o] = Checked(o)
            /\ \A n \in Orders : n # o => basket'[n] = basket[n]
        BY <1>4 DEF ReadCart, TypeOK
      <3>2. CASE Return(o, "Rollback")
        BY <3>1, <3>2, ReturnOne
      <3>3. CASE Checked(o) # {} /\ Goto(o, "sell")
        BY <3>1, <3>3, GotoOne
      <3> QED
        BY <1>4, <3>2, <3>3 DEF ReadCart
    <2>2. BookOf(o)'
      BY <2>1 DEF BookInv, BookOf
    <2> QED
      BY <2>1, <2>2, BookFrame
  <1>5. ASSUME NEW o \in Orders, Sell(o) PROVE BookInv'
    <2>1. /\ pc[o] = "sell" /\ UNCHANGED <<cart, basket, tx, deleted>>
          /\ pc'[o] \in {"save", "end"}
          /\ \A n \in Orders : n # o => pc'[n] = pc[n] /\ (n \in sold' <=> n \in sold)
      BY <1>5, GotoOne, ReturnOne DEF Sell
    <2>2. BookOf(o)'
      BY <2>1 DEF BookInv, BookOf
    <2> QED
      BY <2>1, <2>2, BookFrame
  <1>6. ASSUME NEW o \in Orders, TxFails(o) PROVE BookInv'
    <2>1. /\ tx' = tx \ {o} /\ UNCHANGED <<cart, basket, sold, deleted>>
          /\ pc'[o] = "end"
          /\ \A n \in Orders : n # o => pc'[n] = pc[n]
      BY <1>6, ReturnOne DEF TxFails
    <2>2. BookOf(o)'
      BY <2>1 DEF BookOf
    <2> QED
      BY <2>1, <2>2, BookFrame
  <1>7. ASSUME NEW o \in Orders, SaveOrder(o) PROVE BookInv'
    <2>1. /\ pc[o] = "save" /\ tx' = tx \cup {o}
          /\ UNCHANGED <<cart, basket, sold, deleted>>
          /\ pc'[o] = "delete"
          /\ \A n \in Orders : n # o => pc'[n] = pc[n]
      BY <1>7, GotoOne DEF SaveOrder
    <2>2. deleted[o] = {}
      BY <2>1 DEF BookInv, BookOf
    <2>3. BookOf(o)'
      BY <2>1, <2>2 DEF BookOf
    <2> QED
      BY <2>1, <2>2, <2>3, BookFrame
  <1>8. ASSUME NEW o \in Orders, DeleteCart(o) PROVE BookInv'
    <2>1. /\ pc[o] = "delete" /\ UNCHANGED <<cart, basket, sold, tx>>
          /\ Checked(o) # {} /\ Checked(o) \cap Locked = {}
          /\ deleted'[o] = Checked(o)
          /\ pc'[o] = "send"
          /\ \A n \in Orders : n # o => pc'[n] = pc[n] /\ deleted'[n] = deleted[n]
      BY <1>8, GotoOne DEF DeleteCart, TypeOK
    <2>2. Checked(o) \subseteq cart
      BY DEF Checked
    <2>3. ASSUME NEW n \in Orders PROVE BookOf(n)'
      BY <2>1, <2>2 DEF BookInv, BookOf
    <2>4. ASSUME NEW n \in tx, n # o PROVE deleted[n] \cap Checked(o) = {}
      <3> SUFFICES ASSUME NEW l \in deleted[n], l \in Checked(o) PROVE FALSE
        OBVIOUS
      <3>1. l \in Line
        BY <2>2 DEF TypeOK
      <3>2. l \in Locked
        BY <2>4, <3>1 DEF Locked
      <3> QED
        BY <2>1, <3>2
    <2>5. Apart'
      <3>1. tx \subseteq Orders
        BY DEF TypeOK
      <3> QED
        BY <2>1, <2>4, <3>1 DEF BookInv, Apart
    <2> QED
      BY <2>3, <2>5 DEF BookInv
  <1>9. ASSUME NEW o \in Orders, SendTimeout(o) PROVE BookInv'
    <2>1. /\ pc[o] = "send" /\ UNCHANGED <<cart, basket, sold, tx, deleted>>
          /\ pc'[o] \in {"commit", "end"}
          /\ \A n \in Orders : n # o => pc'[n] = pc[n]
      BY <1>9, GotoOne, ReturnOne DEF SendTimeout
    <2>2. BookOf(o)'
      BY <2>1 DEF BookInv, BookOf
    <2> QED
      BY <2>1, <2>2, BookFrame
  <1>10. ASSUME NEW o \in Orders, CommitOrder(o) PROVE BookInv'
    <2>1. /\ pc[o] = "commit" /\ tx' = tx \ {o} /\ UNCHANGED <<basket, sold>>
          /\ pc'[o] = "end"
          /\ \A n \in Orders : n # o => pc'[n] = pc[n] /\ deleted'[n] = deleted[n]
          /\ cart' \in {cart, cart \ deleted[o]}
      BY <1>10, ReturnOne DEF CommitOrder, TypeOK
    <2>2. o \in tx /\ tx \subseteq Orders
      BY <2>1 DEF BookInv, BookOf, TypeOK
    <2>3. ASSUME NEW n \in Orders PROVE BookOf(n)'
      <3>1. CASE n = o
        BY <2>1, <3>1 DEF BookOf
      <3>2. CASE n # o
        <4>1. n \in tx => deleted[n] \subseteq cart'
          BY <2>1, <2>2, <3>2 DEF BookInv, BookOf, Apart
        <4> QED
          BY <2>1, <3>2, <4>1 DEF BookInv, BookOf
      <3> QED
        BY <3>1, <3>2
    <2>4. Apart'
      BY <2>1, <2>2 DEF BookInv, Apart
    <2> QED
      BY <2>3, <2>4 DEF BookInv
  <1>11. ASSUME NEW o \in Orders, EndTransaction(o) PROVE BookInv'
    <2>1. UNCHANGED <<cart, basket, sold>> /\ pc[o] = "end"
      BY <1>11, EndsOne
    <2>2. CASE \E g : Perish(g)
      BY <1>2, <2>1, <2>2
    <2>3. CASE Goto(o, "done") /\ UNCHANGED <<tx, deleted>>
      <3>1. pc'[o] = "done" /\ \A n \in Orders : n # o => pc'[n] = pc[n]
        BY <2>3, GotoOne
      <3>2. BookOf(o)'
        BY <2>1, <2>3, <3>1 DEF BookInv, BookOf
      <3> QED
        BY <2>1, <2>3, <3>1, <3>2, BookFrame
    <2> QED
      BY <1>11, <2>2, <2>3, EndsOne
  <1> QED
    BY <1>1, <1>2, <1>3, <1>4, <1>5, <1>6, <1>7, <1>8, <1>9, <1>10, <1>11
       DEF Next, Step, PanicOnNil, Panic, AddLine, CheckLocalTransaction,
           TimeoutLookup, TimeoutSend, TimeoutAck, Crash, Die, Terminating, vars

\* Between the steps that decide about an order and those that only move it on:
\* what its refinement sees.
LEMMA BookRefine ==
    ASSUME "account" \in Fixed, TypeInv, ReturnInv, ExpireInv, SoldInv,
           BookInv, CartInv, [Next]_vars
    PROVE  [Booking!AbsNext]_<<onHand, sold, placed, returns, misjudged, expired, cart>>
  <1> USE DEF TypeInv, local, broker, timer
  <1> DEFINE Same == UNCHANGED <<onHand, sold, placed, returns, misjudged, expired, cart>>
             Refined == Same \/ Booking!AbsNext
  <1>1. ASSUME NEW l \in Line, AddLine(l) PROVE Refined
    <2>1. Booking!Fill
      BY <1>1 DEF AddLine, Booking!Fill, TypeOK
    <2> QED
      BY <2>1 DEF Booking!AbsNext
  <1>2. ASSUME NEW g, Die(g) PROVE Same
    BY <1>2 DEF Die
  <1>3. ASSUME NEW o \in Orders, Sell(o) PROVE Refined
    <2>1. /\ pc[o] = "sell" /\ UNCHANGED <<placed, returns, misjudged, expired, cart>>
          /\ \/ UNCHANGED <<sold, onHand>>
             \/ /\ Cardinality(basket[o]) <= onHand
                /\ sold' = sold \cup {o}
                /\ onHand' = onHand - Cardinality(basket[o])
      BY <1>3 DEF Sell
    <2>2. CASE UNCHANGED <<sold, onHand>>
      BY <2>1, <2>2
    <2>3. CASE /\ Cardinality(basket[o]) <= onHand
               /\ sold' = sold \cup {o}
               /\ onHand' = onHand - Cardinality(basket[o])
      <3>1. o \notin sold /\ basket[o] # {}
        BY <2>1 DEF BookInv, BookOf
      <3>2. Booking!Undecided(o)
        BY <2>1 DEF ReturnInv, HalfOf, ReturnOf, InFlight, Booking!Undecided
      <3>3. Cardinality(basket[o]) \in Nat \ {0}
        <4>1. basket[o] \subseteq Line
          BY DEF TypeOK
        <4> QED
          BY <3>1, <4>1, BasketSize, CartAssumption, FS_Subset, FS_EmptySet
      <3>4. onHand' \in 0 .. onHand - 1
        BY <2>3, <3>3 DEF TypeOK
      <3>5. Booking!Reserve(o)
        BY <2>1, <2>3, <3>1, <3>2, <3>4 DEF Booking!Reserve
      <3> QED
        BY <3>5 DEF Booking!AbsNext
    <2> QED
      BY <2>1, <2>2, <2>3
  <1>4. ASSUME NEW o \in Orders, CommitOrder(o) PROVE Refined
    <2>1. pc[o] = "commit" /\ UNCHANGED <<onHand, sold, returns, misjudged, expired>>
      BY <1>4 DEF CommitOrder
    <2>2. CASE UNCHANGED <<placed, cart>>
      BY <2>1, <2>2
    <2>3. CASE placed' = placed \cup {o} /\ cart' = cart \ deleted[o]
      <3>1. o \in sold /\ Booking!Undecided(o)
        BY <2>1 DEF SoldInv, ReturnInv, HalfOf, ReturnOf, InFlight, Booking!Undecided
      <3>2. deleted[o] # {} /\ deleted[o] \subseteq cart
        BY <2>1 DEF BookInv, BookOf
      <3>3. \A l \in deleted[o] : owner[l] = acct[o]
        BY DEF CartInv
      <3>4. /\ cart' \subseteq cart /\ cart' # cart
            /\ \A l \in cart \ cart' : owner[l] = acct[o]
        BY <2>3, <3>2, <3>3
      <3>5. Booking!Place(o)
        BY <2>1, <2>3, <3>1, <3>4 DEF Booking!Place
      <3> QED
        BY <3>5 DEF Booking!AbsNext
    <2> QED
      BY <1>4, <2>2, <2>3 DEF CommitOrder
  \* a verdict on the half message, from either side
  <1>5. ASSUME NEW o \in Orders, NEW v, Resolve(o, v), half[o] = "half",
               v = "Commit" => o \notin placed,
               UNCHANGED <<onHand, sold, placed, misjudged, expired, cart>>
        PROVE  Refined
    <2>1. CASE v # "Commit"
      BY <1>5, <2>1 DEF Resolve, TypeOK
    <2>2. CASE v = "Commit"
      <3>1. o \notin placed /\ returns[o] = 0
        BY <1>5, <2>2 DEF ReturnInv, ReturnOf
      <3>2. Booking!SendBack(o)
        BY <1>5, <2>2, <3>1 DEF Resolve, Booking!SendBack, Booking!Undecided, TypeOK
      <3> QED
        BY <3>2 DEF Booking!AbsNext
    <2> QED
      BY <2>1, <2>2
  <1>6. ASSUME NEW o \in Orders, EndTransaction(o) PROVE Refined
    <2>1. /\ pc[o] = "end"
          /\ UNCHANGED <<onHand, sold, placed, misjudged, expired, cart>>
          /\ \/ half[o] = "half" /\ Resolve(o, verdict[o])
             \/ UNCHANGED returns
      BY <1>6, EndsOne
    <2>2. verdict[o] = "Commit" => o \notin placed
      BY <2>1 DEF ReturnInv, HalfOf
    <2> QED
      BY <1>5, <2>1, <2>2
  <1>7. ASSUME NEW o \in Orders, CheckLocalTransaction(o) PROVE Refined
    <2>1. /\ half[o] = "half" /\ UNCHANGED <<onHand, sold, placed, expired, cart>>
          /\ \/ /\ UNCHANGED misjudged
                /\ \E v : Resolve(o, v) /\ (v = "Commit" => o \notin placed)
             \/ Resolve(o, "Commit") /\ misjudged' = misjudged \cup {o}
      BY <1>7 DEF CheckLocalTransaction
    <2>2. CASE /\ UNCHANGED misjudged
               /\ \E v : Resolve(o, v) /\ (v = "Commit" => o \notin placed)
      BY <1>5, <2>1, <2>2
    <2>3. CASE Resolve(o, "Commit") /\ misjudged' = misjudged \cup {o}
      <3>1. returns[o] = 0
        BY <2>1 DEF ReturnInv, ReturnOf
      <3>2. Booking!Misjudge(o)
        BY <2>1, <2>3, <3>1 DEF Resolve, Booking!Misjudge, TypeOK
      <3> QED
        BY <3>2 DEF Booking!AbsNext
    <2> QED
      BY <2>1, <2>2, <2>3
  <1>8. ASSUME NEW o \in Orders, TimeoutLookup(o) \/ TimeoutSend(o) \/ TimeoutAck(o)
        PROVE  Refined
    <2>1. CASE UNCHANGED expired
      BY <1>8, <2>1 DEF TimeoutLookup, TimeoutSend, TimeoutAck
    <2>2. CASE TimeoutSend(o) /\ expired' = [expired EXCEPT ![o] = @ + 1]
      <3>1. o \in placed
        BY <2>2 DEF TimeoutSend, ExpireInv, ExpireOf
      <3>2. "timeout" \in Fixed
        BY <2>2 DEF TimeoutSend, ExpireInv, ExpireOf
      <3>3. Booking!Expire(o)
        BY <2>2, <3>1, <3>2 DEF TimeoutSend, Booking!Expire
      <3> QED
        BY <3>3 DEF Booking!AbsNext
    <2> QED
      BY <1>8, <2>1, <2>2 DEF TimeoutLookup, TimeoutSend, TimeoutAck
  <1>9. ASSUME NEW o \in Orders, SendHalf(o) \/ Step(o) PROVE Refined
    <2>1. \/ SendHalf(o) \/ PanicOnNil(o) \/ ReadCart(o) \/ TxFails(o) \/ SaveOrder(o)
          \/ DeleteCart(o) \/ SendTimeout(o)
          \/ Sell(o) \/ CommitOrder(o) \/ EndTransaction(o)
      BY <1>9 DEF Step
    <2>2. CASE \/ SendHalf(o) \/ PanicOnNil(o) \/ ReadCart(o) \/ TxFails(o)
               \/ SaveOrder(o) \/ DeleteCart(o) \/ SendTimeout(o)
      BY <2>2 DEF SendHalf, PanicOnNil, ReadCart, TxFails, SaveOrder,
                  DeleteCart, SendTimeout
    <2> QED
      BY <1>3, <1>4, <1>6, <2>1, <2>2
  <1>10. CASE UNCHANGED vars
    BY <1>10 DEF vars
  <1>11. Refined
    BY <1>1, <1>2, <1>7, <1>8, <1>9, <1>10 DEF Next, Crash, Terminating
  <1> QED
    BY <1>11

\* Whatever fails, dies or answers late or early, CreateOrder makes at most one
\* decision about an order, and stock, order rows, cart and returns all follow it,
\* except for an order that a check-back misjudged (order.go:99-205,
\* main.go:118-147).
THEOREM OrdersAreBooked ==
    ASSUME "account" \in Fixed PROVE Spec => OrderIsBooked
  <1>1. Init => Booking!AbsInit
    BY DEF Init, Booking!AbsInit
  <1>2. Spec => [](TypeInv /\ ReturnInv /\ ExpireInv /\ SoldInv /\ CartInv)
    <2>1. Init => SoldInv /\ CartInv
      BY DEF Init, SoldInv, CartInv
    <2> QED
      BY <2>1, SoldStep, CartStep, TypeInductive, ReturnInductive, ExpireInductive, PTL
         DEF Spec
  <1>3. Init => BookInv
    BY DEF Init, BookInv, BookOf, Apart
  <1>4. Spec => []BookInv
    BY <1>2, <1>3, BookStep, PTL DEF Spec
  <1>5. TypeInv /\ ReturnInv /\ ExpireInv /\ SoldInv /\ CartInv /\ BookInv /\ [Next]_vars
          => [Booking!AbsNext]_<<onHand, sold, placed, returns, misjudged, expired, cart>>
    BY BookRefine
  <1> QED
    BY <1>1, <1>2, <1>4, <1>5, PTL
       DEF Spec, OrderIsBooked, Booking!AbsSpec, Booking!absVars

-----------------------------------------------------------------------------
(* The stock service as Order sees it *)

\* What the Sells of the orders look like to StockAbs, which Stock implements:
\* one product in units, an order per handler.  Whether the caller heard the
\* answer is not the service's business.
tookUnits == [o \in Orders |->
                 [p \in {"unit"} |-> IF o \in sold THEN Cardinality(basket[o]) ELSE 0]]
Shop == INSTANCE StockAbs WITH
    Stocked <- {"unit"}, Handler <- Orders, Num0 <- [p \in {"unit"} |-> Stock0],
    avail <- [p \in {"unit"} |-> onHand], took <- tookUnits,
    phase <- [o \in Orders |-> IF o \in sold THEN "taken" ELSE "open"]

\* The basket of an order is not read again once it was sold.
LEMMA BasketKept ==
    ASSUME TypeInv, BookInv, [Next]_vars, UNCHANGED <<sold, onHand>>
    PROVE  UNCHANGED Shop!absVars
  <1> USE DEF TypeInv
  <1>1. ASSUME NEW o \in sold PROVE basket'[o] = basket[o]
    <2>1. o \in Orders
      BY DEF TypeOK
    <2>2. CASE UNCHANGED basket
      BY <2>2
    <2>3. ASSUME NEW n \in Orders, ReadCart(n) PROVE basket'[o] = basket[o]
      <3>1. n # o
        BY <2>1, <2>3 DEF ReadCart, BookInv, BookOf
      <3> QED
        BY <2>1, <2>3, <3>1 DEF ReadCart, TypeOK
    <2> QED
      BY <2>2, <2>3
         DEF Next, AddLine, SendHalf, Step, PanicOnNil, Die, Sell, TxFails, SaveOrder,
             DeleteCart, SendTimeout, CommitOrder, EndTransaction,
             CheckLocalTransaction, TimeoutLookup, TimeoutSend, TimeoutAck,
             Crash, Terminating, local, vars
  <1>2. tookUnits' = tookUnits
    BY <1>1 DEF tookUnits
  <1> QED
    BY <1>2 DEF Shop!absVars

LEMMA SellTakes ==
    ASSUME TypeInv, BookInv, NEW o \in Orders, Sell(o), sold' = sold \cup {o},
           Cardinality(basket[o]) <= onHand, onHand' = onHand - Cardinality(basket[o])
    PROVE  Shop!Take(o)
  <1> USE DEF TypeInv
  <1>1. pc[o] = "sell" /\ UNCHANGED basket
    BY DEF Sell
  <1>2. o \notin sold
    BY <1>1 DEF BookInv, BookOf
  <1>3. Cardinality(basket[o]) \in Nat /\ onHand \in Nat
    BY BasketSize DEF TypeOK
  <1>4. /\ tookUnits' = [tookUnits EXCEPT ![o] = tookUnits'[o]]
        /\ tookUnits'[o]["unit"] = Cardinality(basket[o])
    BY <1>1 DEF tookUnits
  <1>5. [p \in {"unit"} |-> onHand'] =
           [p \in {"unit"} |-> [q \in {"unit"} |-> onHand][p] - tookUnits'[o][p]]
    BY <1>4
  <1>6. [n \in Orders |-> IF n \in sold' THEN "taken" ELSE "open"] =
           [[n \in Orders |-> IF n \in sold THEN "taken" ELSE "open"]
               EXCEPT ![o] = "taken"]
    OBVIOUS
  <1> QED
    BY <1>2, <1>3, <1>4, <1>5, <1>6 DEF Shop!Take

\* The Sells that Order takes for granted are those of the abstract stock, which
\* the stock service was proved to implement: whatever CreateOrder does around
\* its RPC, each order's basket is taken whole, once, from what there is
\* (order.go:99, stock.go:45-76).
THEOREM OrdersUseAtomicStock == Spec => Shop!AbsSpec
  <1>1. Init => Shop!AbsInit
    BY DEF Init, Shop!AbsInit, Shop!AbsNothing, tookUnits
  <1>2. Spec => []SoldInv
    <2>1. Init => SoldInv
      BY DEF Init, SoldInv
    <2> QED
      BY <2>1, SoldStep, TypeInductive, PTL DEF Spec
  <1>3. Spec => []BookInv
    <2>1. Init => BookInv
      BY DEF Init, BookInv, BookOf, Apart
    <2> QED
      BY <1>2, <2>1, BookStep, TypeInductive, PTL DEF Spec
  <1>4. TypeInv /\ BookInv /\ [Next]_vars => [Shop!AbsNext]_(Shop!absVars)
    <2> SUFFICES ASSUME TypeInv, BookInv, [Next]_vars,
                        ~ UNCHANGED <<sold, onHand>>
                 PROVE  Shop!AbsNext
      BY BasketKept
    <2>1. PICK o \in Orders : Sell(o)
      BY DEF Next, AddLine, SendHalf, Step, PanicOnNil, Die, ReadCart, TxFails,
             SaveOrder, DeleteCart, SendTimeout, CommitOrder, EndTransaction,
             CheckLocalTransaction, TimeoutLookup, TimeoutSend, TimeoutAck,
             Crash, Terminating, local, vars
    <2>2. Shop!Take(o)
      BY <2>1, SellTakes DEF Sell
    <2> QED
      BY <2>2 DEF Shop!AbsNext
  <1> QED
    BY <1>1, <1>3, <1>4, TypeInductive, PTL DEF Spec, Shop!AbsSpec
=============================================================================
