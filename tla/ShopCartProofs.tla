-------------------------- MODULE ShopCartProofs --------------------------
(***************************************************************************)
(* Proofs about ShopCart, for any accounts, products, instances, requests   *)
(* and numbers of handlers.                                                 *)
(***************************************************************************)
EXTENDS ShopCart, WellFoundedInduction, TLAPS

-----------------------------------------------------------------------------
(* Numbers and sums *)

\* A nonempty set of naturals has a least element.
LEMMA LeastNatural ==
    ASSUME NEW S \in SUBSET Nat, S # {}
    PROVE  \E x \in S : \A y \in S : x <= y
  <1> DEFINE Less == OpToRel(<, Nat)
  <1>1. IsWellFoundedOn(Less, Nat)
    BY NatLessThanWellFounded
  <1>2. PICK x \in S : \A y \in S : <<y, x>> \notin Less
    <2> HIDE DEF Less
    <2> QED
      BY <1>1, WFMin
  <1>3. ASSUME NEW y \in S, y < x PROVE FALSE
    <2>1. x \in Nat /\ y \in Nat
      OBVIOUS
    <2>2. <<y, x>> \in Less
      BY <1>3, <2>1 DEF OpToRel
    <2> QED
      BY <1>2, <2>2
  <1>4. \A y \in S : x <= y
    BY <1>3
  <1> QED
    BY <1>4

\* Induction, for a set of naturals.
LEMMA AllNaturals ==
    ASSUME NEW T, 0 \in T, \A n \in Nat : n \in T => n + 1 \in T
    PROVE  \A n \in Nat : n \in T
  <1> DEFINE Others == {n \in Nat : n \notin T}
  <1> SUFFICES ASSUME Others # {} PROVE FALSE
    OBVIOUS
  <1>1. PICK x \in Others : \A y \in Others : x <= y
    <2>1. Others \in SUBSET Nat
      OBVIOUS
    <2> HIDE DEF Others
    <2> QED
      BY <2>1, LeastNatural
  <1>2. x - 1 \in Nat /\ x - 1 \in T
    BY <1>1
  <1> QED
    BY <1>1, <1>2

\* s is the function that Total defines.
Sums(f, n, s) == s = [i \in 0 .. n |-> IF i = 0 THEN 0 ELSE s[i - 1] + f[i]]

LEMMA SumsRestrict ==
    ASSUME NEW n \in Nat, NEW f, NEW s, Sums(f, n + 1, s)
    PROVE  /\ Sums(f, n, [i \in 0 .. n |-> s[i]])
           /\ s[n + 1] = s[n] + f[n + 1]
  <1> DEFINE r == [i \in 0 .. n |-> s[i]]
  <1>1. \A i \in 0 .. n + 1 : s[i] = IF i = 0 THEN 0 ELSE s[i - 1] + f[i]
    BY DEF Sums
  <1>2. \A i \in 0 .. n : r[i] = IF i = 0 THEN 0 ELSE r[i - 1] + f[i]
    BY <1>1
  <1>3. Sums(f, n, r)
    BY <1>2 DEF Sums
  <1> QED
    BY <1>1, <1>3

\* There is one such function.
LEMMA SumsUnique ==
    ASSUME NEW f
    PROVE  \A n \in Nat : \E s : Sums(f, n, s) /\ \A u : Sums(f, n, u) => u = s
  <1> DEFINE T == {n \in Nat : \E s : Sums(f, n, s) /\ \A u : Sums(f, n, u) => u = s}
  <1>1. 0 \in T
    <2>1. Sums(f, 0, [i \in 0 .. 0 |-> 0])
      BY DEF Sums
    <2>2. \A u : Sums(f, 0, u) => u = [i \in 0 .. 0 |-> 0]
      BY DEF Sums
    <2> QED
      BY <2>1, <2>2
  <1>2. ASSUME NEW n \in Nat, n \in T PROVE n + 1 \in T
    <2>1. PICK s : Sums(f, n, s) /\ \A u : Sums(f, n, u) => u = s
      BY <1>2
    <2> DEFINE t == [i \in 0 .. n + 1 |-> IF i = n + 1 THEN s[n] + f[n + 1] ELSE s[i]]
    <2>2. \A i \in 0 .. n : s[i] = IF i = 0 THEN 0 ELSE s[i - 1] + f[i]
      BY <2>1 DEF Sums
    <2>3. \A i \in 0 .. n + 1 : t[i] = IF i = 0 THEN 0 ELSE t[i - 1] + f[i]
      BY <2>2
    <2>4. Sums(f, n + 1, t)
      BY <2>3 DEF Sums
    <2>5. ASSUME NEW u, Sums(f, n + 1, u) PROVE u = t
      <3>1. [i \in 0 .. n |-> u[i]] = s /\ u[n + 1] = u[n] + f[n + 1]
        BY <2>1, <2>5, SumsRestrict
      <3>2. u = [i \in 0 .. n + 1 |-> u[i]]
        BY <2>5 DEF Sums
      <3>3. \A i \in 0 .. n + 1 : u[i] = t[i]
        BY <3>1
      <3> QED
        BY <3>2, <3>3
    <2> QED
      BY <2>4, <2>5
  <1>3. \A n \in Nat : n \in T
    <2> HIDE DEF T
    <2> QED
      BY <1>1, <1>2, AllNaturals
  <1> QED
    BY <1>3

LEMMA TotalZero == ASSUME NEW f PROVE Total(f, 0) = 0
  <1>1. PICK s : Sums(f, 0, s) /\ \A u : Sums(f, 0, u) => u = s
    BY SumsUnique
  <1>2. s[0] = 0
    BY <1>1 DEF Sums
  <1> QED
    BY <1>1, <1>2 DEF Total, Sums

LEMMA TotalNext ==
    ASSUME NEW f, NEW n \in Nat
    PROVE  Total(f, n + 1) = Total(f, n) + f[n + 1]
  <1>1. PICK s : Sums(f, n, s) /\ \A u : Sums(f, n, u) => u = s
    BY SumsUnique
  <1>2. PICK t : Sums(f, n + 1, t) /\ \A u : Sums(f, n + 1, u) => u = t
    BY SumsUnique
  <1>3. (CHOOSE u : Sums(f, n, u)) = s /\ (CHOOSE u : Sums(f, n + 1, u)) = t
    BY <1>1, <1>2
  <1>4. Total(f, n) = s[n] /\ Total(f, n + 1) = t[n + 1]
    BY <1>3 DEF Total, Sums
  <1>5. [i \in 0 .. n |-> t[i]] = s /\ t[n + 1] = t[n] + f[n + 1]
    BY <1>1, <1>2, SumsRestrict
  <1> QED
    BY <1>4, <1>5

LEMMA TotalType ==
    ASSUME NEW f, NEW m \in Nat, \A i \in 1 .. m : f[i] \in Int
    PROVE  /\ Total(f, m) \in Int
           /\ (\A i \in 1 .. m : f[i] >= 0) => Total(f, m) >= 0
           /\ (\A i \in 1 .. m : f[i] <= 0) => Total(f, m) <= 0
  <1> DEFINE T == {n \in Nat : n <= m =>
                     /\ Total(f, n) \in Int
                     /\ (\A i \in 1 .. m : f[i] >= 0) => Total(f, n) >= 0
                     /\ (\A i \in 1 .. m : f[i] <= 0) => Total(f, n) <= 0}
  <1>1. 0 \in T
    BY TotalZero
  <1>2. ASSUME NEW n \in Nat, n \in T PROVE n + 1 \in T
    BY <1>2, TotalNext
  <1>3. \A n \in Nat : n \in T
    <2> HIDE DEF T
    <2> QED
      BY <1>1, <1>2, AllNaturals
  <1> QED
    BY <1>3

\* Values that grow at one place only, by d, make a sum that grows by d.
LEMMA TotalGrows ==
    ASSUME NEW f, NEW g, NEW m \in Nat, NEW j \in Nat \ {0}, NEW d \in Int,
           \A i \in 1 .. m : /\ f[i] \in Int /\ g[i] \in Int
                             /\ g[i] <= f[i] + (IF i = j THEN d ELSE 0)
    PROVE  Total(g, m) <= Total(f, m) + (IF j <= m THEN d ELSE 0)
  <1> DEFINE T == {n \in Nat : n <= m =>
                     Total(g, n) <= Total(f, n) + (IF j <= n THEN d ELSE 0)}
  <1>1. 0 \in T
    BY TotalZero
  <1>2. ASSUME NEW n \in Nat, n \in T PROVE n + 1 \in T
    <2> SUFFICES ASSUME n + 1 <= m
                 PROVE  Total(g, n + 1)
                          <= Total(f, n + 1) + (IF j <= n + 1 THEN d ELSE 0)
      OBVIOUS
    <2>1. Total(f, n) \in Int /\ Total(g, n) \in Int
      BY TotalType
    <2>2. Total(g, n) <= Total(f, n) + (IF j <= n THEN d ELSE 0)
      BY <1>2
    <2>3. /\ f[n + 1] \in Int /\ g[n + 1] \in Int
          /\ g[n + 1] <= f[n + 1] + (IF n + 1 = j THEN d ELSE 0)
      OBVIOUS
    <2>4. /\ Total(g, n + 1) = Total(g, n) + g[n + 1]
          /\ Total(f, n + 1) = Total(f, n) + f[n + 1]
      BY TotalNext
    <2> QED
      BY <2>1, <2>2, <2>3, <2>4
  <1>3. \A n \in Nat : n \in T
    <2> HIDE DEF T
    <2> QED
      BY <1>1, <1>2, AllNaturals
  <1> QED
    BY <1>3

LEMMA TotalAtMost ==
    ASSUME NEW f, NEW g, NEW m \in Nat,
           \A i \in 1 .. m : f[i] \in Int /\ g[i] \in Int /\ g[i] <= f[i]
    PROVE  Total(g, m) <= Total(f, m)
  <1>1. PICK j \in Nat \ {0}, d \in Int : d = 0
    OBVIOUS
  <1>2. Total(g, m) <= Total(f, m) + (IF j <= m THEN d ELSE 0)
    <2>1. \A i \in 1 .. m : /\ f[i] \in Int /\ g[i] \in Int
                            /\ g[i] <= f[i] + (IF i = j THEN d ELSE 0)
      BY <1>1
    <2> QED
      BY <2>1, TotalGrows
  <1>3. Total(f, m) \in Int
    BY TotalType
  <1> QED
    BY <1>1, <1>2, <1>3

-----------------------------------------------------------------------------
(* Types *)

\* Where a handler's control and its request fit together.
Control ==
    \A h \in Handler :
        /\ pc[h] = "idle" => req[h] = NoReq
        /\ pc[h] \in {"Add", "save"} => req[h] \in Req /\ req[h].op = "Add"
        /\ pc[h] = "save" => sc[h].line \in Line

TypeInv == TypeOK /\ Control

\* The numbers of int32; adding up may wrap, but never upwards.
LEMMA IntRange == (\A n \in Int32 : n \in Int) /\ 0 \in Int32
  BY IntAssumption DEF Int32

LEMMA WrapsDown ==
    ASSUME NEW n \in Int
    PROVE  Wrapped(n) \in Int32 /\ (n + IntLimit >= 0 => Wrapped(n) <= n)
  <1> DEFINE w == 2 * IntLimit
             m == n + IntLimit
  <1>1. IntLimit \in Nat /\ w \in Nat \ {0} /\ m \in Int
    BY IntAssumption
  <1> HIDE DEF w, m
  <1>2. m % w \in 0 .. w - 1 /\ (m >= 0 => m % w <= m)
    BY <1>1
  <1> QED
    BY <1>1, <1>2 DEF w, m, Wrapped, Int32

LEMMA ReqTypes == \A r \in Req \cup {NoReq} : /\ r.op \in Op /\ r.id \in Nat
                                            /\ r.num \in Int32
  BY ReqAssumption, IntRange DEF Request, NoReq, Op

\* First finds a row when there is one.
LEMMA FirstFound ==
    ASSUME TypeOK, NEW a, NEW p, Matches(a, p) # {}
    PROVE  First(Matches(a, p)) \in Matches(a, p)
  <1>1. Matches(a, p) \in SUBSET Nat
    BY DEF Matches, TypeOK, Rows
  <1>2. \E x \in Matches(a, p) : \A y \in Matches(a, p) : x <= y
    BY <1>1, LeastNatural
  <1> QED
    BY <1>2 DEF First

LEMMA RowType ==
    ASSUME TypeOK
    PROVE  /\ nextId \in Nat \ {0}
           /\ \A id \in Rows : id \in Nat \ {0} /\ id < nextId /\ cart[id] \in Line
  <1>1. nextId \in Nat \ {0} /\ Rows \subseteq 1 .. nextId - 1
    BY DEF TypeOK
  <1>2. \A id \in Rows : cart[id] \in Line
    BY DEF TypeOK
  <1> HIDE DEF Rows
  <1> QED
    BY <1>1, <1>2

LEMMA AddedLine ==
    ASSUME NEW c \in Line, NEW r \in Request
    PROVE  /\ Added(c, r) \in Line
           /\ Added(c, r).account = c.account /\ Added(c, r).product = c.product
           /\ r.num >= 0 => Added(c, r).num <= c.num + r.num
  <1>1. c.num + r.num \in Int /\ r.checked \in BOOLEAN
    BY IntRange DEF Line, Request
  <1>2. r.num >= 0 => c.num + r.num + IntLimit >= 0
    BY IntAssumption DEF Line, Request, Int32
  <1> DEFINE w == Wrapped(c.num + r.num)
  <1>3. w \in Int32 /\ (r.num >= 0 => w <= c.num + r.num)
    BY <1>1, <1>2, WrapsDown
  <1>4. Added(c, r) = [c EXCEPT !.num = w, !.checked = r.checked]
    BY DEF Added
  <1> HIDE DEF w
  <1>5. /\ Added(c, r) \in Line /\ Added(c, r).num = w
        /\ Added(c, r).account = c.account /\ Added(c, r).product = c.product
    BY <1>1, <1>3, <1>4 DEF Line
  <1> QED
    BY <1>3, <1>5

\* AddRead (shopcart.go:37-47) starts a line from the request or adds to one it
\* has found, and this is what it asks for.
LEMMA ReadLine ==
    ASSUME TypeInv, NEW h \in Handler, AddRead(h)
    PROVE  /\ req[h] \in Req /\ req[h].op = "Add"
           /\ sc' = [sc EXCEPT ![h] = sc'[h]]
           /\ sc'[h] \in [id : Nat, line : Line]
           /\ \/ /\ sc'[h].id = req[h].id
                 /\ sc'[h].line.num = req[h].num
              \/ /\ sc'[h].id \in Rows
                 /\ sc'[h].line.account = cart[sc'[h].id].account
                 /\ sc'[h].line.product = cart[sc'[h].id].product
                 /\ req[h].num >= 0 =>
                      sc'[h].line.num <= cart[sc'[h].id].num + req[h].num
           /\ asked' = [asked EXCEPT ![sc'[h].line.product] = @ + req[h].num]
  <1> DEFINE r == req[h]
             found == Matches(r.account, r.product)
             new == [id |-> r.id,
                     line |-> [account |-> r.account, product |-> r.product,
                               num |-> r.num, checked |-> r.checked]]
             old == [id |-> First(found), line |-> Added(cart[First(found)], r)]
  <1>1. r \in Req /\ r.op = "Add" /\ r \in Request
    BY ReqAssumption DEF TypeInv, Control, AddRead
  <1>2. /\ \/ sc' = [sc EXCEPT ![h] = new]
           \/ found # {} /\ sc' = [sc EXCEPT ![h] = old]
        /\ asked' = [asked EXCEPT ![sc'[h].line.product] = @ + r.num]
    BY DEF AddRead
  <1>3. sc \in [Handler -> [id : Nat, line : Line \cup {NoLine}]]
    BY DEF TypeInv, TypeOK
  <1>4. new \in [id : Nat, line : Line] /\ new.id = r.id /\ new.line.num = r.num
    BY <1>1 DEF Line, Request
  <1>5. ASSUME found # {}
        PROVE  /\ old \in [id : Nat, line : Line] /\ old.id \in Rows
               /\ old.line.account = cart[old.id].account
               /\ old.line.product = cart[old.id].product
               /\ r.num >= 0 => old.line.num <= cart[old.id].num + r.num
    <2>1. First(found) \in Rows
      BY <1>5, FirstFound DEF Matches, TypeInv
    <2>2. First(found) \in Nat /\ cart[First(found)] \in Line
      BY <2>1, RowType DEF TypeInv
    <2> QED
      BY <1>1, <2>1, <2>2, AddedLine
  <1> HIDE DEF found, new, old
  <1>6. sc'[h] = new \/ (found # {} /\ sc'[h] = old)
    BY <1>2, <1>3
  <1>7. sc' = [sc EXCEPT ![h] = sc'[h]]
    BY <1>2, <1>3
  <1> QED
    BY <1>1, <1>2, <1>4, <1>5, <1>6, <1>7

LEMMA TypeInit == Init => TypeInv
  BY DEF Init, TypeInv, TypeOK, Control, Rows, Op, NoReq

LEMMA TypeStep == TypeInv /\ [Next]_vars => TypeInv'
  <1> SUFFICES ASSUME TypeInv, [Next]_vars PROVE TypeInv'
    OBVIOUS
  <1> USE DEF TypeInv
  <1>1. ASSUME NEW h \in Handler, NEW i \in Instance, NEW r \in Req, Arrive(h, i, r)
        PROVE  TypeInv'
    BY <1>1, ReqTypes DEF Arrive, TypeOK, Control, Rows, Op
  <1>2. ASSUME NEW h \in Handler, NEW r, r \in {"OK", "ShopCartNotFound", "ParamError"},
               Answer(h, r), UNCHANGED <<cart, nextId, sc, asked>>
        PROVE  TypeInv'
    BY <1>2 DEF Answer, TypeOK, Control, Rows
  <1>3. ASSUME NEW h \in Handler, ShopCartItemList(h) PROVE TypeInv'
    <2>1. CASE Die(at[h])
      BY <2>1 DEF Die, TypeOK, Control, Rows, Running
    <2> QED
      BY <1>2, <1>3, <2>1 DEF ShopCartItemList
  <1>4. ASSUME NEW h \in Handler, AddRead(h) PROVE TypeInv'
    <2>1. TypeOK'
      <3>1. sc'[h].line.product \in Product /\ req[h].num \in Int
        BY <1>4, ReadLine, ReqTypes, IntRange DEF Line
      <3>2. /\ pc' = [pc EXCEPT ![h] = "save"]
            /\ UNCHANGED <<cart, nextId, at, req, reply>>
        BY <1>4 DEF AddRead
      <3> QED
        BY <1>4, <3>1, <3>2, ReadLine DEF TypeOK, Rows
    <2>2. Control'
      BY <1>4, ReadLine DEF AddRead, TypeOK, Control
    <2> QED
      BY <2>1, <2>2
  <1>5. ASSUME NEW h \in Handler, AddSave(h) PROVE TypeInv'
    <2> DEFINE id == IF sc[h].id = 0 THEN nextId ELSE sc[h].id
    <2>1. /\ pc[h] = "save" /\ UNCHANGED <<at, req, asked>>
          /\ cart' = [j \in Rows \cup {id} |-> IF j = id THEN sc[h].line ELSE cart[j]]
          /\ nextId' = IF id < nextId THEN nextId ELSE id + 1
          /\ sc' = [sc EXCEPT ![h].id = id]
          /\ pc' = [pc EXCEPT ![h] = "done"] /\ reply' = [reply EXCEPT ![h] = "OK"]
      BY <1>5 DEF AddSave, Answer
    <2>2. id \in Nat \ {0} /\ sc[h].line \in Line
      BY <2>1 DEF TypeOK, Control
    <2>3. Rows' = Rows \cup {id}
      BY <2>1 DEF Rows
    <2> HIDE DEF id
    <2>4. /\ nextId' \in Nat \ {0} /\ Rows' \subseteq 1 .. nextId' - 1
          /\ \A j \in Rows' : cart'[j] \in Line
      BY <2>1, <2>2, <2>3, RowType
    <2>5. sc' \in [Handler -> [id : Nat, line : Line \cup {NoLine}]]
      BY <2>1, <2>2 DEF TypeOK
    <2>6. TypeOK'
      BY <2>1, <2>4, <2>5 DEF TypeOK
    <2>7. Control'
      BY <2>1 DEF TypeOK, Control
    <2> QED
      BY <2>6, <2>7
  <1>6. ASSUME NEW h \in Handler, AddSaveFails(h) \/ DeleteShopCart(h) PROVE TypeInv'
    BY <1>2, <1>6 DEF AddSaveFails, DeleteShopCart
  <1>7. ASSUME NEW h \in Handler, UpdateShopCartItem(h) PROVE TypeInv'
    BY <1>2, <1>7 DEF UpdateShopCartItem
  <1>8. CASE UNCHANGED vars
    BY <1>8 DEF vars, TypeOK, Control, Rows
  <1> QED
    BY <1>1, <1>3, <1>4, <1>5, <1>6, <1>7, <1>8 DEF Next, Handle, Terminating

-----------------------------------------------------------------------------
(* Owners *)

\* A line that was found still has the owner it was read with.
OwnerRead ==
    NoIdsChosen => \A h \in Handler : pc[h] = "save" /\ sc[h].id # 0 =>
        /\ sc[h].id \in Rows
        /\ sc[h].line.account = cart[sc[h].id].account
        /\ sc[h].line.product = cart[sc[h].id].product

\* What AddSave (shopcart.go:101) writes.
LEMMA SavedLine ==
    ASSUME TypeInv, NEW h \in Handler, AddSave(h)
    PROVE  \E id \in Nat \ {0} :
             /\ id = IF sc[h].id = 0 THEN nextId ELSE sc[h].id
             /\ sc[h].id = 0 => id \notin Rows
             /\ Rows' = Rows \cup {id} /\ cart'[id] = sc[h].line
             /\ \A j \in Rows : j # id => cart'[j] = cart[j]
             /\ sc[h].line \in Line /\ pc[h] = "save"
             /\ pc' = [pc EXCEPT ![h] = "done"]
             /\ \A g \in Handler : g # h => sc'[g] = sc[g]
             /\ UNCHANGED <<req, asked>>
  <1> DEFINE id == IF sc[h].id = 0 THEN nextId ELSE sc[h].id
  <1>1. sc[h].id \in Nat /\ nextId \in Nat \ {0} /\ nextId \notin Rows
    BY RowType DEF TypeInv, TypeOK
  <1>2. /\ cart' = [j \in Rows \cup {id} |-> IF j = id THEN sc[h].line ELSE cart[j]]
        /\ sc' = [sc EXCEPT ![h].id = id] /\ pc[h] = "save"
        /\ pc' = [pc EXCEPT ![h] = "done"] /\ UNCHANGED <<req, asked>>
    BY DEF AddSave, Answer
  <1>3. sc[h].line \in Line /\ \A g \in Handler : g # h => sc'[g] = sc[g]
    BY <1>2 DEF TypeInv, TypeOK, Control
  <1>4. Rows' = Rows \cup {id}
    BY <1>2 DEF Rows
  <1> QED
    BY <1>1, <1>2, <1>3, <1>4

LEMMA OwnerStep == TypeInv /\ OwnerRead /\ [Next]_vars => OwnerRead'
  <1> SUFFICES ASSUME TypeInv, OwnerRead, [Next]_vars, NoIdsChosen',
                      NEW g \in Handler, pc'[g] = "save", sc'[g].id # 0
               PROVE  /\ sc'[g].id \in Rows'
                      /\ sc'[g].line.account = cart'[sc'[g].id].account
                      /\ sc'[g].line.product = cart'[sc'[g].id].product
    BY DEF OwnerRead, NoIdsChosen, Rows
  <1> DEFINE Goal == /\ sc'[g].id \in Rows'
                     /\ sc'[g].line.account = cart'[sc'[g].id].account
                     /\ sc'[g].line.product = cart'[sc'[g].id].product
  <1>1. ASSUME NoIdsChosen, pc[g] = "save", UNCHANGED <<cart, sc>> PROVE Goal
    BY <1>1 DEF OwnerRead, Rows
  <1>2. ASSUME NEW h \in Handler, NEW i \in Instance, NEW r \in Req, Arrive(h, i, r)
        PROVE  Goal
    <2>1. /\ pc' = [pc EXCEPT ![h] = r.op] /\ req' = [req EXCEPT ![h] = r]
          /\ req[h].op = "List" /\ r.op # "save" /\ UNCHANGED <<cart, sc>>
      BY <1>2, ReqTypes DEF Arrive, TypeInv, Control, NoReq, Op
    <2>2. pc[g] = "save" /\ NoIdsChosen
      BY <2>1 DEF NoIdsChosen, TypeInv, TypeOK
    <2> QED
      BY <1>1, <2>1, <2>2
  <1>3. ASSUME NEW h \in Handler, AddRead(h) PROVE Goal
    <2>1. /\ pc' = [pc EXCEPT ![h] = "save"] /\ UNCHANGED <<cart, req>>
      BY <1>3 DEF AddRead
    <2>2. NoIdsChosen /\ Rows' = Rows
      BY <2>1 DEF NoIdsChosen, Rows
    <2>3. CASE g = h
      BY <1>3, <2>1, <2>2, <2>3, ReadLine DEF NoIdsChosen
    <2>4. CASE g # h
      <3>1. sc'[g] = sc[g] /\ pc[g] = "save"
        BY <1>3, <2>1, <2>4, ReadLine DEF TypeInv, TypeOK
      <3> QED
        BY <2>1, <2>2, <3>1 DEF OwnerRead
    <2> QED
      BY <2>3, <2>4
  <1>4. ASSUME NEW h \in Handler, AddSave(h) PROVE Goal
    <2>1. PICK id \in Nat \ {0} :
             /\ id = IF sc[h].id = 0 THEN nextId ELSE sc[h].id
             /\ sc[h].id = 0 => id \notin Rows
             /\ Rows' = Rows \cup {id} /\ cart'[id] = sc[h].line
             /\ \A j \in Rows : j # id => cart'[j] = cart[j]
             /\ pc[h] = "save" /\ pc' = [pc EXCEPT ![h] = "done"]
             /\ \A f \in Handler : f # h => sc'[f] = sc[f]
             /\ UNCHANGED req
      BY <1>4, SavedLine
    <2>2. g # h /\ pc[g] = "save" /\ sc'[g] = sc[g] /\ NoIdsChosen
      BY <2>1 DEF TypeInv, TypeOK, NoIdsChosen
    <2> QED
      BY <2>1, <2>2 DEF OwnerRead
  <1>5. ASSUME NEW h \in Handler, ShopCartItemList(h) \/ AddSaveFails(h)
                  \/ DeleteShopCart(h) \/ UpdateShopCartItem(h)
        PROVE  Goal
    <2>1. pc[g] = "save" /\ UNCHANGED <<cart, sc, req>>
      BY <1>5 DEF ShopCartItemList, AddSaveFails, DeleteShopCart, UpdateShopCartItem,
                  Die, Answer, TypeInv, TypeOK
    <2> QED
      BY <1>1, <2>1 DEF NoIdsChosen
  <1>6. ASSUME UNCHANGED vars PROVE Goal
    BY <1>1, <1>6 DEF vars, NoIdsChosen
  <1> HIDE DEF Goal
  <1>7. ASSUME NEW h \in Handler, Handle(h) PROVE Goal
    BY <1>3, <1>4, <1>5, <1>7 DEF Handle
  <1>8. Goal
    BY <1>2, <1>6, <1>7 DEF Next, Terminating
  <1> QED
    BY <1>8 DEF Goal

\* What a step may do to the lines that are there.
KeepsOwner ==
    NoIdsChosen => \A id \in Rows :
        /\ id \in DOMAIN cart'
        /\ cart'[id].account = cart[id].account
        /\ cart'[id].product = cart[id].product

LEMMA KeepsOwnerStep == TypeInv /\ OwnerRead /\ [Next]_vars => KeepsOwner
  <1> SUFFICES ASSUME TypeInv, OwnerRead, [Next]_vars PROVE KeepsOwner
    OBVIOUS
  <1>1. CASE UNCHANGED cart
    BY <1>1 DEF KeepsOwner, Rows
  <1>2. ASSUME NEW h \in Handler, AddSave(h) PROVE KeepsOwner
    <2> SUFFICES ASSUME NoIdsChosen, NEW j \in Rows
                 PROVE  /\ j \in Rows'
                        /\ cart'[j].account = cart[j].account
                        /\ cart'[j].product = cart[j].product
      BY DEF KeepsOwner, Rows
    <2>1. PICK id \in Nat \ {0} :
             /\ id = IF sc[h].id = 0 THEN nextId ELSE sc[h].id
             /\ sc[h].id = 0 => id \notin Rows
             /\ Rows' = Rows \cup {id} /\ cart'[id] = sc[h].line
             /\ \A i \in Rows : i # id => cart'[i] = cart[i]
             /\ pc[h] = "save"
      BY <1>2, SavedLine
    <2>2. CASE j = id
      BY <2>1, <2>2 DEF OwnerRead
    <2>3. CASE j # id
      BY <2>1, <2>3
    <2> QED
      BY <2>2, <2>3
  <1>3. ASSUME NEW h \in Handler, Handle(h), ~AddSave(h) PROVE UNCHANGED cart
    BY <1>3 DEF Handle, ShopCartItemList, AddRead, AddSaveFails, DeleteShopCart,
                UpdateShopCartItem, Die
  <1>4. UNCHANGED cart \/ \E h \in Handler : AddSave(h)
    BY <1>3 DEF Next, Arrive, Terminating, vars
  <1> QED
    BY <1>1, <1>2, <1>4

LEMMA SpecTypeInv == Spec => []TypeInv
  BY TypeInit, TypeStep, PTL DEF Spec

\* Types, for every constant: AUTO_INCREMENT stays above every row id, the ids
\* that Adds choose themselves included (shopcart.go:101).
THEOREM CartTypeCorrect == Spec => []TypeOK
  <1>1. TypeInv => TypeOK
    BY DEF TypeInv
  <1> QED
    BY <1>1, SpecTypeInv, PTL

\* Whatever handlers interleave between their First and their Save
\* (shopcart.go:37-47), lines keep their account and product and stay, as long
\* as no Add names a row id.
THEOREM LinesKeepTheirOwner == Spec => LinesKeepOwner
  <1>1. Init => OwnerRead
    BY DEF Init, OwnerRead
  <1>2. Spec => []OwnerRead
    BY <1>1, SpecTypeInv, OwnerStep, PTL DEF Spec
  <1>3. TypeInv /\ OwnerRead /\ [Next]_vars => [KeepsOwner]_vars
    BY KeepsOwnerStep
  <1>4. Spec => [][KeepsOwner]_vars
    BY <1>2, <1>3, SpecTypeInv, PTL DEF Spec
  <1> QED
    BY <1>4 DEF LinesKeepOwner, KeepsOwner

-----------------------------------------------------------------------------
(* Quantities *)

\* No Add asks for a negative quantity.  Without this an Add of -1 whose Save
\* fails leaves the cart with one more than was asked for.
NonNegative == \A r \in Req : r.op = "Add" => r.num >= 0

\* What each handler is about to insert of product p, on a line of its own.
Started(p) ==
    [h \in Handler |->
        IF pc[h] = "save" /\ sc[h].id = 0 /\ sc[h].line.product = p
          THEN sc[h].line.num ELSE 0]

\* b[p][id] is what Adds may have put of product p on row id.
Covers(b) ==
    /\ \A id \in Rows : cart[id].num <= b[cart[id].product][id]
    /\ \A h \in Handler : pc[h] = "save" =>
          IF sc[h].id = 0 THEN sc[h].line.num >= 0
                          ELSE sc[h].line.num <= b[sc[h].line.product][sc[h].id]
    /\ \A p \in Product, n \in Nat :
          Total(b[p], n) + Total(Started(p), MaxHandlers) <= asked[p]

Budget == \E b \in [Product -> [Nat -> Nat]] : Covers(b)

LEMMA StartedType ==
    ASSUME TypeInv, NEW p
    PROVE  /\ \A h \in 1 .. MaxHandlers : Started(p)[h] \in Int
           /\ Total(Started(p), MaxHandlers) \in Int
  <1>1. \A h \in 1 .. MaxHandlers : Started(p)[h] \in Int
    BY IntRange DEF TypeInv, TypeOK, Control, Line, Started, Handler
  <1> QED
    BY <1>1, TotalType, IdAssumption

LEMMA BudgetType ==
    ASSUME NEW b \in [Product -> [Nat -> Nat]], NEW p \in Product, NEW n \in Nat
    PROVE  /\ \A i \in 1 .. n : b[p][i] \in Nat
           /\ Total(b[p], n) \in Int
  <1>1. \A i \in 1 .. n : b[p][i] \in Nat
    OBVIOUS
  <1> QED
    BY <1>1, TotalType

LEMMA StartedNextType ==
    ASSUME TypeInv', NEW p
    PROVE  /\ \A h \in 1 .. MaxHandlers : Started(p)'[h] \in Int
           /\ Total(Started(p)', MaxHandlers) \in Int
  <1>1. ASSUME NEW h \in Handler PROVE Started(p)'[h] \in Int
    <2>1. pc'[h] = "save" => sc'[h].line \in Line
      BY DEF TypeInv, Control
    <2>2. \A line \in Line : line.num \in Int
      BY IntRange DEF Line
    <2> QED
      BY <2>1, <2>2 DEF Started
  <1> DEFINE g == Started(p)'
  <1>2. \A h \in 1 .. MaxHandlers : g[h] \in Int
    BY <1>1 DEF Handler
  <1> HIDE DEF g
  <1>3. Total(g, MaxHandlers) \in Int
    BY <1>2, TotalType, IdAssumption
  <1> QED
    BY <1>2, <1>3 DEF g

\* One product's budget grows by at most u at one row, what is about to be
\* inserted grows by at most v at one handler, and as much is asked for.
Moves(b, c, p, row, u, h, v) ==
    /\ \A i \in Nat : c[p][i] <= b[p][i] + (IF i = row THEN u ELSE 0)
    /\ \A g \in Handler : Started(p)'[g] <= Started(p)[g] + (IF g = h THEN v ELSE 0)
    /\ asked'[p] >= asked[p] + u + v

LEMMA SumsStep ==
    ASSUME TypeInv, TypeInv', NEW b \in [Product -> [Nat -> Nat]], Covers(b),
           NEW c \in [Product -> [Nat -> Nat]], NEW p \in Product,
           NEW row \in Nat \ {0}, NEW u \in Nat, NEW h \in Handler, NEW v \in Int,
           Moves(b, c, p, row, u, h, v)
    PROVE  \A n \in Nat :
              Total(c[p], n) + Total(Started(p)', MaxHandlers) <= asked'[p]
  <1> SUFFICES ASSUME NEW n \in Nat
               PROVE  Total(c[p], n) + Total(Started(p)', MaxHandlers) <= asked'[p]
    OBVIOUS
  <1> DEFINE f == b[p]
             g == c[p]
             s == Started(p)
             t == Started(p)'
  <1>1. Total(g, n) <= Total(f, n) + u
    <2>1. \A i \in 1 .. n : /\ f[i] \in Int /\ g[i] \in Int
                            /\ g[i] <= f[i] + (IF i = row THEN u ELSE 0)
      BY BudgetType DEF Moves
    <2>2. Total(f, n) \in Int
      BY BudgetType
    <2> HIDE DEF f, g
    <2>3. u \in Int /\ row \in Nat
      OBVIOUS
    <2>4. Total(g, n) <= Total(f, n) + (IF row <= n THEN u ELSE 0)
      BY <2>1, <2>3, TotalGrows
    <2>5. (IF row <= n THEN u ELSE 0) <= u /\ (IF row <= n THEN u ELSE 0) \in Int
      OBVIOUS
    <2>6. Total(g, n) \in Int
      BY <2>1, TotalType
    <2> QED
      BY <2>2, <2>3, <2>4, <2>5, <2>6
  <1>2. Total(t, MaxHandlers) <= Total(s, MaxHandlers) + v
    <2>1. /\ MaxHandlers \in Nat /\ h \in Nat \ {0} /\ h <= MaxHandlers
      BY IdAssumption DEF Handler
    <2>2. \A i \in 1 .. MaxHandlers :
             /\ s[i] \in Int /\ t[i] \in Int
             /\ t[i] <= s[i] + (IF i = h THEN v ELSE 0)
      BY StartedType, StartedNextType DEF Moves, Handler
    <2> HIDE DEF s, t
    <2>3. Total(t, MaxHandlers)
            <= Total(s, MaxHandlers) + (IF h <= MaxHandlers THEN v ELSE 0)
      BY <2>1, <2>2, TotalGrows
    <2> QED
      BY <2>1, <2>3
  <1>3. Total(f, n) + Total(s, MaxHandlers) <= asked[p]
    BY DEF Covers
  <1>4. /\ Total(f, n) \in Int /\ Total(g, n) \in Int
        /\ Total(s, MaxHandlers) \in Int /\ Total(t, MaxHandlers) \in Int
        /\ asked[p] \in Int /\ asked'[p] \in Int
    BY BudgetType, StartedType, StartedNextType DEF TypeInv, TypeOK
  <1>5. asked'[p] >= asked[p] + u + v
    BY DEF Moves
  <1> HIDE DEF f, g, s, t
  <1>6. Total(g, n) + Total(t, MaxHandlers) <= asked'[p]
    BY <1>1, <1>2, <1>3, <1>4, <1>5
  <1> QED
    BY <1>6 DEF g, t

LEMMA BudgetInit == Init => Budget
  <1> SUFFICES ASSUME Init PROVE Budget
    OBVIOUS
  <1> DEFINE b == [p \in Product |-> [i \in Nat |-> 0]]
  <1>1. TypeInv /\ b \in [Product -> [Nat -> Nat]]
    BY TypeInit
  <1>2. ASSUME NEW p \in Product, NEW n \in Nat
        PROVE  Total(b[p], n) + Total(Started(p), MaxHandlers) <= asked[p]
    <2>1. Total(b[p], n) <= 0
      <3>1. \A i \in 1 .. n : b[p][i] \in Int /\ b[p][i] <= 0
        OBVIOUS
      <3> HIDE DEF b
      <3> QED
        BY <3>1, TotalType
    <2>2. Total(Started(p), MaxHandlers) <= 0
      <3>1. \A i \in 1 .. MaxHandlers : Started(p)[i] \in Int /\ Started(p)[i] <= 0
        BY DEF Init, Started, Handler
      <3> QED
        BY <3>1, TotalType, IdAssumption
    <2>3. Total(b[p], n) \in Int /\ Total(Started(p), MaxHandlers) \in Int
      <3> HIDE DEF b
      <3> QED
        BY <1>1, BudgetType, StartedType
    <2> QED
      BY <2>1, <2>2, <2>3 DEF Init
  <1>3. Covers(b)
    <2> HIDE DEF b
    <2> QED
      BY <1>2 DEF Init, Covers, Rows
  <1> QED
    BY <1>1, <1>3 DEF Budget

\* A step that reads and writes no line, and leaves no handler with more to
\* insert, keeps every budget.
LEMMA BudgetSame ==
    ASSUME TypeInv, TypeInv', Budget, UNCHANGED <<cart, sc, asked>>,
           \A g \in Handler : pc'[g] = "save" => pc[g] = "save",
           Handler # {}
    PROVE  Budget'
  <1>1. PICK b \in [Product -> [Nat -> Nat]] : Covers(b)
    BY DEF Budget
  <1>2. PICK h \in Handler, one \in Nat \ {0}, u \in Nat, v \in Int : u = 0 /\ v = 0
    OBVIOUS
  <1>3. ASSUME NEW p \in Product
        PROVE  \A n \in Nat :
                  Total(b[p], n) + Total(Started(p)', MaxHandlers) <= asked'[p]
    <2>1. \A g \in Handler : Started(p)'[g] <= Started(p)[g] + (IF g = h THEN v ELSE 0)
      <3> SUFFICES ASSUME NEW g \in Handler
                   PROVE  Started(p)'[g] <= Started(p)[g] + (IF g = h THEN v ELSE 0)
        OBVIOUS
      <3>1. /\ pc[g] = "save" => sc[g].line.num \in Int
            /\ Started(p)[g] \in Int
        BY StartedType, IntRange DEF TypeInv, Control, Line, Handler
      <3>2. pc[g] = "save" /\ sc[g].id = 0 => sc[g].line.num >= 0
        BY <1>1 DEF Covers
      <3>3. Started(p)'[g] <= Started(p)[g]
        BY <3>1, <3>2 DEF Started
      <3> QED
        BY <1>2, <3>1, <3>3
    <2>2. \A i \in Nat : b[p][i] <= b[p][i] + (IF i = one THEN u ELSE 0)
      BY <1>2
    <2>3. asked'[p] >= asked[p] + u + v
      BY <1>2 DEF TypeInv, TypeOK
    <2>4. Moves(b, b, p, one, u, h, v)
      BY <2>1, <2>2, <2>3 DEF Moves
    <2> QED
      BY <1>1, <1>2, <2>4, SumsStep
  <1>4. Covers(b)'
    BY <1>1, <1>3 DEF Covers, Rows
  <1> QED
    BY <1>4 DEF Budget

\* AddRead (shopcart.go:37-47): what is asked for is put aside on the row that
\* was found, or counted as about to be inserted.
LEMMA BudgetRead ==
    ASSUME NonNegative, TypeInv, TypeInv', Budget, NEW h \in Handler, AddRead(h)
    PROVE  Budget'
  <1>1. PICK b \in [Product -> [Nat -> Nat]] : Covers(b)
    BY DEF Budget
  <1> DEFINE q == sc'[h].line.product
             k == sc'[h].id
             r == req[h].num
  <1>2. /\ q \in Product /\ k \in Nat /\ r \in Nat
        /\ sc' = [sc EXCEPT ![h] = sc'[h]] /\ sc'[h].line.num \in Int
        /\ asked' = [asked EXCEPT ![q] = @ + r]
        /\ pc' = [pc EXCEPT ![h] = "save"] /\ pc[h] = "Add" /\ UNCHANGED cart
    <2>1. req[h] \in Req /\ req[h].op = "Add"
      BY ReadLine
    <2>2. r \in Nat
      BY <2>1, ReqTypes, IntRange DEF NonNegative
    <2> QED
      BY <2>2, ReadLine, IntRange DEF AddRead, Line
  <1>3. \/ k = 0 /\ sc'[h].line.num = r
        \/ k # 0 /\ sc'[h].line.num <= b[q][k] + r
    <2>1. CASE k = req[h].id /\ sc'[h].line.num = r
      BY <1>2, <2>1
    <2>2. CASE /\ k \in Rows /\ q = cart[k].product
               /\ sc'[h].line.num <= cart[k].num + r
      <3>1. k \in Nat \ {0} /\ cart[k].num \in Int
        BY <2>2, RowType, IntRange DEF TypeInv, Line
      <3>2. cart[k].num <= b[q][k]
        BY <1>1, <2>2 DEF Covers
      <3> QED
        BY <1>2, <2>2, <3>1, <3>2
    <2> QED
      <3>1. r >= 0
        BY <1>2
      <3> QED
        BY <2>1, <2>2, <3>1, ReadLine
  <1> HIDE DEF q, k, r
  <1>4. PICK c \in [Product -> [Nat -> Nat]] : \A p \in Product, i \in Nat :
           c[p][i] = b[p][i] + (IF p = q /\ i = k /\ k # 0 THEN r ELSE 0)
    <2> DEFINE more == [p \in Product |-> [i \in Nat |->
                          b[p][i] + (IF p = q /\ i = k /\ k # 0 THEN r ELSE 0)]]
    <2>1. more \in [Product -> [Nat -> Nat]]
      BY <1>2
    <2>2. \A p \in Product, i \in Nat :
             more[p][i] = b[p][i] + (IF p = q /\ i = k /\ k # 0 THEN r ELSE 0)
      OBVIOUS
    <2> HIDE DEF more
    <2> QED
      BY <2>1, <2>2
  <1>5. \A p \in Product, i \in Nat : c[p][i] >= b[p][i]
    BY <1>2, <1>4
  <1>6. k # 0 => c[q][k] = b[q][k] + r
    BY <1>2, <1>4
  <1>7. \A p \in Product, i \in Nat :
           c[p][i] <= b[p][i] + (IF i = k THEN (IF p = q THEN r ELSE 0) ELSE 0)
    BY <1>2, <1>4
  <1>8. ASSUME NEW p \in Product
        PROVE  \A n \in Nat :
                  Total(c[p], n) + Total(Started(p)', MaxHandlers) <= asked'[p]
    <2> DEFINE d == IF p = q THEN r ELSE 0
               u == IF k = 0 THEN 0 ELSE d
               v == IF k = 0 THEN d ELSE 0
               row == IF k = 0 THEN 1 ELSE k
    <2>1. /\ d \in Nat /\ u \in Nat /\ v \in Int /\ row \in Nat \ {0} /\ u + v = d
      BY <1>2
    <2>2. \A i \in Nat : c[p][i] <= b[p][i] + (IF i = row THEN u ELSE 0)
      <3>1. CASE k = 0
        <4>1. \A i \in Nat : c[p][i] = b[p][i]
          BY <1>4, <3>1
        <4> QED
          BY <3>1, <4>1
      <3>2. CASE k # 0
        BY <1>7, <3>2
      <3> QED
        BY <3>1, <3>2
    <2>3. \A g \in Handler : Started(p)'[g] <= Started(p)[g] + (IF g = h THEN v ELSE 0)
      <3> SUFFICES ASSUME NEW g \in Handler
                   PROVE  Started(p)'[g] <= Started(p)[g] + (IF g = h THEN v ELSE 0)
        OBVIOUS
      <3>1. CASE g = h
        <4>1. Started(p)[g] = 0
          BY <1>2, <3>1 DEF Started
        <4>2. Started(p)'[g] = v
          <5>1. pc'[h] = "save"
            BY <1>2 DEF TypeInv, TypeOK
          <5>2. Started(p)'[g] = IF k = 0 /\ q = p THEN sc'[h].line.num ELSE 0
            BY <3>1, <5>1 DEF Started, q, k
          <5> QED
            BY <1>3, <5>2
        <4> QED
          BY <2>1, <3>1, <4>1, <4>2
      <3>2. CASE g # h
        <4>1. Started(p)'[g] = Started(p)[g] /\ Started(p)[g] \in Int
          BY <1>2, <3>2, StartedType DEF Started, TypeInv, TypeOK, Handler
        <4> QED
          BY <3>2, <4>1
      <3> QED
        BY <3>1, <3>2
    <2>4. asked'[p] >= asked[p] + u + v
      <3>1. asked'[p] = asked[p] + d /\ asked[p] \in Int
        BY <1>2 DEF TypeInv, TypeOK
      <3> QED
        BY <2>1, <3>1
    <2>5. Moves(b, c, p, row, u, h, v)
      BY <2>2, <2>3, <2>4 DEF Moves
    <2> HIDE DEF d, u, v, row
    <2> QED
      BY <1>1, <2>1, <2>5, SumsStep
  <1>9. ASSUME NEW id \in Rows' PROVE cart'[id].num <= c[cart'[id].product][id]
    <2>1. /\ id \in Nat /\ cart'[id] = cart[id] /\ cart[id].num \in Int
          /\ cart[id].product \in Product
      BY <1>2, <1>9, RowType, IntRange DEF TypeInv, Rows, Line
    <2>2. cart[id].num <= b[cart[id].product][id]
      BY <1>1, <1>2, <1>9 DEF Covers, Rows
    <2>3. /\ b[cart[id].product][id] <= c[cart[id].product][id]
          /\ b[cart[id].product][id] \in Int /\ c[cart[id].product][id] \in Int
      BY <1>4, <1>5, <2>1
    <2> QED
      BY <2>1, <2>2, <2>3
  <1>10. ASSUME NEW g \in Handler, pc'[g] = "save"
         PROVE  IF sc'[g].id = 0 THEN sc'[g].line.num >= 0
                ELSE sc'[g].line.num <= c[sc'[g].line.product][sc'[g].id]
    <2>1. CASE g = h
      BY <1>2, <1>3, <1>6, <2>1 DEF q, k
    <2>2. CASE g # h
      <3>1. sc'[g] = sc[g] /\ pc[g] = "save"
        BY <1>2, <1>10, <2>2 DEF TypeInv, TypeOK
      <3>2. sc[g].line.num \in Int /\ sc[g].line.product \in Product /\ sc[g].id \in Nat
        BY <3>1, IntRange DEF TypeInv, TypeOK, Control, Line
      <3>3. IF sc[g].id = 0 THEN sc[g].line.num >= 0
            ELSE sc[g].line.num <= b[sc[g].line.product][sc[g].id]
        BY <1>1, <3>1 DEF Covers
      <3>4. /\ b[sc[g].line.product][sc[g].id] <= c[sc[g].line.product][sc[g].id]
            /\ b[sc[g].line.product][sc[g].id] \in Int
            /\ c[sc[g].line.product][sc[g].id] \in Int
        BY <1>4, <1>5, <3>2
      <3> QED
        BY <3>1, <3>2, <3>3, <3>4
    <2> QED
      BY <2>1, <2>2
  <1>11. Covers(c)'
    BY <1>8, <1>9, <1>10 DEF Covers
  <1> QED
    BY <1>4, <1>11 DEF Budget

\* AddSave (shopcart.go:101): an UPDATE writes what is covered on its row; an
\* INSERT moves what the handler was about to insert to the new row.
LEMMA BudgetSave ==
    ASSUME TypeInv, TypeInv', Budget, NEW h \in Handler, AddSave(h)
    PROVE  Budget'
  <1>1. PICK b \in [Product -> [Nat -> Nat]] : Covers(b)
    BY DEF Budget
  <1> DEFINE q == sc[h].line.product
             v == sc[h].line.num
             new == sc[h].id = 0
  <1>2. PICK id \in Nat \ {0} :
           /\ id = IF new THEN nextId ELSE sc[h].id
           /\ Rows' = Rows \cup {id} /\ cart'[id] = sc[h].line
           /\ \A j \in Rows : j # id => cart'[j] = cart[j]
           /\ sc[h].line \in Line /\ pc[h] = "save"
           /\ pc' = [pc EXCEPT ![h] = "done"]
           /\ \A g \in Handler : g # h => sc'[g] = sc[g]
           /\ UNCHANGED asked
    BY SavedLine
  <1>3. /\ q \in Product /\ v \in Int
        /\ IF new THEN v >= 0 ELSE v <= b[q][id]
    BY <1>1, <1>2, IntRange DEF Covers, Line
  <1> DEFINE u == IF new THEN v ELSE 0
  <1>4. u \in Nat
    BY <1>3
  <1>5. v <= b[q][id] + u
    BY <1>3
  <1> HIDE DEF q, v, new, u
  <1>6. PICK c \in [Product -> [Nat -> Nat]] : \A p \in Product, i \in Nat :
           c[p][i] = b[p][i] + (IF p = q /\ i = id THEN u ELSE 0)
    <2> DEFINE more == [p \in Product |-> [i \in Nat |->
                          b[p][i] + (IF p = q /\ i = id THEN u ELSE 0)]]
    <2>1. more \in [Product -> [Nat -> Nat]]
      BY <1>4
    <2>2. \A p \in Product, i \in Nat :
             more[p][i] = b[p][i] + (IF p = q /\ i = id THEN u ELSE 0)
      OBVIOUS
    <2> HIDE DEF more
    <2> QED
      BY <2>1, <2>2
  <1>7. \A p \in Product, i \in Nat :
           /\ c[p][i] >= b[p][i]
           /\ c[p][i] = b[p][i] + (IF i = id THEN (IF p = q THEN u ELSE 0) ELSE 0)
    BY <1>4, <1>6
  <1>8. ASSUME NEW p \in Product
        PROVE  \A n \in Nat :
                  Total(c[p], n) + Total(Started(p)', MaxHandlers) <= asked'[p]
    <2> DEFINE d == IF p = q THEN u ELSE 0
               less == 0 - d
    <2>1. d \in Nat /\ less \in Int /\ less = 0 - d
      BY <1>4
    <2>2. \A i \in Nat : c[p][i] <= b[p][i] + (IF i = id THEN d ELSE 0)
      BY <1>6, <1>7
    <2>3. \A g \in Handler :
             Started(p)'[g] <= Started(p)[g] + (IF g = h THEN less ELSE 0)
      <3> SUFFICES ASSUME NEW g \in Handler
                   PROVE  Started(p)'[g] <= Started(p)[g] + (IF g = h THEN less ELSE 0)
        OBVIOUS
      <3>1. CASE g = h
        <4>1. Started(p)'[g] = 0
          BY <1>2, <3>1 DEF Started, TypeInv, TypeOK
        <4>2. Started(p)[g] = d
          BY <1>2, <3>1 DEF Started, q, v, new, u
        <4> QED
          BY <2>1, <3>1, <4>1, <4>2
      <3>2. CASE g # h
        <4>1. Started(p)'[g] = Started(p)[g] /\ Started(p)[g] \in Int
          BY <1>2, <3>2, StartedType DEF Started, TypeInv, TypeOK, Handler
        <4> QED
          BY <3>2, <4>1
      <3> QED
        BY <3>1, <3>2
    <2>4. asked'[p] >= asked[p] + d + less
      BY <1>2, <2>1 DEF TypeInv, TypeOK
    <2>5. Moves(b, c, p, id, d, h, less)
      BY <2>2, <2>3, <2>4 DEF Moves
    <2> HIDE DEF d, less
    <2> QED
      BY <1>1, <1>2, <2>1, <2>5, SumsStep
  <1>9. ASSUME NEW j \in Rows' PROVE cart'[j].num <= c[cart'[j].product][j]
    <2>1. CASE j = id
      BY <1>2, <1>3, <1>5, <1>7, <2>1 DEF q, v
    <2>2. CASE j # id
      <3>1. /\ j \in Rows /\ cart'[j] = cart[j] /\ j \in Nat
            /\ cart[j].num \in Int /\ cart[j].product \in Product
        BY <1>2, <1>9, <2>2, RowType, IntRange DEF TypeInv, Line
      <3>2. cart[j].num <= b[cart[j].product][j]
        BY <1>1, <3>1 DEF Covers
      <3>3. /\ b[cart[j].product][j] <= c[cart[j].product][j]
            /\ b[cart[j].product][j] \in Int /\ c[cart[j].product][j] \in Int
        BY <1>6, <1>7, <3>1
      <3> QED
        BY <3>1, <3>2, <3>3
    <2> QED
      BY <2>1, <2>2
  <1>10. ASSUME NEW g \in Handler, pc'[g] = "save"
         PROVE  IF sc'[g].id = 0 THEN sc'[g].line.num >= 0
                ELSE sc'[g].line.num <= c[sc'[g].line.product][sc'[g].id]
    <2>1. g # h /\ sc'[g] = sc[g] /\ pc[g] = "save"
      BY <1>2, <1>10 DEF TypeInv, TypeOK
    <2>2. sc[g].line.num \in Int /\ sc[g].line.product \in Product /\ sc[g].id \in Nat
      BY <2>1, IntRange DEF TypeInv, TypeOK, Control, Line
    <2>3. IF sc[g].id = 0 THEN sc[g].line.num >= 0
          ELSE sc[g].line.num <= b[sc[g].line.product][sc[g].id]
      BY <1>1, <2>1 DEF Covers
    <2>4. /\ b[sc[g].line.product][sc[g].id] <= c[sc[g].line.product][sc[g].id]
          /\ b[sc[g].line.product][sc[g].id] \in Int
          /\ c[sc[g].line.product][sc[g].id] \in Int
      BY <1>6, <1>7, <2>2
    <2> QED
      BY <2>1, <2>2, <2>3, <2>4
  <1>11. Covers(c)'
    BY <1>8, <1>9, <1>10 DEF Covers
  <1> QED
    BY <1>6, <1>11 DEF Budget

LEMMA BudgetStep ==
    NonNegative /\ TypeInv /\ TypeInv' /\ Budget /\ [Next]_vars => Budget'
  <1> SUFFICES ASSUME NonNegative, TypeInv, TypeInv', Budget, [Next]_vars PROVE Budget'
    OBVIOUS
  <1>1. CASE UNCHANGED vars
    BY <1>1 DEF vars, Budget, Covers, Started, Rows
  <1>2. ASSUME NEW h \in Handler, NEW i \in Instance, NEW r \in Req, Arrive(h, i, r)
        PROVE  Budget'
    <2>1. r.op # "save" /\ pc' = [pc EXCEPT ![h] = r.op] /\ UNCHANGED <<cart, sc, asked>>
      BY <1>2, ReqTypes DEF Arrive, Op
    <2> QED
      BY <2>1, BudgetSame DEF TypeInv, TypeOK
  <1>3. ASSUME NEW h \in Handler, Handle(h), ~AddRead(h), ~AddSave(h) PROVE Budget'
    <2>1. UNCHANGED <<cart, sc, asked>>
      BY <1>3 DEF Handle, ShopCartItemList, AddSaveFails, DeleteShopCart,
                  UpdateShopCartItem, Die
    <2>2. \A g \in Handler : pc'[g] = "save" => pc[g] = "save"
      BY <1>3 DEF Handle, ShopCartItemList, AddSaveFails, DeleteShopCart,
                  UpdateShopCartItem, Die, Answer, TypeInv, TypeOK
    <2> QED
      BY <2>1, <2>2, BudgetSame
  <1>4. ASSUME NEW h \in Handler, Handle(h) PROVE Budget'
    BY <1>3, <1>4, BudgetRead, BudgetSave
  <1> QED
    BY <1>1, <1>2, <1>4 DEF Next, Terminating

LEMMA BudgetBounds == TypeInv /\ Budget => NeverInflated
  <1> SUFFICES ASSUME TypeInv, Budget, NEW p \in Product PROVE InCart(p) <= asked[p]
    BY DEF NeverInflated
  <1>1. PICK b \in [Product -> [Nat -> Nat]] : Covers(b)
    BY DEF Budget
  <1> DEFINE n == nextId - 1
  <1>2. n \in Nat
    BY DEF TypeInv, TypeOK
  <1>3. \A i \in 1 .. n : /\ b[p][i] \in Int /\ Held(p)[i] \in Int
                          /\ Held(p)[i] <= b[p][i]
    <2> SUFFICES ASSUME NEW i \in 1 .. n
                 PROVE  b[p][i] \in Nat /\ Held(p)[i] \in Int /\ Held(p)[i] <= b[p][i]
      OBVIOUS
    <2>1. b[p][i] \in Nat
      BY <1>2
    <2>2. CASE i \in Rows /\ cart[i].product = p
      <3>1. cart[i].num \in Int /\ cart[i].num <= b[p][i]
        BY <1>1, <2>2, RowType, IntRange DEF Covers, TypeInv, Line
      <3> QED
        BY <2>1, <2>2, <3>1 DEF Held
    <2>3. CASE ~(i \in Rows /\ cart[i].product = p)
      BY <2>1, <2>3 DEF Held
    <2> QED
      BY <2>2, <2>3
  <1> HIDE DEF n
  <1>4. Total(Held(p), n) <= Total(b[p], n) /\ Total(Held(p), n) \in Int
    <2> DEFINE f == b[p]
               g == Held(p)
    <2>1. \A i \in 1 .. n : f[i] \in Int /\ g[i] \in Int /\ g[i] <= f[i]
      BY <1>3
    <2> HIDE DEF f, g
    <2>2. Total(g, n) \in Int /\ Total(g, n) <= Total(f, n)
      BY <1>2, <2>1, TotalAtMost, TotalType
    <2> QED
      BY <2>2 DEF f, g
  <1>5. Total(b[p], n) + Total(Started(p), MaxHandlers) <= asked[p]
    BY <1>1, <1>2 DEF Covers
  <1>6. Total(Started(p), MaxHandlers) >= 0
    <2>1. \A h \in Handler : pc[h] = "save" /\ sc[h].id = 0 => sc[h].line.num >= 0
      BY <1>1 DEF Covers
    <2>2. \A h \in Handler : Started(p)[h] >= 0
      BY <2>1 DEF Started
    <2>3. \A i \in 1 .. MaxHandlers : Started(p)[i] \in Int /\ Started(p)[i] >= 0
      BY <2>2, StartedType DEF Handler
    <2> QED
      BY <2>3, TotalType, IdAssumption
  <1>7. /\ Total(b[p], n) \in Int /\ Total(Started(p), MaxHandlers) \in Int
        /\ asked[p] \in Int
    BY <1>2, BudgetType, StartedType DEF TypeInv, TypeOK
  <1> QED
    BY <1>4, <1>5, <1>6, <1>7 DEF InCart, n

\* No interleaving of handlers, and no Save that fails, makes the cart hold more
\* of a product than Adds asked for (shopcart.go:37-47, 101).
THEOREM CartNeverInflated ==
    ASSUME NonNegative
    PROVE  Spec => []NeverInflated
  <1>1. TypeInv /\ TypeInv' /\ Budget /\ [Next]_vars => Budget'
    BY BudgetStep
  <1>2. Spec => []Budget
    BY <1>1, BudgetInit, SpecTypeInv, PTL DEF Spec
  <1> QED
    BY <1>2, BudgetBounds, SpecTypeInv, PTL
=============================================================================
