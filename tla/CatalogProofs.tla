--------------------------- MODULE CatalogProofs ---------------------------
(***************************************************************************)
(* Proofs about Catalog, for any tables, requests and number of handlers:   *)
(* what the rows of one table say of those of another, and what a           *)
(* DeleteCategory leaves behind.  Each handler is put together from a few   *)
(* blocks (Insert, SaveAll, First, ...); each block has a lemma.            *)
(***************************************************************************)
EXTENDS Catalog, FiniteSetTheorems, TLAPS

AllLive == \A t \in Tables : \A i \in DOMAIN InitRows[t] : InitRows[t][i].live

\* A row is live, or it was deleted.
DeadAreDeleted ==
    AllLive => \A t \in Tables : \A i \in DOMAIN rows[t] :
                 rows[t][i].live \/ <<t, i>> \in deletes

RowsInv == rows \in [Tables -> Seq(Row)] /\ RefsExist /\ DeadAreDeleted

Gone(c) == <<"category", c>> \in deletes \cup failed

\* h has found the row: it is live still, or was deleted since.
Seen(h, t, id) == id \in Live(t) \/ <<t, id>> \in missed[h]

RefOps == {"CreateCategoryBrand", "UpdateCategoryBrand", "CreateProduct", "UpdateProduct"}
SaveOps == {"UpdateBrand", "UpdateAdvertise", "UpdateCategory"}

\* What a handler has found out by the label it is at.
HandlerInv(h) ==
    /\ req[h].op \in RefOps =>
         /\ pc[h] \in {"brand", "save"} => req[h].category \in DOMAIN rows["category"]
         /\ pc[h] = "save" => req[h].brand \in DOMAIN rows["brand"]
         /\ pc[h] \in {"brand", "save"} => Seen(h, "category", req[h].category)
         /\ pc[h] = "save" => Seen(h, "brand", req[h].brand)
    /\ req[h].op = "CategoryBrandList" =>
         /\ pc[h] \in {"preload", "convert"} => todo[h] \subseteq DOMAIN rows["pcb"]
         /\ pc[h] = "convert" => \E i \in todo[h] : <<"pcb", i>> \in failed
    /\ req[h].op \in SaveOps /\ pc[h] = "save" => copy[h].live
    /\ req[h].op = "DeleteCategory" =>
         /\ pc[h] \in {"subs", "delete"} => req[h].id \in DOMAIN rows["category"]
         /\ pc[h] = "delete" => /\ todo[h] \subseteq found[h]
                                /\ found[h] \subseteq DOMAIN rows["category"]
         /\ AllLive /\ pc[h] = "delete" => \A c \in found[h] \ todo[h] : Gone(c)
         /\ AllLive /\ pc[h] = "ok" => \A c \in found[h] \cup {req[h].id} : Gone(c)

LocalTypes ==
    /\ repaired \in BOOLEAN
    /\ pc \in [Handlers -> Labels]
    /\ req \in [Handlers -> Request]
    /\ copy \in [Handlers -> Row]
    /\ todo \in [Handlers -> SUBSET Nat] /\ found \in [Handlers -> SUBSET Nat]
    /\ down \in Operation
    /\ missed \in [Handlers -> SUBSET (Tables \X Nat)]
    /\ deletes \subseteq Tables \X Nat /\ failed \subseteq Tables \X Nat

Inv == RowsInv /\ LocalTypes /\ \A h \in Handlers : HandlerInv(h)

\* Every request on its way notices a row of t that goes.
Noticed(t) ==
    \A g \in Handlers : \A i \in Live(t) :
      Running(g) => i \in Live(t)' \/ <<t, i>> \in missed'[g]

\* No step takes a row, or the history of a delete, away.
Grows ==
    /\ \A t \in Tables : DOMAIN rows[t] \subseteq DOMAIN rows'[t] /\ Noticed(t)
    /\ deletes \subseteq deletes' /\ failed \subseteq failed'
    /\ \A g \in Handlers : missed[g] \subseteq missed'[g]

-----------------------------------------------------------------------------
(* Tables *)

LEMMA Appended ==
    ASSUME NEW s \in Seq(Row), NEW row \in Row
    PROVE  /\ Append(s, row) \in Seq(Row)
           /\ DOMAIN s \subseteq DOMAIN Append(s, row)
           /\ \A i \in DOMAIN Append(s, row) :
                \/ i \in DOMAIN s /\ Append(s, row)[i] = s[i]
                \/ Append(s, row)[i] = row
  OBVIOUS

LEMMA Replaced ==
    ASSUME NEW s \in Seq(Row), NEW row \in Row, NEW id
    PROVE  LET r == [s EXCEPT ![id] = row]
           IN  /\ r \in Seq(Row) /\ DOMAIN r = DOMAIN s
               /\ \A i \in DOMAIN s : r[i] = s[i] \/ (i = id /\ r[i] = row)
  <1> DEFINE r == [s EXCEPT ![id] = row]
  <1>0. s \in [1..Len(s) -> Row] /\ Len(s) \in Nat /\ DOMAIN s = 1..Len(s)
    OBVIOUS
  <1>1. r \in [1..Len(s) -> Row]
    BY <1>0, Zenon
  <1>2. r \in Seq(Row) /\ DOMAIN r = DOMAIN s
    BY <1>0, <1>1
  <1>3. \A i \in DOMAIN s : r[i] = s[i] \/ (i = id /\ r[i] = row)
    OBVIOUS
  <1> QED
    BY <1>2, <1>3

\* A table is replaced by one that has its rows, and more.
LEMMA TableStep ==
    ASSUME RowsInv, NEW t \in Tables, NEW s \in Seq(Row),
           rows' = [rows EXCEPT ![t] = s], DOMAIN rows[t] \subseteq DOMAIN s,
           t \in Refs => \A i \in DOMAIN s : /\ s[i].category \in DOMAIN rows["category"]
                                             /\ s[i].brand \in DOMAIN rows["brand"],
           AllLive => \A i \in DOMAIN s : s[i].live \/ <<t, i>> \in deletes',
           \A g \in Handlers : \A i \in Live(t) :
             Running(g) => s[i].live \/ <<t, i>> \in missed'[g],
           deletes \subseteq deletes', failed \subseteq failed',
           \A g \in Handlers : missed[g] \subseteq missed'[g]
    PROVE  RowsInv' /\ Grows
  <1>1. rows' \in [Tables -> Seq(Row)] /\ rows'[t] = s /\ \A u \in Tables \ {t} : rows'[u] = rows[u]
    BY DEF RowsInv
  <1>2. \A u \in Tables : DOMAIN rows[u] \subseteq DOMAIN rows'[u]
    BY <1>1
  <1>3. Grows
    <2>1. Noticed(t)
      BY <1>1 DEF Noticed, Live
    <2>2. \A u \in Tables \ {t} : Noticed(u)
      BY <1>1 DEF Noticed, Live
    <2> QED
      BY <1>2, <2>1, <2>2 DEF Grows
  <1>4. RefsExist'
    <2> SUFFICES ASSUME NEW u \in Refs, NEW i \in DOMAIN rows'[u]
                 PROVE  /\ rows'[u][i].category \in DOMAIN rows'["category"]
                        /\ rows'[u][i].brand \in DOMAIN rows'["brand"]
      BY DEF RefsExist
    <2>1. u \in Tables
      BY DEF Refs, Tables
    <2>2. CASE u = t
      BY <1>1, <1>2, <2>2 DEF Tables
    <2>3. CASE u # t
      BY <1>1, <1>2, <2>1, <2>3 DEF Tables, RowsInv, RefsExist
    <2> QED
      BY <2>2, <2>3
  <1>5. DeadAreDeleted'
    <2> SUFFICES ASSUME AllLive, NEW u \in Tables, NEW i \in DOMAIN rows'[u]
                 PROVE  rows'[u][i].live \/ <<u, i>> \in deletes'
      BY DEF DeadAreDeleted, AllLive
    <2>1. CASE u = t
      BY <1>1, <2>1
    <2>2. CASE u # t
      BY <1>1, <2>2 DEF RowsInv, DeadAreDeleted
    <2> QED
      BY <2>1, <2>2
  <1> QED
    BY <1>1, <1>3, <1>4, <1>5 DEF RowsInv

LEMMA TablesStay ==
    ASSUME RowsInv, UNCHANGED <<rows, removals>>, failed \subseteq failed'
    PROVE  RowsInv' /\ Grows
  BY DEF RowsInv, Grows, Noticed, Live, removals, RefsExist, DeadAreDeleted, AllLive

-----------------------------------------------------------------------------
(* Blocks *)

\* A handler that does nothing keeps what it knows, as tables only grow.
LEMMA HandlerStays ==
    ASSUME NEW g \in Handlers, HandlerInv(g), Grows, pc'[g] \in {pc[g], "dead"},
           req'[g] = req[g], copy'[g] = copy[g], todo'[g] = todo[g], found'[g] = found[g]
    PROVE  HandlerInv(g)'
  <1>1. /\ DOMAIN rows["category"] \subseteq DOMAIN rows'["category"]
        /\ DOMAIN rows["brand"] \subseteq DOMAIN rows'["brand"]
        /\ DOMAIN rows["pcb"] \subseteq DOMAIN rows'["pcb"]
        /\ deletes \subseteq deletes' /\ failed \subseteq failed'
    BY DEF Grows, Tables
  <1>2. ASSUME NEW t \in {"category", "brand"}, NEW id, Seen(g, t, id), Running(g)
        PROVE  Seen(g, t, id)'
    BY <1>2 DEF Grows, Noticed, Seen, Tables
  <1>3. pc'[g] \in {"brand", "save"} => Running(g)
    BY DEF Running
  <1>4. req[g].op \in RefOps =>
          /\ pc'[g] \in {"brand", "save"} => Seen(g, "category", req[g].category)'
          /\ pc'[g] = "save" => Seen(g, "brand", req[g].brand)'
    BY <1>2, <1>3 DEF HandlerInv
  <1> QED
    BY <1>1, <1>4 DEF HandlerInv, Gone, AllLive

\* The rows of a block that answers.
LEMMA Answered ==
    ASSUME Inv, NEW h \in Handlers, UNCHANGED <<repaired, req>>, RowsInv', Grows,
           deletes' \subseteq Tables \X Nat, failed' \subseteq Tables \X Nat,
           missed' \in [Handlers -> SUBSET (Tables \X Nat)],
           NEW l \in {"ok", "error"}, Answer(h, l),
           req[h].op = "DeleteCategory" => l = "error",
           UNCHANGED <<copy, todo, down, found>>
    PROVE  Inv'
  <1>1. pc' = [pc EXCEPT ![h] = l] /\ pc \in [Handlers -> Labels] /\ l \in Labels
    BY DEF Answer, Inv, LocalTypes, Labels
  <1>2. LocalTypes'
    BY <1>1 DEF Inv, LocalTypes
  <1>3. HandlerInv(h)'
    BY <1>1 DEF HandlerInv, RefOps, SaveOps
  <1>4. ASSUME NEW g \in Handlers \ {h} PROVE HandlerInv(g)'
    BY <1>1, HandlerStays DEF Inv
  <1> QED
    BY <1>2, <1>3, <1>4 DEF Inv

\* A handler that only reads and answers.
LEMMA ReadAnswer ==
    ASSUME Inv, NEW h \in Handlers, UNCHANGED <<repaired, req>>,
           NEW l \in {"ok", "error"}, Answer(h, l), ReadOnly, UNCHANGED locals,
           req[h].op = "DeleteCategory" => l = "error"
    PROVE  Inv'
  <1>1. RowsInv' /\ Grows
    BY TablesStay DEF Inv, ReadOnly, history, removals
  <1> QED
    BY <1>1, Answered DEF Inv, LocalTypes, ReadOnly, history, locals

LEMMA PanicStep ==
    ASSUME Inv, NEW h \in Handlers, UNCHANGED <<repaired, req>>, Panic(h)
    PROVE  Inv'
  <1>1. RowsInv' /\ Grows
    BY TablesStay DEF Inv, Panic, history, removals
  <1>2. LocalTypes'
    BY DEF Inv, LocalTypes, Panic, history, Labels, Request
  <1>3. ASSUME NEW g \in Handlers PROVE HandlerInv(g)'
    BY <1>1, HandlerStays DEF Inv, Panic, history
  <1> QED
    BY <1>1, <1>2, <1>3 DEF Inv

LEMMA InsertStep ==
    ASSUME Inv, NEW h \in Handlers, UNCHANGED <<repaired, req>>,
           NEW t \in Tables, NEW row \in Row, row.live, Insert(h, t, row),
           req[h].op # "DeleteCategory",
           t \in Refs => /\ row.category \in DOMAIN rows["category"]
                         /\ row.brand \in DOMAIN rows["brand"]
    PROVE  Inv'
  <1>1. UNCHANGED <<deletes, missed, failed>>
    BY DEF Insert, history
  <1>2. CASE rows' = [rows EXCEPT ![t] = Append(@, row)]
    <2> DEFINE s == Append(rows[t], row)
    <2>1. rows[t] \in Seq(Row)
      BY DEF Inv, RowsInv
    <2>2. /\ s \in Seq(Row) /\ DOMAIN rows[t] \subseteq DOMAIN s
          /\ \A i \in DOMAIN s : \/ i \in DOMAIN rows[t] /\ s[i] = rows[t][i]
                                 \/ s[i] = row
      BY <2>1, Appended
    <2>3. rows' = [rows EXCEPT ![t] = s]
      BY <1>2
    <2> HIDE DEF s
    <2>4. t \in Refs => \A i \in DOMAIN s : /\ s[i].category \in DOMAIN rows["category"]
                                            /\ s[i].brand \in DOMAIN rows["brand"]
      BY <2>2 DEF Inv, RowsInv, RefsExist
    <2>5. AllLive => \A i \in DOMAIN s : s[i].live \/ <<t, i>> \in deletes'
      BY <1>1, <2>2 DEF Inv, RowsInv, DeadAreDeleted
    <2>6. \A i \in Live(t) : s[i].live
      BY <2>2 DEF Live
    <2>7. RowsInv' /\ Grows
      BY <1>1, <2>2, <2>3, <2>4, <2>5, <2>6, TableStep DEF Inv
    <2> QED
      BY <1>1, <2>7, Answered DEF Insert, history, Inv, LocalTypes
  <1>3. CASE UNCHANGED rows
    BY <1>1, <1>3, TablesStay, Answered DEF Insert, history, removals, Inv, LocalTypes
  <1> QED
    BY <1>2, <1>3 DEF Insert

LEMMA SaveStep ==
    ASSUME Inv, NEW h \in Handlers, UNCHANGED <<repaired, req>>,
           NEW t \in Tables \ Refs, NEW id, NEW row \in Row, row.live,
           SaveAll(h, t, id, row), req[h].op # "DeleteCategory"
    PROVE  Inv'
  <1>1. UNCHANGED <<deletes, missed, failed>>
    BY DEF SaveAll, history
  <1>2. CASE rows' = [rows EXCEPT ![t][id] = row]
    <2> DEFINE s == [rows[t] EXCEPT ![id] = row]
    <2>1. rows[t] \in Seq(Row)
      BY DEF Inv, RowsInv
    <2>2. /\ s \in Seq(Row) /\ DOMAIN s = DOMAIN rows[t]
          /\ \A i \in DOMAIN s : s[i] = rows[t][i] \/ s[i] = row
      BY <2>1, Replaced
    <2>3. rows' = [rows EXCEPT ![t] = s]
      BY <1>2
    <2> HIDE DEF s
    <2>4. AllLive => \A i \in DOMAIN s : s[i].live \/ <<t, i>> \in deletes'
      BY <1>1, <2>2 DEF Inv, RowsInv, DeadAreDeleted
    <2>5. \A i \in Live(t) : s[i].live
      BY <2>2 DEF Live
    <2>6. RowsInv' /\ Grows
      BY <1>1, <2>2, <2>3, <2>4, <2>5, TableStep DEF Inv
    <2> QED
      BY <1>1, <2>6, Answered DEF SaveAll, history, Inv, LocalTypes
  <1>3. CASE UNCHANGED rows
    BY <1>1, <1>3, TablesStay, Answered DEF SaveAll, history, removals, Inv, LocalTypes
  <1> QED
    BY <1>2, <1>3 DEF SaveAll

\* After a DELETE the row is in the history, now or from before.
LEMMA SoftDeleteStep ==
    ASSUME Inv, NEW t \in Tables, NEW id \in Nat, SoftDelete(t, id), failed \subseteq failed'
    PROVE  /\ RowsInv' /\ Grows /\ deletes' \subseteq Tables \X Nat
           /\ missed' \in [Handlers -> SUBSET (Tables \X Nat)]
           /\ AllLive /\ id \in DOMAIN rows[t] => <<t, id>> \in deletes'
  <1>0. /\ missed' \in [Handlers -> SUBSET (Tables \X Nat)]
        /\ \A g \in Handlers : /\ missed[g] \subseteq missed'[g]
                               /\ Running(g) /\ id \in Live(t) => <<t, id>> \in missed'[g]
    BY DEF SoftDelete, Inv, LocalTypes
  <1>1. CASE id \in Live(t)
    <2> DEFINE row == [rows[t][id] EXCEPT !.live = FALSE]
    <2> DEFINE s == [rows[t] EXCEPT ![id] = row]
    <2>1. rows[t] \in Seq(Row) /\ id \in DOMAIN rows[t] /\ rows[t][id] \in Row
      BY <1>1 DEF Inv, RowsInv, Live
    <2>2. /\ row \in Row /\ row.category = rows[t][id].category
          /\ row.brand = rows[t][id].brand
      BY <2>1 DEF Row
    <2>3. /\ s \in Seq(Row) /\ DOMAIN s = DOMAIN rows[t]
          /\ \A i \in DOMAIN s : s[i] = rows[t][i] \/ (i = id /\ s[i] = row)
      <3> HIDE DEF row
      <3> QED
        BY <2>1, <2>2, Replaced
    <2>4. rows' = [rows EXCEPT ![t] = s] /\ deletes' = deletes \cup {<<t, id>>}
      BY <1>1 DEF SoftDelete
    <2> HIDE DEF s, row
    <2>5. t \in Refs => \A i \in DOMAIN s : /\ s[i].category \in DOMAIN rows["category"]
                                            /\ s[i].brand \in DOMAIN rows["brand"]
      BY <2>1, <2>2, <2>3 DEF Inv, RowsInv, RefsExist
    <2>6. AllLive => \A i \in DOMAIN s : s[i].live \/ <<t, i>> \in deletes'
      BY <2>3, <2>4 DEF Inv, RowsInv, DeadAreDeleted
    <2>7. \A g \in Handlers : \A i \in Live(t) :
            Running(g) => s[i].live \/ <<t, i>> \in missed'[g]
      BY <1>0, <1>1, <2>3 DEF Live
    <2>8. RowsInv' /\ Grows
      BY <1>0, <2>3, <2>4, <2>5, <2>6, <2>7, TableStep DEF Inv
    <2> QED
      BY <1>0, <2>4, <2>8 DEF Inv, LocalTypes
  <1>2. CASE id \notin Live(t)
    <2>1. UNCHANGED <<rows, removals>>
      <3>1. missed' = missed
        BY <1>2 DEF SoftDelete, Inv, LocalTypes
      <3> QED
        BY <1>2, <3>1 DEF SoftDelete, removals
    <2>2. RowsInv' /\ Grows
      BY <2>1, TablesStay DEF Inv
    <2>3. AllLive /\ id \in DOMAIN rows[t] => <<t, id>> \in deletes'
      BY <1>2, <2>1 DEF Inv, RowsInv, DeadAreDeleted, Live, removals
    <2> QED
      BY <1>0, <2>1, <2>2, <2>3 DEF Inv, LocalTypes, removals
  <1> QED
    BY <1>1, <1>2

LEMMA DeleteByIdStep ==
    ASSUME Inv, NEW h \in Handlers, UNCHANGED <<repaired, req>>,
           NEW t \in Tables, DeleteById(h, t), req[h].op # "DeleteCategory"
    PROVE  Inv'
  <1>1. req[h].id \in Nat
    BY DEF Inv, LocalTypes, Request
  <1>2. CASE SoftDelete(t, req[h].id) /\ Answer(h, "ok")
    BY <1>1, <1>2, SoftDeleteStep, Answered DEF DeleteById, Inv, LocalTypes
  <1>3. CASE Answer(h, "error") /\ UNCHANGED <<rows, removals>>
    BY <1>3, TablesStay, Answered DEF DeleteById, removals, Inv, LocalTypes
  <1> QED
    BY <1>2, <1>3 DEF DeleteById

\* A lookup that finds its row, which is then one of the table.
LEMMA FirstStep ==
    ASSUME Inv, NEW h \in Handlers, UNCHANGED <<repaired, req>>,
           NEW t \in Tables, NEW id,
           NEW next \in {"category", "brand", "subs", "find", "save"},
           First(h, t, id, next),
           req[h].op \in RefOps =>
             /\ next = "brand" => t = "category" /\ id = req[h].category
             /\ next = "save" => t = "brand" /\ id = req[h].brand /\ pc[h] = "brand",
           req[h].op = "DeleteCategory" => next = "subs" /\ t = "category" /\ id = req[h].id
    PROVE  Inv'
  <1>1. CASE Answer(h, "error") /\ ReadOnly /\ UNCHANGED locals
    BY <1>1, ReadAnswer
  <1>2. CASE /\ id \in Live(t)
             /\ copy' = [copy EXCEPT ![h] = rows[t][id]]
             /\ pc' = [pc EXCEPT ![h] = next]
             /\ ReadOnly /\ UNCHANGED todo
    <2>1. RowsInv' /\ Grows
      BY <1>2, TablesStay DEF Inv, ReadOnly, history, removals
    <2>2. id \in DOMAIN rows[t] /\ rows[t][id] \in Row /\ rows[t][id].live
      BY <1>2 DEF Inv, RowsInv, Live
    <2>3. /\ next \in Labels /\ copy \in [Handlers -> Row] /\ pc \in [Handlers -> Labels]
      BY DEF Inv, LocalTypes, Labels
    <2>4. LocalTypes'
      BY <1>2, <2>2, <2>3 DEF Inv, LocalTypes, ReadOnly, history
    <2>5. pc'[h] = next /\ copy'[h] = rows[t][id] /\ UNCHANGED <<rows, todo, found, missed>>
      BY <1>2, <2>3 DEF ReadOnly, history
    <2>6. HandlerInv(h)'
      <3>1. req[h].op \in RefOps =>
              /\ next \in {"brand", "save"} => Seen(h, "category", req[h].category)'
              /\ next = "save" => Seen(h, "brand", req[h].brand)'
        BY <1>2, <2>5 DEF Inv, HandlerInv, Seen, Live
      <3>2. next # "preload" /\ next # "convert"
        OBVIOUS
      <3> QED
        BY <2>2, <2>5, <3>1, <3>2 DEF Inv, HandlerInv, RefOps, SaveOps
    <2>7. ASSUME NEW g \in Handlers \ {h} PROVE HandlerInv(g)'
      BY <1>2, <2>1, <2>3, <2>5, HandlerStays DEF Inv
    <2> QED
      BY <2>1, <2>4, <2>6, <2>7 DEF Inv
  <1> QED
    BY <1>1, <1>2 DEF First

-----------------------------------------------------------------------------
(* Handlers *)

LEMMA RowTypes ==
    ASSUME Inv, NEW h \in Handlers
    PROVE  /\ req[h] \in Request /\ copy[h] \in Row
           /\ Blank(h) \in Row /\ Blank(h).live
           /\ Reference(h) \in Row /\ Reference(h).live
           /\ Reference(h).category = req[h].category /\ Reference(h).brand = req[h].brand
           /\ Renamed(h, copy[h]) \in Row /\ Renamed(h, copy[h]).live = copy[h].live
  <1>1. req[h] \in Request /\ copy[h] \in Row
    BY DEF Inv, LocalTypes
  <1>2. Blank(h) \in Row /\ Blank(h).live
    BY <1>1 DEF Blank, Row, Request
  <1>3. /\ Reference(h) \in Row /\ Reference(h).live
        /\ Reference(h).category = req[h].category /\ Reference(h).brand = req[h].brand
    <2>1. req[h].category \in Nat /\ req[h].brand \in Nat
      BY <1>1 DEF Request
    <2> DEFINE b == Blank(h)
    <2>2. Reference(h) = [b EXCEPT !.category = req[h].category, !.brand = req[h].brand]
      BY DEF Reference
    <2>3. b \in Row /\ b.live
      BY <1>2
    <2> HIDE DEF b
    <2> QED
      BY <2>1, <2>2, <2>3 DEF Row
  <1>4. Renamed(h, copy[h]) \in Row /\ Renamed(h, copy[h]).live = copy[h].live
    BY <1>1 DEF Renamed, Row, Request
  <1> QED
    BY <1>1, <1>2, <1>3, <1>4

LEMMA BrandsStep ==
    ASSUME Inv, NEW h \in Handlers, Brands(h), UNCHANGED <<repaired, req>> PROVE Inv'
  <1> USE DEF Op
  <1>0. "brand" \in Tables \ Refs
    BY DEF Tables, Refs
  <1>1. CASE BrandList(h)
    BY <1>1, ReadAnswer DEF BrandList
  <1>2. CASE CreateBrand(h)
    <2>1. CASE pc[h] = "save" /\ Insert(h, "brand", Blank(h))
      BY <1>0, <1>2, <2>1, RowTypes, InsertStep DEF CreateBrand
    <2>2. CASE Answer(h, "error") /\ ReadOnly /\ UNCHANGED locals
      BY <2>2, ReadAnswer
    <2>3. CASE Answer(h, "save") /\ ReadOnly /\ UNCHANGED locals
      <3>1. RowsInv' /\ Grows
        BY <2>3, TablesStay DEF Inv, ReadOnly, history, removals
      <3>2. LocalTypes' /\ pc' = [pc EXCEPT ![h] = "save"] /\ UNCHANGED <<copy, todo, found>>
        BY <2>3 DEF Inv, LocalTypes, Answer, ReadOnly, history, locals, Labels
      <3>3. HandlerInv(h)'
        BY <1>2, <3>2 DEF CreateBrand, HandlerInv, RefOps, SaveOps
      <3>4. ASSUME NEW g \in Handlers \ {h} PROVE HandlerInv(g)'
        BY <3>1, <3>2, HandlerStays DEF Inv, LocalTypes
      <3> QED
        BY <3>1, <3>2, <3>3, <3>4 DEF Inv
    <2> QED
      BY <1>2, <2>1, <2>2, <2>3 DEF CreateBrand
  <1>3. CASE DeleteBrand(h)
    BY <1>0, <1>3, DeleteByIdStep DEF DeleteBrand
  <1>4. CASE UpdateBrand(h)
    <2>1. CASE First(h, "brand", req[h].id, "save")
      BY <1>0, <1>4, <2>1, FirstStep DEF UpdateBrand, RefOps
    <2>2. CASE Answer(h, "error") /\ ReadOnly /\ UNCHANGED locals
      BY <2>2, ReadAnswer
    <2>3. CASE pc[h] = "save" /\ SaveAll(h, "brand", req[h].id, Renamed(h, copy[h]))
      <3>1. copy[h].live
        BY <1>4, <2>3 DEF UpdateBrand, Inv, HandlerInv, SaveOps
      <3> QED
        BY <1>0, <1>4, <2>3, <3>1, RowTypes, SaveStep DEF UpdateBrand
    <2> QED
      BY <1>4, <2>1, <2>2, <2>3 DEF UpdateBrand
  <1> QED
    BY <1>1, <1>2, <1>3, <1>4 DEF Brands

LEMMA AdvertisementsStep ==
    ASSUME Inv, NEW h \in Handlers, Advertisements(h), UNCHANGED <<repaired, req>> PROVE Inv'
  <1> USE DEF Op
  <1>0. "advertise" \in Tables \ Refs
    BY DEF Tables, Refs
  <1>1. CASE AdvertiseLIst(h)
    BY <1>1, ReadAnswer DEF AdvertiseLIst
  <1>2. CASE CreateAdvertise(h)
    BY <1>0, <1>2, RowTypes, InsertStep, PanicStep DEF CreateAdvertise
  <1>3. CASE DeleteAdvertise(h)
    BY <1>0, <1>3, DeleteByIdStep DEF DeleteAdvertise
  <1>4. CASE UpdateAdvertise(h)
    <2>1. CASE First(h, "advertise", req[h].id, "save")
      BY <1>0, <1>4, <2>1, FirstStep DEF UpdateAdvertise, RefOps
    <2>2. CASE Answer(h, "error") /\ ReadOnly /\ UNCHANGED locals
      BY <2>2, ReadAnswer
    <2>3. CASE pc[h] = "save" /\ SaveAll(h, "advertise", req[h].id, Renamed(h, copy[h]))
      <3>1. copy[h].live
        BY <1>4, <2>3 DEF UpdateAdvertise, Inv, HandlerInv, SaveOps
      <3> QED
        BY <1>0, <1>4, <2>3, <3>1, RowTypes, SaveStep DEF UpdateAdvertise
    <2> QED
      BY <1>4, <2>1, <2>2, <2>3 DEF UpdateAdvertise
  <1> QED
    BY <1>1, <1>2, <1>3, <1>4 DEF Advertisements

\* The category goes, and every listed subcategory is gone, or its DELETE failed.
LEMMA DeleteCategoryStep ==
    ASSUME Inv, NEW h \in Handlers, DeleteCategory(h), UNCHANGED <<repaired, req>> PROVE Inv'
  <1>0. /\ req[h].op = "DeleteCategory" /\ req[h].id \in Nat
        /\ pc \in [Handlers -> Labels] /\ "category" \in Tables
    BY DEF DeleteCategory, Op, Inv, LocalTypes, Request, Tables
  <1>1. CASE First(h, "category", req[h].id, "subs")
    BY <1>0, <1>1, FirstStep DEF RefOps
  <1>2. CASE /\ pc[h] = "subs"
             /\ found' = [found EXCEPT ![h] = IF copy[h].level = 3 THEN {}
                                              ELSE SubCategories(req[h].id)]
             /\ todo' = [todo EXCEPT ![h] = found'[h]]
             /\ Answer(h, "delete")
             /\ UNCHANGED <<rows, copy, down, removals, failed>>
    <2>1. RowsInv' /\ Grows
      BY <1>2, TablesStay DEF Inv
    <2>2. pc' = [pc EXCEPT ![h] = "delete"]
      BY <1>2 DEF Answer
    <2>3. /\ SubCategories(req[h].id) \subseteq DOMAIN rows["category"]
          /\ DOMAIN rows["category"] \subseteq Nat
      BY <1>0 DEF SubCategories, Live, Inv, RowsInv
    <2>4. /\ found \in [Handlers -> SUBSET Nat] /\ todo \in [Handlers -> SUBSET Nat]
      BY DEF Inv, LocalTypes
    <2>5. PICK S \in SUBSET DOMAIN rows["category"] :
            found' = [found EXCEPT ![h] = S] /\ todo' = [todo EXCEPT ![h] = S]
      BY <1>2, <2>3, <2>4
    <2>6. LocalTypes'
      BY <1>0, <1>2, <2>2, <2>3, <2>4, <2>5 DEF Inv, LocalTypes, Labels, removals
    <2>7. HandlerInv(h)'
      BY <1>0, <1>2, <2>2, <2>4, <2>5 DEF Inv, HandlerInv, RefOps, SaveOps
    <2>8. ASSUME NEW g \in Handlers \ {h} PROVE HandlerInv(g)'
      BY <1>0, <1>2, <2>1, <2>2, <2>4, <2>5, HandlerStays DEF Inv
    <2> QED
      BY <2>1, <2>6, <2>7, <2>8 DEF Inv
  <1>3. CASE Answer(h, "error") /\ UNCHANGED <<rows, copy, todo, found, down, removals, failed>>
    BY <1>3, ReadAnswer DEF ReadOnly, history, removals, locals
  <1>4. CASE pc[h] = "delete" /\ DeleteSub(h) /\ UNCHANGED <<pc, copy, down, found>>
    <2>1. PICK c \in todo[h] :
            /\ todo' = [todo EXCEPT ![h] = @ \ {c}]
            /\ \/ SoftDelete("category", c) /\ UNCHANGED failed
               \/ failed' = failed \cup {<<"category", c>>} /\ UNCHANGED <<rows, removals>>
      BY <1>4 DEF DeleteSub
    <2>2. /\ c \in DOMAIN rows["category"] /\ c \in Nat
          /\ todo \in [Handlers -> SUBSET Nat]
      BY <1>0, <1>4 DEF Inv, HandlerInv, LocalTypes
    <2>3. /\ RowsInv' /\ Grows /\ deletes' \subseteq Tables \X Nat /\ failed' \subseteq Tables \X Nat
          /\ missed' \in [Handlers -> SUBSET (Tables \X Nat)]
          /\ AllLive => Gone(c)'
      <3>1. CASE SoftDelete("category", c) /\ UNCHANGED failed
        BY <1>0, <2>2, <3>1, SoftDeleteStep DEF Inv, LocalTypes, Gone
      <3>2. CASE failed' = failed \cup {<<"category", c>>} /\ UNCHANGED <<rows, removals>>
        BY <1>0, <2>2, <3>2, TablesStay DEF Inv, LocalTypes, Gone, removals
      <3> QED
        BY <2>1, <3>1, <3>2
    <2>4. LocalTypes'
      BY <1>4, <2>1, <2>2, <2>3 DEF Inv, LocalTypes
    <2>5. HandlerInv(h)'
      <3>1. todo'[h] = todo[h] \ {c} /\ todo[h] \subseteq found[h]
            /\ found[h] \subseteq DOMAIN rows["category"]
        BY <1>0, <1>4, <2>1, <2>2 DEF Inv, HandlerInv
      <3>2. AllLive => \A d \in found[h] \ todo'[h] : Gone(d)'
        BY <1>0, <1>4, <2>3, <3>1 DEF Inv, HandlerInv, Gone, Grows
      <3> QED
        BY <1>0, <1>4, <2>3, <3>1, <3>2 DEF Inv, HandlerInv, RefOps, SaveOps, Grows, AllLive
    <2>6. ASSUME NEW g \in Handlers \ {h} PROVE HandlerInv(g)'
      BY <1>4, <2>1, <2>2, <2>3, HandlerStays DEF Inv
    <2> QED
      BY <2>3, <2>4, <2>5, <2>6 DEF Inv
  <1>5. CASE pc[h] = "delete" /\ todo[h] = {} /\ DeleteById(h, "category")
    <2>1. CASE SoftDelete("category", req[h].id) /\ Answer(h, "ok")
      <3>1. /\ RowsInv' /\ Grows /\ deletes' \subseteq Tables \X Nat
            /\ missed' \in [Handlers -> SUBSET (Tables \X Nat)]
            /\ AllLive => Gone(req[h].id)'
        BY <1>0, <1>5, <2>1, SoftDeleteStep DEF DeleteById, Inv, HandlerInv, Gone
      <3>2. pc' = [pc EXCEPT ![h] = "ok"] /\ UNCHANGED <<copy, todo, down, failed, found>>
        BY <1>5, <2>1 DEF DeleteById, Answer
      <3>3. LocalTypes'
        BY <1>0, <3>1, <3>2 DEF Inv, LocalTypes, Labels
      <3>4. AllLive => \A d \in found[h] : Gone(d)'
        BY <1>0, <1>5, <3>1, <3>2 DEF Inv, HandlerInv, Gone, Grows
      <3>5. HandlerInv(h)'
        BY <1>0, <3>1, <3>2, <3>4 DEF HandlerInv, RefOps, SaveOps, AllLive
      <3>6. ASSUME NEW g \in Handlers \ {h} PROVE HandlerInv(g)'
        BY <1>0, <3>1, <3>2, HandlerStays DEF Inv
      <3> QED
        BY <3>1, <3>3, <3>5, <3>6 DEF Inv
    <2>2. CASE Answer(h, "error") /\ UNCHANGED <<rows, removals>>
      BY <1>5, <2>2, ReadAnswer DEF DeleteById, ReadOnly, history, removals, locals
    <2> QED
      BY <1>5, <2>1, <2>2 DEF DeleteById
  <1> QED
    BY <1>1, <1>2, <1>3, <1>4, <1>5 DEF DeleteCategory

LEMMA CategoriesStep ==
    ASSUME Inv, NEW h \in Handlers, Categories(h), UNCHANGED <<repaired, req>> PROVE Inv'
  <1> USE DEF Op
  <1>0. "category" \in Tables \ Refs /\ req[h] \in Request /\ copy[h] \in Row
    BY RowTypes DEF Tables, Refs
  <1>1. CASE GetAllCategoryList(h)
    BY <1>1, ReadAnswer, PanicStep DEF GetAllCategoryList
  <1>2. CASE GetSubCategory(h)
    BY <1>2, ReadAnswer DEF GetSubCategory
  <1>3. CASE CreateCategory(h)
    <2> DEFINE row == [Blank(h) EXCEPT !.level = req[h].level,
                         !.parent = IF req[h].level > 1 THEN req[h].parent ELSE 0]
    <2>1. row \in Row /\ row.live
      BY <1>0 DEF Blank, Row, Request
    <2> HIDE DEF row
    <2>2. CASE Insert(h, "category", row)
      BY <1>0, <1>3, <2>1, <2>2, InsertStep DEF CreateCategory
    <2>3. CASE Panic(h)
      BY <2>3, PanicStep
    <2> QED
      BY <1>3, <2>2, <2>3 DEF CreateCategory, row
  <1>4. CASE UpdateCategory(h)
    <2>1. CASE First(h, "category", req[h].id, "save")
      BY <1>0, <1>4, <2>1, FirstStep DEF UpdateCategory, RefOps
    <2>2. CASE pc[h] = "save"
      <3>1. copy[h].live
        BY <1>4, <2>2 DEF UpdateCategory, Inv, HandlerInv, SaveOps
      <3>2. PICK row : /\ SaveAll(h, "category", req[h].id, row)
                       /\ \/ row = Renamed(h, copy[h])
                          \/ row = [copy[h] EXCEPT !.level = req[h].level]
                          \/ row = [copy[h] EXCEPT !.parent =
                                      IF req[h].parent > 0 THEN req[h].parent ELSE @]
        BY <1>4, <2>2 DEF UpdateCategory
      <3>3. row \in Row /\ row.live
        BY <1>0, <3>1, <3>2, RowTypes DEF Row, Request
      <3> QED
        BY <1>0, <1>4, <3>2, <3>3, SaveStep DEF UpdateCategory
    <2> QED
      BY <1>4, <2>1, <2>2 DEF UpdateCategory
  <1> QED
    BY <1>1, <1>2, <1>3, <1>4, DeleteCategoryStep DEF Categories

LEMMA ListStep ==
    ASSUME Inv, NEW h \in Handlers, NEW t, NEW listed, ListReferences(h, t, listed),
           req[h].op # "DeleteCategory", UNCHANGED <<repaired, req>>
    PROVE  Inv'
  BY ReadAnswer, PanicStep DEF ListReferences

\* The pairs are read, then their associations, then all is converted.
LEMMA CategoryBrandListStep ==
    ASSUME Inv, NEW h \in Handlers, CategoryBrandList(h), UNCHANGED <<repaired, req>> PROVE Inv'
  <1> DEFINE listed == Listed("pcb", req[h].page, req[h].size)
  <1>0. /\ req[h].op = "CategoryBrandList" /\ "pcb" \in Tables /\ "brand" \in Tables
        /\ pc \in [Handlers -> Labels] /\ todo \in [Handlers -> SUBSET Nat]
        /\ DOMAIN rows["pcb"] \subseteq Nat
    BY DEF CategoryBrandList, Op, Inv, LocalTypes, RowsInv, Tables
  <1>1. CASE Panic(h) \/ ListReferences(h, "pcb", todo[h])
    BY <1>0, <1>1, PanicStep, ListStep
  <1>2. CASE Answer(h, "ok") /\ ReadOnly /\ UNCHANGED locals
    BY <1>0, <1>2, ReadAnswer
  <1>3. CASE /\ todo' = [todo EXCEPT ![h] = listed]
             /\ Answer(h, "preload")
             /\ ReadOnly /\ UNCHANGED copy
    <2>1. listed \subseteq DOMAIN rows["pcb"]
      BY DEF Listed, Live
    <2> HIDE DEF listed
    <2>2. RowsInv' /\ Grows
      BY <1>3, TablesStay DEF Inv, ReadOnly, history, removals
    <2>3. pc' = [pc EXCEPT ![h] = "preload"]
      BY <1>3 DEF Answer
    <2>4. LocalTypes'
      BY <1>0, <1>3, <2>1, <2>3 DEF Inv, LocalTypes, ReadOnly, history, Labels
    <2>5. HandlerInv(h)'
      BY <1>0, <1>3, <2>1, <2>3 DEF HandlerInv, RefOps, SaveOps, ReadOnly
    <2>6. ASSUME NEW g \in Handlers \ {h} PROVE HandlerInv(g)'
      BY <1>0, <1>3, <2>2, <2>3, HandlerStays DEF Inv, ReadOnly, history
    <2> QED
      BY <2>2, <2>4, <2>5, <2>6 DEF Inv
  <1>4. CASE /\ pc[h] = "preload" /\ todo[h] # {}
             /\ failed' = failed \cup ({"pcb"} \X todo[h])
             /\ Answer(h, "convert")
             /\ UNCHANGED <<rows, copy, todo, down, removals, found>>
    <2>1. RowsInv' /\ Grows
      BY <1>4, TablesStay DEF Inv
    <2>2. pc' = [pc EXCEPT ![h] = "convert"]
      BY <1>4 DEF Answer
    <2>3. failed' \subseteq Tables \X Nat
      BY <1>0, <1>4 DEF Inv, LocalTypes
    <2>4. LocalTypes'
      BY <1>0, <1>4, <2>2, <2>3 DEF Inv, LocalTypes, removals, Labels
    <2>5. todo[h] \subseteq DOMAIN rows["pcb"] /\ \E i \in todo[h] : <<"pcb", i>> \in failed'
      BY <1>0, <1>4 DEF Inv, HandlerInv
    <2>6. HandlerInv(h)'
      BY <1>0, <1>4, <2>2, <2>5 DEF HandlerInv, RefOps, SaveOps
    <2>7. ASSUME NEW g \in Handlers \ {h} PROVE HandlerInv(g)'
      BY <1>0, <1>4, <2>1, <2>2, HandlerStays DEF Inv
    <2> QED
      BY <2>1, <2>4, <2>6, <2>7 DEF Inv
  <1> QED
    BY <1>1, <1>2, <1>3, <1>4 DEF CategoryBrandList

LEMMA ReferenceStep ==
    ASSUME Inv, NEW h \in Handlers, NEW t \in Refs, Insert(h, t, Reference(h)),
           req[h].op \in RefOps, pc[h] = "save", UNCHANGED <<repaired, req>>
    PROVE  Inv'
  <1>1. req[h].category \in DOMAIN rows["category"] /\ req[h].brand \in DOMAIN rows["brand"]
    BY DEF Inv, HandlerInv
  <1> QED
    BY <1>1, RowTypes, InsertStep DEF Tables, Refs, RefOps

LEMMA CategoryBrandsStep ==
    ASSUME Inv, NEW h \in Handlers, CategoryBrands(h), UNCHANGED <<repaired, req>> PROVE Inv'
  <1> USE DEF Op
  <1>0. "category" \in Tables /\ "brand" \in Tables /\ "pcb" \in Tables /\ "pcb" \in Refs
    BY DEF Tables, Refs
  <1>1. CASE CategoryBrandList(h)
    BY <1>1, CategoryBrandListStep
  <1>2. CASE GetCategoryBrandList(h)
    <2>1. CASE First(h, "category", req[h].id, "find")
      BY <1>0, <1>2, <2>1, FirstStep DEF GetCategoryBrandList, RefOps
    <2> QED
      BY <1>2, <2>1, ReadAnswer, PanicStep DEF GetCategoryBrandList
  <1>3. CASE CreateCategoryBrand(h) \/ UpdateCategoryBrand(h)
    <2>0. req[h].op \in RefOps /\ req[h].op # "DeleteCategory"
      BY <1>3 DEF CreateCategoryBrand, UpdateCategoryBrand, RefOps
    <2>1. CASE First(h, "category", req[h].category, "brand")
      BY <1>0, <2>0, <2>1, FirstStep
    <2>2. CASE pc[h] = "brand" /\ First(h, "brand", req[h].brand, "save")
      BY <1>0, <2>0, <2>2, FirstStep
    <2>3. CASE pc[h] = "save" /\ Insert(h, "pcb", Reference(h))
      BY <1>0, <2>0, <2>3, ReferenceStep
    <2>4. CASE Panic(h)
      BY <2>4, PanicStep
    <2>5. CASE Answer(h, "error") /\ ReadOnly /\ UNCHANGED locals
      BY <2>5, ReadAnswer
    <2> QED
      BY <1>3, <2>1, <2>2, <2>3, <2>4, <2>5 DEF CreateCategoryBrand, UpdateCategoryBrand
  <1>4. CASE DeleteCategoryBrand(h)
    BY <1>0, <1>4, DeleteByIdStep DEF DeleteCategoryBrand
  <1> QED
    BY <1>1, <1>2, <1>3, <1>4 DEF CategoryBrands

LEMMA ProductsStep ==
    ASSUME Inv, NEW h \in Handlers, Products(h), UNCHANGED <<repaired, req>> PROVE Inv'
  <1> USE DEF Op
  <1>0. /\ "category" \in Tables /\ "brand" \in Tables
        /\ "product" \in Tables /\ "product" \in Refs
    BY DEF Tables, Refs
  <1>1. CASE ProductList(h)
    <2>1. CASE First(h, "category", req[h].category, "find")
      BY <1>0, <1>1, <2>1, FirstStep DEF ProductList, RefOps
    <2>2. CASE ListReferences(h, "product", Listed("product", req[h].page, req[h].size))
      BY <1>1, <2>2, ListStep DEF ProductList
    <2> QED
      BY <1>1, <2>1, <2>2, ReadAnswer, PanicStep DEF ProductList
  <1>2. CASE BatchGetProduct(h)
    BY <1>2, ReadAnswer, PanicStep DEF BatchGetProduct
  <1>3. CASE CreateProduct(h) \/ UpdateProduct(h)
    <2>0. req[h].op \in RefOps /\ req[h].op # "DeleteCategory"
      BY <1>3 DEF CreateProduct, UpdateProduct, RefOps
    <2>1. CASE First(h, "product", req[h].id, "category")
      BY <1>0, <2>0, <2>1, FirstStep
    <2>2. CASE First(h, "category", req[h].category, "brand")
      BY <1>0, <2>0, <2>2, FirstStep
    <2>3. CASE pc[h] = "brand" /\ First(h, "brand", req[h].brand, "save")
      BY <1>0, <2>0, <2>3, FirstStep
    <2>4. CASE pc[h] = "save" /\ Insert(h, "product", Reference(h))
      BY <1>0, <2>0, <2>4, ReferenceStep
    <2>5. CASE Answer(h, "error") /\ ReadOnly /\ UNCHANGED locals
      BY <2>5, ReadAnswer
    <2> QED
      BY <1>3, <2>1, <2>2, <2>3, <2>4, <2>5 DEF CreateProduct, UpdateProduct
  <1>4. CASE DeleteProduct(h)
    <2>1. req[h].id \in Nat /\ req[h].op # "DeleteCategory"
      BY <1>4, RowTypes DEF DeleteProduct, Request
    <2>2. CASE SoftDelete("product", req[h].id) /\ Answer(h, "ok")
      BY <1>0, <1>4, <2>1, <2>2, SoftDeleteStep, Answered DEF DeleteProduct, Inv, LocalTypes
    <2>3. CASE Answer(h, "error") /\ UNCHANGED <<rows, removals>>
      BY <1>4, <2>3, ReadAnswer DEF DeleteProduct, ReadOnly, history, removals, locals
    <2> QED
      BY <1>4, <2>2, <2>3 DEF DeleteProduct
  <1>5. CASE GetProductDetail(h)
    BY <1>5, ReadAnswer, PanicStep DEF GetProductDetail
  <1> QED
    BY <1>1, <1>2, <1>3, <1>4, <1>5 DEF Products

LEMMA ArriveStep == ASSUME Inv, NEW h \in Handlers, Arrive(h) PROVE Inv'
  <1>1. RowsInv' /\ Grows
    BY TablesStay DEF Inv, Arrive, history, removals
  <1>2. PICK r \in Requests[h] : req' = [req EXCEPT ![h] = r]
    BY DEF Arrive
  <1>3. r \in Request
    BY CatalogAssumption
  <1>4. LocalTypes'
    BY <1>2, <1>3 DEF Inv, LocalTypes, Arrive, history, Labels
  <1>5. HandlerInv(h)'
    BY DEF Arrive, Inv, LocalTypes, HandlerInv
  <1>6. ASSUME NEW g \in Handlers \ {h} PROVE HandlerInv(g)'
    BY <1>1, <1>2, HandlerStays DEF Inv, LocalTypes, Arrive, history
  <1> QED
    BY <1>1, <1>4, <1>5, <1>6 DEF Inv

LEMMA InvStep == Inv /\ [Next]_vars => Inv'
  <1> SUFFICES ASSUME Inv, [Next]_vars PROVE Inv'
    OBVIOUS
  <1>1. ASSUME NEW h \in Handlers, Step(h) PROVE Inv'
    BY <1>1, BrandsStep, AdvertisementsStep, CategoriesStep, CategoryBrandsStep, ProductsStep
       DEF Step
  <1>2. CASE UNCHANGED vars
    <2>1. RowsInv' /\ Grows
      BY <1>2, TablesStay DEF Inv, vars, removals
    <2> QED
      BY <1>2, <2>1, HandlerStays DEF Inv, LocalTypes, vars
  <1> QED
    BY <1>1, <1>2, ArriveStep DEF Next, Terminating

LEMMA InvInductive == Spec => []Inv
  <1>1. Init => Inv
    <2> SUFFICES ASSUME Init PROVE Inv
      OBVIOUS
    <2>1. RowsInv
      BY CatalogAssumption DEF Init, RowsInv, RefsExist, DeadAreDeleted, AllLive
    <2>2. NoRequest \in Request /\ Nobody \in Row
      <3>1. NoName \in Names
        BY CatalogAssumption
      <3>2. NoRequest \in Request
        <4>1. "none" \in Operation
          BY DEF Operation
        <4> QED
          BY <3>1, <4>1 DEF NoRequest, Request
      <3>3. Nobody \in Row
        BY <3>1 DEF Nobody, Row
      <3> QED
        BY <3>2, <3>3
    <2>3. LocalTypes
      <3>1. "none" \in Operation
        BY DEF Operation
      <3> QED
        BY <2>2, <3>1 DEF Init, LocalTypes, Labels
    <2>4. \A h \in Handlers : HandlerInv(h)
      BY DEF Init, HandlerInv
    <2> QED
      BY <2>1, <2>3, <2>4 DEF Inv
  <1> QED
    BY <1>1, InvStep, PTL DEF Spec

-----------------------------------------------------------------------------
(* What a step does to the rows *)

LEMMA Writes ==
    ASSUME NEW h \in Handlers, Step(h)
    PROVE  \/ UNCHANGED rows
           \/ \E t \in Tables \ Refs : \E row : Insert(h, t, row)
           \/ /\ pc[h] = "save" /\ req[h].op \in RefOps
              /\ \E t \in Refs : Insert(h, t, Reference(h))
           \/ \E t \in Tables : \E id : SoftDelete(t, id)
           \/ /\ pc[h] = "save" /\ req[h].op \in SaveOps
              /\ \E t \in Tables : \E row : SaveAll(h, t, req[h].id, row)
  <1> USE DEF Op, Tables, Refs, ReadOnly, First, Panic, DeleteById
  <1>1. CASE Brands(h)
    BY <1>1 DEF Brands, BrandList, CreateBrand, DeleteBrand, UpdateBrand, SaveOps
  <1>2. CASE Advertisements(h)
    BY <1>2 DEF Advertisements, AdvertiseLIst, CreateAdvertise, DeleteAdvertise,
       UpdateAdvertise, SaveOps
  <1>3. CASE Categories(h)
    <2>1. CASE DeleteCategory(h)
      BY <2>1 DEF DeleteCategory, DeleteSub
    <2>2. CASE CreateCategory(h)
      BY <2>2 DEF CreateCategory
    <2>3. CASE UpdateCategory(h)
      BY <2>3 DEF UpdateCategory, SaveOps
    <2> QED
      BY <1>3, <2>1, <2>2, <2>3 DEF Categories, GetAllCategoryList, GetSubCategory
  <1>4. CASE CategoryBrands(h)
    BY <1>4 DEF CategoryBrands, CategoryBrandList, GetCategoryBrandList, CreateCategoryBrand,
       DeleteCategoryBrand, UpdateCategoryBrand, ListReferences, RefOps
  <1>5. CASE Products(h)
    BY <1>5 DEF Products, ProductList, BatchGetProduct, CreateProduct, DeleteProduct,
       UpdateProduct, GetProductDetail, ListReferences, RefOps
  <1> QED
    BY <1>1, <1>2, <1>3, <1>4, <1>5 DEF Step

\* A dead row that a step revives was saved by an update, and it had been
\* deleted.
LEMMA Revival ==
    ASSUME Inv, AllLive, [Next]_vars, NEW t \in Tables, NEW i \in DOMAIN rows[t],
           ~rows[t][i].live, rows'[t][i].live
    PROVE  \E h \in Handlers : /\ pc[h] = "save" /\ req[h].id = i /\ copy[h].live
                               /\ <<t, i>> \in deletes
  <1>1. rows[t] \in Seq(Row) /\ rows \in [Tables -> Seq(Row)] /\ <<t, i>> \in deletes
    BY DEF Inv, RowsInv, DeadAreDeleted
  <1>2. rows' # rows
    OBVIOUS
  <1>3. PICK h \in Handlers : Step(h)
    BY <1>2 DEF Next, Arrive, Terminating, vars
  <1>4. ASSUME NEW u \in Tables, NEW row, Insert(h, u, row) PROVE FALSE
    <2>1. rows' = [rows EXCEPT ![u] = Append(@, row)]
      BY <1>2, <1>4 DEF Insert
    <2>2. u = t /\ rows'[t] = Append(rows[t], row)
      BY <1>1, <2>1
    <2> QED
      BY <1>1, <2>2
  <1>5. ASSUME NEW u \in Tables, NEW id, SoftDelete(u, id) PROVE FALSE
    <2>1. rows' = [rows EXCEPT ![u][id].live = FALSE]
      BY <1>2, <1>5 DEF SoftDelete
    <2>2. u = t /\ rows'[t] = [rows[t] EXCEPT ![id] = [rows[t][id] EXCEPT !.live = FALSE]]
      BY <1>1, <2>1
    <2>3. i = id /\ rows'[t][i] = [rows[t][i] EXCEPT !.live = FALSE]
      BY <1>1, <2>2
    <2> QED
      BY <1>1, <2>3 DEF Row
  <1>6. ASSUME NEW u \in Tables, NEW row, SaveAll(h, u, req[h].id, row)
        PROVE  req[h].id = i
    <2>1. rows' = [rows EXCEPT ![u][req[h].id] = row]
      BY <1>2, <1>6 DEF SaveAll
    <2>2. u = t /\ rows'[t] = [rows[t] EXCEPT ![req[h].id] = row]
      BY <1>1, <2>1
    <2> QED
      BY <1>1, <2>2
  <1>9. Refs \subseteq Tables
    BY DEF Refs, Tables
  <1>7. /\ pc[h] = "save" /\ req[h].op \in SaveOps
        /\ \E u \in Tables : \E row : SaveAll(h, u, req[h].id, row)
    BY <1>2, <1>3, <1>4, <1>5, <1>9, Writes
  <1>8. copy[h].live
    BY <1>7 DEF Inv, HandlerInv
  <1> QED
    BY <1>1, <1>6, <1>7, <1>8

\* A table of references only grows by a request that has found both rows.
LEMMA Referral ==
    ASSUME Inv, [Next]_vars, NEW t \in Refs, Len(rows'[t]) > Len(rows[t])
    PROVE  \E h \in Handlers :
             /\ pc[h] = "save" /\ rows'[t] = Append(rows[t], Reference(h))
             /\ Seen(h, "category", req[h].category) /\ Seen(h, "brand", req[h].brand)
  <1>1. /\ rows[t] \in Seq(Row) /\ rows \in [Tables -> Seq(Row)]
        /\ t \in Tables /\ Len(rows[t]) \in Nat
    BY DEF Inv, RowsInv, Refs, Tables
  <1>2. rows' # rows
    BY <1>1
  <1>3. PICK h \in Handlers : Step(h)
    BY <1>2 DEF Next, Arrive, Terminating, vars
  <1>4. ASSUME NEW u \in Tables \ Refs, NEW row, Insert(h, u, row) PROVE FALSE
    <2>1. rows' = [rows EXCEPT ![u] = Append(@, row)]
      BY <1>2, <1>4 DEF Insert
    <2> QED
      BY <1>1, <2>1
  <1>5. ASSUME NEW u \in Tables, NEW s, NEW id, NEW row \in Row,
               s = [rows[u] EXCEPT ![id] = row], rows' = [rows EXCEPT ![u] = s]
        PROVE  FALSE
    <2>1. rows[u] \in Seq(Row) /\ u = t
      BY <1>1, <1>5
    <2>2. rows'[t] = s /\ DOMAIN s = DOMAIN rows[t] /\ s \in Seq(Row)
      BY <1>1, <1>5, <2>1, Replaced
    <2> QED
      BY <1>1, <2>2
  <1>6. ASSUME NEW u \in Tables, NEW id, SoftDelete(u, id) PROVE FALSE
    <2>1. id \in Live(u) /\ rows' = [rows EXCEPT ![u][id].live = FALSE]
      BY <1>2, <1>6 DEF SoftDelete
    <2> DEFINE row == [rows[u][id] EXCEPT !.live = FALSE]
    <2>2. rows[u][id] \in Row
      BY <1>1, <2>1 DEF Live
    <2>3. row \in Row
      BY <2>2 DEF Row
    <2>4. rows' = [rows EXCEPT ![u] = [rows[u] EXCEPT ![id] = row]]
      BY <2>1
    <2> HIDE DEF row
    <2> QED
      BY <1>5, <2>3, <2>4
  <1>7. ASSUME NEW u \in Tables, NEW row, SaveAll(h, u, req[h].id, row) PROVE FALSE
    <2>1. rows' = [rows EXCEPT ![u][req[h].id] = row]
      BY <1>2, <1>7 DEF SaveAll
    <2>2. CASE u = t
      <3>1. rows'[t] = [rows[t] EXCEPT ![req[h].id] = row]
        BY <1>1, <2>1, <2>2
      <3>2. DOMAIN rows'[t] = DOMAIN rows[t]
        BY <3>1
      <3> QED
        BY <1>1, <3>1, <3>2
    <2>3. CASE u # t
      BY <1>1, <2>1, <2>3
    <2> QED
      BY <2>2, <2>3
  <1>8. /\ pc[h] = "save" /\ req[h].op \in RefOps
        /\ \E u \in Refs : Insert(h, u, Reference(h))
    BY <1>2, <1>3, <1>4, <1>6, <1>7, Writes
  <1>9. PICK u \in Refs : rows' = [rows EXCEPT ![u] = Append(@, Reference(h))]
    BY <1>2, <1>8 DEF Insert
  <1>10. rows'[t] = Append(rows[t], Reference(h))
    BY <1>1, <1>9
  <1> QED
    BY <1>8, <1>10 DEF Inv, HandlerInv

-----------------------------------------------------------------------------
(* What ends the process *)

\* After a panic nobody runs.
DownStops == down # "none" => \A h \in Handlers : ~Running(h)

Lists == {"ProductList", "CategoryBrandList"}

\* Only a panic changes down; a list's comes from a broken row or a failed Preload.
LEMMA Crashes ==
    ASSUME Inv, NEW h \in Handlers, Step(h), down' # down
    PROVE  /\ Panic(h)
           /\ repaired /\ req[h].op \in Lists =>
                \/ \E t \in Refs : \E i \in DOMAIN rows[t] : Broken(t, i)
                \/ /\ req[h].op = "CategoryBrandList"
                   /\ \E i \in DOMAIN rows["pcb"] : <<"pcb", i>> \in failed
  <1> USE DEF Op, ReadOnly, First, Insert, SaveAll, DeleteById
  <1>1. CASE Brands(h)
    BY <1>1 DEF Brands, BrandList, CreateBrand, DeleteBrand, UpdateBrand
  <1>2. CASE Advertisements(h)
    BY <1>2 DEF Advertisements, AdvertiseLIst, CreateAdvertise, DeleteAdvertise,
       UpdateAdvertise, Lists
  <1>3. CASE Categories(h)
    BY <1>3 DEF Categories, GetAllCategoryList, GetSubCategory, CreateCategory,
       DeleteCategory, UpdateCategory, Lists
  <1>4. ASSUME NEW t \in Refs, NEW listed \in SUBSET DOMAIN rows[t],
               ListReferences(h, t, listed)
        PROVE  Panic(h) /\ \E i \in DOMAIN rows[t] : Broken(t, i)
    BY <1>4 DEF ListReferences, Answer
  <1>5. CASE CategoryBrands(h)
    <2>1. "pcb" \in Refs
      BY DEF Refs
    <2>2. CASE CategoryBrandList(h)
      <3>1. req[h].op = "CategoryBrandList" /\ HandlerInv(h)
        BY <2>2 DEF CategoryBrandList, Inv
      <3>2. CASE pc[h] = "preload" /\ ListReferences(h, "pcb", todo[h])
        BY <1>4, <2>1, <3>1, <3>2 DEF HandlerInv
      <3>3. CASE pc[h] = "convert" /\ Panic(h)
        BY <3>1, <3>3 DEF HandlerInv
      <3> QED
        BY <2>2, <3>2, <3>3 DEF CategoryBrandList
    <2> QED
      BY <1>5, <2>2 DEF CategoryBrands, GetCategoryBrandList, CreateCategoryBrand,
         DeleteCategoryBrand, UpdateCategoryBrand, Lists
  <1>6. CASE Products(h)
    <2>1. "product" \in Refs
      BY DEF Refs
    <2>2. CASE ProductList(h)
      <3> DEFINE listed == Listed("product", req[h].page, req[h].size)
      <3>1. listed \subseteq DOMAIN rows["product"]
        BY DEF Listed, Live
      <3> HIDE DEF listed
      <3>2. CASE ListReferences(h, "product", listed)
        BY <1>4, <2>1, <3>1, <3>2
      <3> QED
        BY <2>2, <3>2 DEF ProductList, listed
    <2> QED
      BY <1>6, <2>2 DEF Products, BatchGetProduct, CreateProduct, DeleteProduct,
         UpdateProduct, GetProductDetail, Lists
  <1> QED
    BY <1>1, <1>2, <1>3, <1>5, <1>6 DEF Step

\* What a broken row refers to was deleted.
LEMMA BrokenWasDeleted ==
    ASSUME Inv, AllLive, NEW t \in Refs, NEW i \in DOMAIN rows[t], Broken(t, i)
    PROVE  \/ <<"category", rows[t][i].category>> \in deletes
           \/ <<"brand", rows[t][i].brand>> \in deletes
  <1>1. /\ rows[t][i].category \in DOMAIN rows["category"]
        /\ rows[t][i].brand \in DOMAIN rows["brand"]
    BY DEF Inv, RowsInv, RefsExist
  <1>2. "category" \in Tables /\ "brand" \in Tables
    BY DEF Tables
  <1> QED
    BY <1>1, <1>2 DEF Inv, RowsInv, DeadAreDeleted, Broken, Live

LEMMA ListsStep ==
    ASSUME Inv, AllLive, DownStops, ListsSurvive, [Next]_vars
    PROVE  DownStops' /\ ListsSurvive'
  <1>1. CASE UNCHANGED vars
    BY <1>1 DEF vars, DownStops, ListsSurvive, Live, Running
  <1>2. ASSUME NEW h \in Handlers, Arrive(h) PROVE DownStops' /\ ListsSurvive'
    <2>1. down = "none" /\ down' = "none"
      BY <1>2 DEF Arrive
    <2> QED
      BY <2>1 DEF DownStops, ListsSurvive
  <1>3. ASSUME NEW h \in Handlers, Step(h) PROVE DownStops' /\ ListsSurvive'
    <2>1. down = "none"
      BY <1>3 DEF Step, DownStops
    <2>2. CASE down' = down
      BY <2>1, <2>2 DEF DownStops, ListsSurvive
    <2>3. CASE down' # down
      <3>1. Panic(h)
        BY <1>3, <2>3, Crashes
      <3>2. DownStops'
        BY <3>1 DEF Panic, DownStops, Running
      <3>3. UNCHANGED <<rows, deletes, failed, repaired>> /\ down' = req[h].op
        BY <1>3, <3>1 DEF Panic, history, Step
      <3>4. CASE repaired /\ req[h].op \in Lists
        <4>1. ASSUME NEW t \in Refs, NEW i \in DOMAIN rows[t], Broken(t, i)
              PROVE  ListsSurvive'
          BY <3>3, <4>1, BrokenWasDeleted DEF ListsSurvive
        <4>2. CASE /\ req[h].op = "CategoryBrandList"
                   /\ \E i \in DOMAIN rows["pcb"] : <<"pcb", i>> \in failed
          <5>1. PICK i \in DOMAIN rows["pcb"] : <<"pcb", i>> \in failed
            BY <4>2
          <5>2. i \in DOMAIN rows'["pcb"] /\ <<"pcb", i>> \in failed'
            BY <3>3, <5>1
          <5>3. down' = "CategoryBrandList"
            BY <3>3, <4>2
          <5> QED
            BY <3>2, <5>2, <5>3 DEF ListsSurvive
        <4> QED
          BY <1>3, <2>3, <3>2, <3>4, <4>1, <4>2, Crashes
      <3> QED
        BY <3>2, <3>3, <3>4 DEF ListsSurvive, Lists
    <2> QED
      BY <2>2, <2>3
  <1> QED
    BY <1>1, <1>2, <1>3 DEF Next, Terminating

-----------------------------------------------------------------------------
(* Pages *)

\* Where int32 does not wrap, a page begins after s rows for each page before it.
LEMMA ExactOffset ==
    ASSUME NEW size, NEW s \in Nat, PageSize(size) = s, NEW p \in Nat \ {0},
           s * (p - 1) < IntLimit
    PROVE  Offset(p, size) = s * (p - 1)
  <1> DEFINE n == s * (p - 1)
  <1>1. n \in Nat /\ n < IntLimit /\ IntLimit \in Nat \ {0}
    BY CatalogAssumption
  <1>2. PageNo(p) = p
    BY DEF PageNo
  <1> HIDE DEF n
  <1>3. (n + IntLimit) % (2 * IntLimit) = n + IntLimit
    BY <1>1
  <1>4. Wrapped(n) = n
    BY <1>1, <1>3 DEF Wrapped
  <1> QED
    BY <1>1, <1>2, <1>4 DEF Offset, n

\* The place of a row among the live rows.
Place(t, i) == Cardinality({j \in Live(t) : j <= i})

LEMMA PlaceType ==
    ASSUME RowsInv, NEW t \in Tables, NEW i \in Live(t)
    PROVE  Place(t, i) \in 1..Len(rows[t])
  <1> DEFINE n == Len(rows[t])
             S == {j \in Live(t) : j <= i}
  <1>1. n \in Nat /\ DOMAIN rows[t] = 1..n
    BY DEF RowsInv
  <1>2. S \subseteq 1..n /\ i \in S
    BY <1>1 DEF Live
  <1>3. IsFiniteSet(1..n) /\ Cardinality(1..n) = n
    BY <1>1, FS_Interval
  <1> HIDE DEF n, S
  <1>4. IsFiniteSet(S) /\ Cardinality(S) <= n
    BY <1>2, <1>3, FS_Subset
  <1>5. Cardinality(S) \in Nat /\ Cardinality(S) # 0
    BY <1>2, <1>4, FS_EmptySet, FS_CardinalityType
  <1> QED
    BY <1>1, <1>4, <1>5 DEF Place, n, S

\* A place is on one page of s rows.
LEMMA OnePage ==
    ASSUME NEW s \in Nat \ {0}, NEW k \in Nat \ {0}
    PROVE  \E p \in 1..k :
             /\ s * (p - 1) < k /\ k <= s * (p - 1) + s
             /\ \A q \in Nat \ {0} : s * (q - 1) < k /\ k <= s * (q - 1) + s => q = p
  <1> DEFINE a == k - 1
             d == a \div s
             r == a % s
  <1>1. a \in Nat /\ d \in Nat /\ r \in 0..s - 1 /\ a = (s * d) + r
    OBVIOUS
  <1> HIDE DEF d, r
  <1>2. s * d \in Nat /\ s * d < k /\ k <= (s * d) + s
    BY <1>1
  <1>3. d <= s * d
    BY <1>1
  <1>4. d + 1 \in 1..k
    BY <1>1, <1>2, <1>3
  <1>5. ASSUME NEW q \in Nat \ {0}, s * (q - 1) < k, k <= s * (q - 1) + s
        PROVE  q = d + 1
    <2> DEFINE e == q - 1
    <2>1. e \in Nat /\ s * e < k /\ k <= (s * e) + s
      BY <1>5
    <2>2. ASSUME NEW x \in Nat, NEW y \in Nat, x < y PROVE (s * x) + s <= s * y
      <3>1. s * (x + 1) <= s * y
        BY <2>2
      <3> QED
        BY <3>1
    <2> HIDE DEF e
    <2>3. s * e \in Nat
      BY <2>1
    <2>4. ~(d < e) /\ ~(e < d)
      BY <1>1, <1>2, <2>1, <2>2, <2>3
    <2> QED
      BY <1>1, <2>1, <2>4 DEF e
  <1>6. (d + 1) - 1 = d
    BY <1>1
  <1> QED
    BY <1>2, <1>4, <1>5, <1>6

LEMMA Tiled == RowsInv => PagesTile
  <1> SUFFICES ASSUME RowsInv, NEW size \in -1..MaxPage + 1,
                      PageSize(size) * Len(rows["brand"]) < IntLimit,
                      NEW i \in Live("brand")
               PROVE  LET Exact == {p \in 1..Len(rows["brand"]) + 1 :
                                      PageSize(size) * (p - 1) < IntLimit}
                      IN  \E p \in Exact :
                            /\ i \in Listed("brand", p, size)
                            /\ \A q \in Exact \ {p} : i \notin Listed("brand", q, size)
    BY DEF PagesTile
  <1> DEFINE s == PageSize(size)
             n == Len(rows["brand"])
             k == Place("brand", i)
             Exact == {p \in 1..n + 1 : s * (p - 1) < IntLimit}
  <1>1. s \in Nat \ {0}
    BY CatalogAssumption DEF PageSize
  <1>2. n \in Nat /\ k \in 1..n /\ IntLimit \in Nat
    BY PlaceType, CatalogAssumption DEF RowsInv, Tables
  <1>3. s * n < IntLimit
    OBVIOUS
  <1>4. ASSUME NEW p \in Exact
        PROVE  i \in Listed("brand", p, size)
                 <=> s * (p - 1) < k /\ k <= s * (p - 1) + s
    <2>1. p \in Nat \ {0} /\ s * (p - 1) < IntLimit
      BY <1>2
    <2> HIDE DEF s
    <2>2. s * (p - 1) \in Nat
      BY <1>1, <2>1
    <2>3. Offset(p, size) = s * (p - 1)
      BY <1>1, <2>1, ExactOffset DEF s
    <2>4. k \in Int
      BY <1>2
    <2>5. i \in Listed("brand", p, size)
            <=> k > Offset(p, size) /\ k <= Offset(p, size) + PageSize(size)
      BY DEF Listed, Place
    <2> HIDE DEF k
    <2> QED
      BY <1>1, <2>2, <2>3, <2>4, <2>5 DEF s
  <1>5. PICK p \in 1..k :
           /\ s * (p - 1) < k /\ k <= s * (p - 1) + s
           /\ \A q \in Nat \ {0} : s * (q - 1) < k /\ k <= s * (q - 1) + s => q = p
    <2> HIDE DEF s, k, n
    <2>1. k \in Nat \ {0}
      BY <1>2
    <2> QED
      BY <1>1, <2>1, OnePage
  <1> HIDE DEF s, k, n
  <1>6. p \in Exact
    <2>1. n <= s * n /\ s * n \in Nat
      BY <1>1, <1>2
    <2>2. s * (p - 1) \in Int
      BY <1>1, <1>2
    <2>3. s * (p - 1) < IntLimit /\ p \in 1..n + 1
      BY <1>2, <1>3, <1>5, <2>1, <2>2
    <2> QED
      BY <2>3
  <1>7. \A q \in Exact \ {p} : i \notin Listed("brand", q, size)
    BY <1>2, <1>4, <1>5
  <1>8. i \in Listed("brand", p, size)
    BY <1>4, <1>5, <1>6
  <1> QED
    BY <1>6, <1>7, <1>8 DEF s, n

-----------------------------------------------------------------------------
\* Tables, requests and handlers keep their types (product.go, biz/*.go).
THEOREM CatalogTypeCorrect == Spec => []TypeOK
  <1>1. Inv => TypeOK
    BY DEF Inv, RowsInv, LocalTypes, TypeOK
  <1> QED
    BY <1>1, InvInductive, PTL

\* Products and category-brand pairs refer to rows that exist, whatever deletes
\* come between lookup and insert (categoryBrand.go:68-76, product.go:83-91).
THEOREM ReferencesExist == Spec => []RefsExist
  <1>1. Inv => RefsExist
    BY DEF Inv, RowsInv
  <1> QED
    BY <1>1, InvInductive, PTL

\* A request that found a category or brand gone refers to neither: a reference over
\* a deleted row is inserted only by one the delete overlapped
\* (categoryBrand.go:68-76, product.go:83-91).
THEOREM ReferencesAreFresh == Spec => RefsAreFresh
  <1>1. Inv /\ [Next]_vars =>
          \A t \in Refs : Len(rows'[t]) > Len(rows[t]) =>
            \E h \in Handlers :
              /\ pc[h] = "save" /\ rows'[t] = Append(rows[t], Reference(h))
              /\ req[h].category \in Live("category") \/ <<"category", req[h].category>> \in missed[h]
              /\ req[h].brand \in Live("brand") \/ <<"brand", req[h].brand>> \in missed[h]
    BY Referral DEF Seen
  <1> QED
    BY <1>1, InvInductive, PTL DEF Spec, RefsAreFresh

\* DeleteCategory leaves none of the subcategories it listed behind, whatever
\* updates brought them back meanwhile (category.go:88-105).
THEOREM DeletesAreComplete == ASSUME AllLive PROVE Spec => []DeleteIsComplete
  <1>1. Inv => DeleteIsComplete
    BY DEF Inv, HandlerInv, Gone, DeleteIsComplete
  <1> QED
    BY <1>1, InvInductive, PTL

\* A deleted row comes back only by the Save of an update that overlapped the
\* delete (brand.go:95, advertise.go:64, category.go:123).
THEOREM RevivalsOverlap == ASSUME AllLive PROVE Spec => RevivedByOverlap
  <1>1. Inv /\ [Next]_vars =>
          \A t \in Tables : \A i \in DOMAIN rows[t] :
            (~rows[t][i].live /\ rows'[t][i].live) =>
              \E h \in Handlers :
                /\ pc[h] = "save" /\ req[h].id = i /\ copy[h].live
                /\ <<t, i>> \in deletes
    BY Revival
  <1> QED
    BY <1>1, InvInductive, PTL DEF Spec, RevivedByOverlap

\* In the repaired code only a deleted category or brand, or a Preload that fails,
\* lets a list of what refers to it end the process (categoryBrand.go:21-26,
\* product.go:66).
THEOREM ListsEndOverMissingRows == ASSUME AllLive PROVE Spec => []ListsSurvive
  <1>1. Init => DownStops /\ ListsSurvive
    BY DEF Init, DownStops, ListsSurvive
  <1>2. Inv /\ DownStops /\ ListsSurvive /\ [Next]_vars => DownStops' /\ ListsSurvive'
    BY ListsStep
  <1> QED
    BY <1>1, <1>2, InvInductive, PTL DEF Spec

\* While the int32 product does not wrap, the pages of one size hand every live
\* brand out exactly once, for every page size and table (db.go:52-66).
THEOREM PagesTileBrands == Spec => []PagesTile
  <1>1. Inv => PagesTile
    BY Tiled DEF Inv
  <1> QED
    BY <1>1, InvInductive, PTL
=============================================================================
