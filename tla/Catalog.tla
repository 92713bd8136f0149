------------------------------- MODULE Catalog -------------------------------
(***************************************************************************)
(* The product service: microservice_part2/product_srv/biz over the tables *)
(* of microservice_part2/model/product.go.  One process; grpc-go runs      *)
(* every request in a goroutine of its own and recovers no panic, so that  *)
(* a panic in one request ends all of them.  A row is only ever soft       *)
(* deleted (gorm.DeletedAt), its id is its place in the table.             *)
(*                                                                         *)
(* `repaired' is chosen once.  FALSE is the code as committed, where most  *)
(* handlers stop at a nil pointer or a wrong gorm call; TRUE takes these   *)
(* slips as repaired (results allocated, lookups given a destination, the  *)
(* names of Preload right, MyPaging applied to its argument, converters    *)
(* that copy the id, CategoryNotExits compared as a sentinel) and leaves   *)
(* all other control as it is.                                             *)
(***************************************************************************)
EXTENDS Integers, Sequences, FiniteSets

CONSTANTS MaxHandlers,      \* how many requests the service may receive
          Names, NoName,    \* names of brands, categories, advertisements; the empty one
          Requests,         \* Requests[h]: the requests that may arrive as h
          InitRows,         \* the tables when the process starts
          MaxPage,          \* MyPaging's 100
          DefaultPage,      \* MyPaging's 5
          IntLimit          \* int32 is -IntLimit .. IntLimit - 1

VARIABLES repaired,         \* which code runs
          rows,             \* rows[t]: the table t
          pc, req,          \* a handler's position and request
          copy,             \* the row it read, written back by a full-row Save
          todo,             \* DeleteCategory: subcategories still to delete;
                            \* CategoryBrandList: the rows it lists
          down,             \* the operation whose panic ended the process, or "none"
          deletes, failed,  \* history: <<t, id>> was deleted; its statement failed
                            \* unnoticed (a DELETE, a Preload)
          missed,           \* history: what was deleted while a request ran
          found             \* history: the subcategories a DeleteCategory listed

removals == <<deletes, missed>>
history == <<deletes, missed, failed, found>>
locals == <<copy, todo>>
vars == <<repaired, rows, pc, req, copy, todo, down, deletes, missed, failed, found>>

Handlers == 1..MaxHandlers  \* one goroutine each, numbered as they arrive
Tables == {"brand", "category", "product", "pcb", "advertise"}
Refs == {"product", "pcb"}  \* the tables that refer to category and brand

\* One shape for every table; a column a table lacks stays at its zero.
Row == [live: BOOLEAN, name: Names, level: 0..3, parent: Nat, category: Nat, brand: Nat]

Operation == {"none", "BrandList", "CreateBrand", "DeleteBrand", "UpdateBrand",
  "AdvertiseLIst", "CreateAdvertise", "DeleteAdvertise", "UpdateAdvertise",
  "GetAllCategoryList", "GetSubCategory", "CreateCategory", "DeleteCategory",
  "UpdateCategory", "CategoryBrandList", "GetCategoryBrandList", "CreateCategoryBrand",
  "DeleteCategoryBrand", "UpdateCategoryBrand", "ProductList", "BatchGetProduct",
  "CreateProduct", "DeleteProduct", "UpdateProduct", "GetProductDetail"}

\* zero id or level: the field is not set.  size, page: of a list request.
Request == [op: Operation, id: Nat, name: Names, level: 0..3, parent: Nat,
            category: Nat, brand: Nat, page: Int, size: Int]

ASSUME CatalogAssumption ==
  /\ \A h \in Handlers : Requests[h] \subseteq Request
  /\ NoName \in Names
  /\ InitRows \in [Tables -> Seq(Row)]
  /\ \A t \in Refs : \A i \in DOMAIN InitRows[t] :
       /\ InitRows[t][i].category \in DOMAIN InitRows["category"]
       /\ InitRows[t][i].brand \in DOMAIN InitRows["brand"]
  /\ MaxPage \in Nat \ {0} /\ DefaultPage \in 1..MaxPage
  /\ IntLimit \in Nat \ {0} /\ MaxHandlers \in Nat

Live(t) == {i \in DOMAIN rows[t] : rows[t][i].live}

Running(h) == pc[h] \notin {"idle", "ok", "error", "dead"}

-----------------------------------------------------------------------------
(* Paging *)

Wrapped(n) == ((n + IntLimit) % (2 * IntLimit)) - IntLimit

PageSize(size) == CASE size > MaxPage -> MaxPage
                    [] size <= 0      -> DefaultPage
                    [] OTHER          -> size
PageNo(page) == IF page <= 0 THEN 1 ELSE page

MutOffset(page, size) == PageSize(size) * PageNo(page)  \* forgets the - 1

\* int(pageSize * (pageNo - 1)) is multiplied in int32; gorm leaves a
\* negative OFFSET out of the statement.
Offset(page, size) == LET n == Wrapped(PageSize(size) * (PageNo(page) - 1))
                      IN  IF n < 0 THEN 0 ELSE n

\* The rows of a page: the live rows come in the order of their ids.
Listed(t, page, size) ==
  {i \in Live(t) : LET place == Cardinality({j \in Live(t) : j <= i})
                   IN  /\ place > Offset(page, size)
                       /\ place <= Offset(page, size) + PageSize(size)}

-----------------------------------------------------------------------------
(* What the handlers are made of *)

Op(h, ops) == pc[h] # "idle" /\ req[h].op \in ops

Answer(h, reply) == pc' = [pc EXCEPT ![h] = reply]

\* A nil pointer: the process ends, with every request on it.
Panic(h) ==
  /\ down' = req[h].op
  /\ pc' = [g \in Handlers |-> IF Running(g) THEN "dead" ELSE pc[g]]
  /\ UNCHANGED <<rows, copy, todo, history>>

ReadOnly == UNCHANGED <<rows, down, history>>

MutFirst(h, t, id, next) ==    \* finds a soft-deleted row too (Unscoped)
  \/ /\ id \in DOMAIN rows[t]
     /\ copy' = [copy EXCEPT ![h] = rows[t][id]]
     /\ pc' = [pc EXCEPT ![h] = next]
     /\ ReadOnly /\ UNCHANGED todo
  \/ Answer(h, "error") /\ ReadOnly /\ UNCHANGED locals

\* One lookup by id.  A failing query counts as a missing row.
First(h, t, id, next) ==
  \/ /\ id \in Live(t)
     /\ copy' = [copy EXCEPT ![h] = rows[t][id]]
     /\ pc' = [pc EXCEPT ![h] = next]
     /\ ReadOnly /\ UNCHANGED todo
  \/ Answer(h, "error") /\ ReadOnly /\ UNCHANGED locals

\* INSERT, whose error nobody looks at.
Insert(h, t, row) ==
  /\ \/ rows' = [rows EXCEPT ![t] = Append(@, row)]
     \/ UNCHANGED rows
  /\ Answer(h, "ok")
  /\ UNCHANGED <<copy, todo, down, history>>

\* Save of a row with an id: UPDATE of every column of the live row, and if
\* that finds none, INSERT ... ON DUPLICATE KEY UPDATE, which finds the
\* deleted one.  Its error is ignored too.
SaveAll(h, t, id, row) ==
  /\ \/ rows' = [rows EXCEPT ![t][id] = row]
     \/ UNCHANGED rows
  /\ Answer(h, "ok")
  /\ UNCHANGED <<copy, todo, down, history>>

\* UPDATE t SET delete_at = now WHERE id = ? AND delete_at IS NULL
SoftDelete(t, id) ==
  /\ rows' = IF id \in Live(t) THEN [rows EXCEPT ![t][id].live = FALSE] ELSE rows
  /\ deletes' = IF id \in Live(t) THEN deletes \cup {<<t, id>>} ELSE deletes
  /\ missed' = [g \in Handlers |-> IF Running(g) /\ id \in Live(t)
                                   THEN missed[g] \cup {<<t, id>>} ELSE missed[g]]

\* The delete operations of one statement; one more row or fewer is no error.
DeleteById(h, t) ==
  /\ \/ SoftDelete(t, req[h].id) /\ Answer(h, "ok")
     \/ Answer(h, "error") /\ UNCHANGED <<rows, removals>>
  /\ UNCHANGED <<copy, todo, down, failed, found>>

\* The row with the request's name, if it has one.
Renamed(h, row) == IF req[h].name = NoName THEN row ELSE [row EXCEPT !.name = req[h].name]

Blank(h) == [live |-> TRUE, name |-> req[h].name, level |-> 0, parent |-> 0,
             category |-> 0, brand |-> 0]
Reference(h) == [Blank(h) EXCEPT !.category = req[h].category, !.brand = req[h].brand]

-----------------------------------------------------------------------------
(* Brands *)

BrandList(h) ==
  /\ Op(h, {"BrandList"})
  /\ \/ repaired /\ Listed("brand", req[h].page, req[h].size) # {} /\ Answer(h, "ok")
     \/ Answer(h, "error")
  /\ ReadOnly /\ UNCHANGED locals

\* As committed the lookup has no table and finds nothing.
CreateBrand(h) ==
  /\ Op(h, {"CreateBrand"})
  /\ \/ /\ pc[h] = "in"
        /\ \/ /\ repaired /\ \E i \in Live("brand") : rows["brand"][i].name = req[h].name
              /\ Answer(h, "error")
           \/ Answer(h, "save")     \* nothing found, or the query failed
        /\ ReadOnly /\ UNCHANGED locals
     \/ pc[h] = "save" /\ Insert(h, "brand", Blank(h))

DeleteBrand(h) == Op(h, {"DeleteBrand"}) /\ DeleteById(h, "brand")

MutUpdateBrand(h) ==     \* saves what the request says, read or not
  /\ Op(h, {"UpdateBrand"}) /\ repaired
  /\ SaveAll(h, "brand", req[h].id, Blank(h))

\* As committed Where() runs no query, so RowsAffected is 0.
UpdateBrand(h) ==
  /\ Op(h, {"UpdateBrand"})
  /\ \/ pc[h] = "in" /\ repaired /\ First(h, "brand", req[h].id, "save")
     \/ pc[h] = "in" /\ ~repaired /\ Answer(h, "error") /\ ReadOnly /\ UNCHANGED locals
     \/ /\ pc[h] = "save"
        /\ SaveAll(h, "brand", req[h].id, Renamed(h, copy[h]))

-----------------------------------------------------------------------------
(* Advertisements *)

AdvertiseLIst(h) ==
  /\ Op(h, {"AdvertiseLIst"})
  /\ \/ Live("advertise") # {} /\ Answer(h, "ok")
     \/ Answer(h, "error")
  /\ ReadOnly /\ UNCHANGED locals

CreateAdvertise(h) ==
  /\ Op(h, {"CreateAdvertise"})
  /\ IF repaired THEN Insert(h, "advertise", Blank(h)) ELSE Panic(h)

DeleteAdvertise(h) == Op(h, {"DeleteAdvertise"}) /\ DeleteById(h, "advertise")

UpdateAdvertise(h) ==
  /\ Op(h, {"UpdateAdvertise"})
  /\ \/ pc[h] = "in" /\ repaired /\ First(h, "advertise", req[h].id, "save")
     \/ pc[h] = "in" /\ ~repaired /\ Answer(h, "error") /\ ReadOnly /\ UNCHANGED locals
     \/ /\ pc[h] = "save"
        /\ SaveAll(h, "advertise", req[h].id, Renamed(h, copy[h]))

-----------------------------------------------------------------------------
(* Categories *)

\* The list is allocated only in the repaired code.
GetAllCategoryList(h) ==
  /\ Op(h, {"GetAllCategoryList"})
  /\ IF repaired THEN Answer(h, "ok") /\ ReadOnly /\ UNCHANGED locals ELSE Panic(h)

\* The rows GetSubCategory answers with: a zero id drops the condition.
SubCategories(id) ==
  {i \in Live("category") : id = 0 \/ rows["category"][i].parent = id}

\* As committed "Subcategory" is not a field, and Preload an error.
GetSubCategory(h) ==
  /\ Op(h, {"GetSubCategory"})
  /\ \/ repaired /\ req[h].level # 3 /\ Answer(h, "ok")
     \/ Answer(h, "error")
  /\ ReadOnly /\ UNCHANGED locals

MutCreateCategory(h) ==  \* counts the level instead of taking it
  /\ Op(h, {"CreateCategory"})
  /\ Insert(h, "category", [Blank(h) EXCEPT !.level = rows["category"][req[h].parent].level + 1,
                                           !.parent = req[h].parent])

CreateCategory(h) ==
  /\ Op(h, {"CreateCategory"})
  /\ IF repaired
       THEN Insert(h, "category",
                   [Blank(h) EXCEPT !.level = req[h].level,
                                    !.parent = IF req[h].level > 1 THEN req[h].parent ELSE 0])
       ELSE Panic(h)

MutDeleteSub(h) ==       \* the converter sets no id, so the DELETE finds no row
  \E c \in todo[h] :
    todo' = [todo EXCEPT ![h] = @ \ {c}] /\ UNCHANGED <<rows, removals, failed>>

DeleteSub(h) ==
  \E c \in todo[h] :
    /\ todo' = [todo EXCEPT ![h] = @ \ {c}]
    /\ \/ SoftDelete("category", c) /\ UNCHANGED failed
       \/ failed' = failed \cup {<<"category", c>>} /\ UNCHANGED <<rows, removals>>

\* First, the list of subcategories, one DELETE for each of them (whose error
\* is ignored) and one for the category, without a transaction.  As committed
\* every outcome of GetSubCategory is an error here.
DeleteCategory(h) ==
  /\ Op(h, {"DeleteCategory"})
  /\ \/ pc[h] = "in" /\ First(h, "category", req[h].id, "subs")
     \/ /\ pc[h] = "subs"
        /\ \/ /\ repaired
              /\ found' = [found EXCEPT ![h] = IF copy[h].level = 3 THEN {}
                                               ELSE SubCategories(req[h].id)]
              /\ todo' = [todo EXCEPT ![h] = found'[h]]
              /\ Answer(h, "delete")
           \/ Answer(h, "error") /\ UNCHANGED <<todo, found>>
        /\ UNCHANGED <<rows, copy, down, removals, failed>>
     \/ /\ pc[h] = "delete" /\ todo[h] # {}
        /\ DeleteSub(h)
        /\ UNCHANGED <<pc, copy, down, found>>
     \/ /\ pc[h] = "delete" /\ todo[h] = {}
        /\ DeleteById(h, "category")

\* The switch stores only the first field that is set, Save writes all.
UpdateCategory(h) ==
  /\ Op(h, {"UpdateCategory"})
  /\ \/ pc[h] = "in" /\ First(h, "category", req[h].id, "save")
     \/ /\ pc[h] = "save"
        /\ SaveAll(h, "category", req[h].id,
                   CASE req[h].name # NoName -> Renamed(h, copy[h])
                     [] req[h].name = NoName /\ req[h].level # 0
                          -> [copy[h] EXCEPT !.level = req[h].level]
                     [] OTHER -> [copy[h] EXCEPT !.parent =
                                    IF req[h].parent > 0 THEN req[h].parent ELSE @])

-----------------------------------------------------------------------------
(* Which brands a category carries *)

MutBroken(t, i) == rows[t][i].category \notin Live("brand")  \* joins the wrong table

\* Preload and Joins leave a soft-deleted row out; the converters read a
\* field of what is then a nil pointer.
Broken(t, i) == \/ rows[t][i].category \notin Live("category")
                \/ rows[t][i].brand \notin Live("brand")

\* The converters run over the rows read: all is well, or one is broken.
ListReferences(h, t, listed) ==
  \/ (\E i \in listed : Broken(t, i)) /\ Panic(h)
  \/ (\A i \in listed : ~Broken(t, i)) /\ Answer(h, "ok") /\ ReadOnly /\ UNCHANGED locals

\* Find reads the pairs, Preload in further SELECTs what they refer to.  Nobody
\* looks at an error: no pairs are an empty list, pairs whose Preload failed have
\* nil associations and are converted all the same.
CategoryBrandList(h) ==
  /\ Op(h, {"CategoryBrandList"})
  /\ \/ pc[h] = "in" /\ ~repaired /\ Panic(h)
     \/ /\ pc[h] = "in" /\ repaired
        /\ todo' = [todo EXCEPT ![h] = Listed("pcb", req[h].page, req[h].size)]
        /\ Answer(h, "preload")
        /\ ReadOnly /\ UNCHANGED copy
     \/ pc[h] = "in" /\ repaired /\ Answer(h, "ok") /\ ReadOnly /\ UNCHANGED locals
     \/ pc[h] = "preload" /\ ListReferences(h, "pcb", todo[h])
     \/ /\ pc[h] = "preload" /\ todo[h] # {}
        /\ failed' = failed \cup ({"pcb"} \X todo[h])
        /\ Answer(h, "convert")
        /\ UNCHANGED <<rows, copy, todo, down, removals, found>>
     \/ pc[h] = "convert" /\ Panic(h)

\* Preloads the category but converts the brand.
GetCategoryBrandList(h) ==
  /\ Op(h, {"GetCategoryBrandList"})
  /\ \/ pc[h] = "in" /\ repaired /\ First(h, "category", req[h].id, "find")
     \/ pc[h] = "in" /\ ~repaired /\ Answer(h, "error") /\ ReadOnly /\ UNCHANGED locals
     \/ /\ pc[h] = "find"
        /\ \/ /\ \E i \in Live("pcb") : rows["pcb"][i].category = req[h].id
              /\ Panic(h)
           \/ Answer(h, "error") /\ ReadOnly /\ UNCHANGED locals

\* A reference the request leaves out is a nil message, whose Id is read.
CreateCategoryBrand(h) ==
  /\ Op(h, {"CreateCategoryBrand"})
  /\ \/ /\ pc[h] = "in"
        /\ CASE req[h].category = 0 -> Panic(h)
             [] repaired /\ req[h].category > 0
                  -> First(h, "category", req[h].category, "brand")
             [] OTHER -> Answer(h, "error") /\ ReadOnly /\ UNCHANGED locals
     \/ /\ pc[h] = "brand"
        /\ IF req[h].brand = 0 THEN Panic(h) ELSE First(h, "brand", req[h].brand, "save")
     \/ pc[h] = "save" /\ Insert(h, "pcb", Reference(h))

DeleteCategoryBrand(h) == Op(h, {"DeleteCategoryBrand"}) /\ DeleteById(h, "pcb")

\* The row it saves has no id: an insert.
UpdateCategoryBrand(h) ==
  /\ Op(h, {"UpdateCategoryBrand"})
  /\ \/ /\ pc[h] = "in"
        /\ IF req[h].category = 0
             THEN Panic(h) ELSE First(h, "category", req[h].category, "brand")
     \/ /\ pc[h] = "brand"
        /\ IF req[h].brand = 0 THEN Panic(h) ELSE First(h, "brand", req[h].brand, "save")
     \/ /\ pc[h] = "save"
        /\ IF repaired THEN Insert(h, "pcb", Reference(h)) ELSE Panic(h)

-----------------------------------------------------------------------------
(* Products *)

\* One SELECT with two joins.  The category filter looks its category up and then
\* builds SQL that MySQL refuses.  An error is ignored and the list empty.
ProductList(h) ==
  /\ Op(h, {"ProductList"})
  /\ \/ /\ pc[h] = "in" /\ req[h].category > 0
        /\ First(h, "category", req[h].category, "find")
     \/ /\ pc[h] = "in" /\ req[h].category = 0 /\ repaired
        /\ ListReferences(h, "product", Listed("product", req[h].page, req[h].size))
     \/ /\ pc[h] = "find" \/ (pc[h] = "in" /\ req[h].category = 0)
        /\ IF repaired THEN Answer(h, "ok") /\ ReadOnly /\ UNCHANGED locals ELSE Panic(h)

\* The converter reads the category of products that were loaded without.
BatchGetProduct(h) ==
  /\ Op(h, {"BatchGetProduct"})
  /\ IF ~repaired \/ req[h].id \in Live("product")
       THEN Panic(h)
       ELSE Answer(h, "ok") /\ ReadOnly /\ UNCHANGED locals

MutCreateProduct(h) ==   \* does not look the brand up
  /\ Op(h, {"CreateProduct"})
  /\ \/ pc[h] = "in" /\ First(h, "category", req[h].category, "save")
     \/ pc[h] = "save" /\ Insert(h, "product", Reference(h))

CreateProduct(h) ==
  /\ Op(h, {"CreateProduct"})
  /\ \/ pc[h] = "in" /\ repaired /\ First(h, "category", req[h].category, "brand")
     \/ pc[h] = "in" /\ ~repaired /\ Answer(h, "error") /\ ReadOnly /\ UNCHANGED locals
     \/ pc[h] = "brand" /\ First(h, "brand", req[h].brand, "save")
     \/ pc[h] = "save" /\ Insert(h, "product", Reference(h))

\* The one delete that looks whether a row went.
DeleteProduct(h) ==
  /\ Op(h, {"DeleteProduct"})
  /\ \/ /\ req[h].id \in Live("product")
        /\ SoftDelete("product", req[h].id) /\ Answer(h, "ok")
     \/ Answer(h, "error") /\ UNCHANGED <<rows, removals>>
  /\ UNCHANGED <<copy, todo, down, failed, found>>

\* The product it saves is built from the request, which sets no ID: insert.
UpdateProduct(h) ==
  /\ Op(h, {"UpdateProduct"})
  /\ \/ pc[h] = "in" /\ repaired /\ First(h, "product", req[h].id, "category")
     \/ pc[h] = "in" /\ ~repaired /\ Answer(h, "error") /\ ReadOnly /\ UNCHANGED locals
     \/ pc[h] = "category" /\ First(h, "category", req[h].category, "brand")
     \/ pc[h] = "brand" /\ First(h, "brand", req[h].brand, "save")
     \/ pc[h] = "save" /\ Insert(h, "product", Reference(h))

GetProductDetail(h) ==
  /\ Op(h, {"GetProductDetail"})
  /\ \/ repaired /\ req[h].id \in Live("product") /\ Panic(h)
     \/ Answer(h, "error") /\ ReadOnly /\ UNCHANGED locals

-----------------------------------------------------------------------------
Brands(h) == BrandList(h) \/ CreateBrand(h) \/ DeleteBrand(h) \/ UpdateBrand(h)
Advertisements(h) ==
  AdvertiseLIst(h) \/ CreateAdvertise(h) \/ DeleteAdvertise(h) \/ UpdateAdvertise(h)
Categories(h) ==
  \/ GetAllCategoryList(h) \/ GetSubCategory(h) \/ CreateCategory(h)
  \/ DeleteCategory(h) \/ UpdateCategory(h)
CategoryBrands(h) ==
  \/ CategoryBrandList(h) \/ GetCategoryBrandList(h) \/ CreateCategoryBrand(h)
  \/ DeleteCategoryBrand(h) \/ UpdateCategoryBrand(h)
Products(h) ==
  \/ ProductList(h) \/ BatchGetProduct(h) \/ CreateProduct(h)
  \/ DeleteProduct(h) \/ UpdateProduct(h) \/ GetProductDetail(h)

\* One statement of h's request, or the answer to it.
Step(h) ==
  /\ Running(h)
  /\ Brands(h) \/ Advertisements(h) \/ Categories(h) \/ CategoryBrands(h) \/ Products(h)
  /\ UNCHANGED <<repaired, req>>

Arrive(h) ==
  /\ pc[h] = "idle" /\ down = "none"
  /\ \A g \in 1..h - 1 : pc[g] # "idle"
  /\ \E r \in Requests[h] : req' = [req EXCEPT ![h] = r]
  /\ pc' = [pc EXCEPT ![h] = "in"]
  /\ UNCHANGED <<repaired, rows, copy, todo, down, history>>

Terminating == (\A h \in Handlers : ~Running(h)) /\ UNCHANGED vars

Nobody == [live |-> FALSE, name |-> NoName, level |-> 0, parent |-> 0,
           category |-> 0, brand |-> 0]
NoRequest == [op |-> "none", id |-> 0, name |-> NoName, level |-> 0, parent |-> 0,
              category |-> 0, brand |-> 0, page |-> 0, size |-> 0]

Init ==
  /\ repaired \in BOOLEAN
  /\ rows = InitRows
  /\ pc = [h \in Handlers |-> "idle"]
  /\ req = [h \in Handlers |-> NoRequest]
  /\ copy = [h \in Handlers |-> Nobody]
  /\ todo = [h \in Handlers |-> {}] /\ found = [h \in Handlers |-> {}]
  /\ down = "none"
  /\ deletes = {} /\ failed = {} /\ missed = [h \in Handlers |-> {}]

Next == (\E h \in Handlers : Arrive(h) \/ Step(h)) \/ Terminating

Spec == Init /\ [][Next]_vars

-----------------------------------------------------------------------------
(* What is checked *)

Labels == {"idle", "in", "category", "brand", "subs", "delete", "find", "save",
           "preload", "convert",
           "ok", "error", "dead"}

\* Every table is a sequence of rows of its shape and every handler is at a
\* label of its operation's code.
TypeOK ==
  /\ repaired \in BOOLEAN
  /\ rows \in [Tables -> Seq(Row)]
  /\ pc \in [Handlers -> Labels]
  /\ req \in [Handlers -> Request]
  /\ copy \in [Handlers -> Row]
  /\ todo \in [Handlers -> SUBSET Nat] /\ found \in [Handlers -> SUBSET Nat]
  /\ down \in Operation
  /\ missed \in [Handlers -> SUBSET (Tables \X Nat)]
  /\ deletes \subseteq Tables \X Nat /\ failed \subseteq Tables \X Nat

\* A product or category-brand pair refers to a category and a brand that were
\* inserted once (categoryBrand.go:68-76, product.go:83-91): whatever deletes
\* come between the two lookups and the insert, the rows are there, if deleted.
RefsExist ==
  \A t \in Refs : \A i \in DOMAIN rows[t] :
    /\ rows[t][i].category \in DOMAIN rows["category"]
    /\ rows[t][i].brand \in DOMAIN rows["brand"]

\* A product or category-brand pair is inserted over a deleted category or brand
\* only when the delete came between the request's arrival and its insert
\* (categoryBrand.go:68-76, product.go:83-91): one that was gone is not found.
RefsAreFresh ==
  [][\A t \in Refs : Len(rows'[t]) > Len(rows[t]) =>
       \E h \in Handlers :
         /\ pc[h] = "save" /\ rows'[t] = Append(rows[t], Reference(h))
         /\ req[h].category \in Live("category") \/ <<"category", req[h].category>> \in missed[h]
         /\ req[h].brand \in Live("brand") \/ <<"brand", req[h].brand>> \in missed[h]]_vars

\* In the repaired code the two lists over references (product.go:66,
\* categoryBrand.go:21-26) end the process only because somebody deleted a
\* category or brand that a row refers to, or because a Preload failed.
ListsSurvive ==
  (repaired /\ down \in {"ProductList", "CategoryBrandList"}) =>
    \/ \E t \in Refs : \E i \in DOMAIN rows[t] :
         \/ <<"category", rows[t][i].category>> \in deletes
         \/ <<"brand", rows[t][i].brand>> \in deletes
    \/ down = "CategoryBrandList" /\ \E i \in DOMAIN rows["pcb"] : <<"pcb", i>> \in failed

\* A deleted row comes back only by the full-row Save (brand.go:95,
\* advertise.go:64, category.go:123) of an update that overlapped the delete:
\* it had read the row while it was live.
RevivedByOverlap ==
  [][\A t \in Tables : \A i \in DOMAIN rows[t] :
       (~rows[t][i].live /\ rows'[t][i].live) =>
         \E h \in Handlers :
           /\ pc[h] = "save" /\ req[h].id = i /\ copy[h].live
           /\ <<t, i>> \in deletes]_vars

\* DeleteCategory that answers OK (category.go:88-105) has deleted the category
\* and every subcategory it listed, but for a DELETE that failed unnoticed.
DeleteIsComplete ==
  \A h \in Handlers :
    (pc[h] = "ok" /\ req[h].op = "DeleteCategory") =>
      \A c \in found[h] \cup {req[h].id} : <<"category", c>> \in deletes \cup failed

\* While the int32 product does not wrap, the pages of one size (db.go:52-66)
\* hand every live brand out exactly once.
PagesTile ==
  \A size \in -1..MaxPage + 1 :
    LET Exact == {p \in 1..Len(rows["brand"]) + 1 : PageSize(size) * (p - 1) < IntLimit}
    IN  PageSize(size) * Len(rows["brand"]) < IntLimit =>
          \A i \in Live("brand") : \E p \in Exact :
            /\ i \in Listed("brand", p, size)
            /\ \A q \in Exact \ {p} : i \notin Listed("brand", q, size)
=============================================================================
