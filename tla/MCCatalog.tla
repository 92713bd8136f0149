----------------------------- MODULE MCCatalog -----------------------------
(* One row of everything, a subcategory, and every operation of the service. *)
EXTENDS Catalog

Ask(op) == [op |-> op, id |-> 0, name |-> NoName, level |-> 0, parent |-> 0,
            category |-> 0, brand |-> 0, page |-> 0, size |-> 0]
On(op, i) == [Ask(op) EXCEPT !.id = i]
Named(op, i, n) == [On(op, i) EXCEPT !.name = n]
With(op, c, b) == [On(op, 1) EXCEPT !.category = c, !.brand = b]

CONSTANT a                  \* a name

\* The lists, which change nothing.
Reads == {Ask("BrandList"), Ask("AdvertiseLIst"), Ask("GetAllCategoryList"),
          [On("GetSubCategory", 1) EXCEPT !.level = 2],
          On("GetCategoryBrandList", 1), Ask("CategoryBrandList"),
          [Ask("CategoryBrandList") EXCEPT !.page = 2, !.size = 1],
          Ask("ProductList"), With("ProductList", 1, 0),
          On("BatchGetProduct", 1), On("GetProductDetail", 1)}

Writes == {Named("CreateBrand", 0, a), On("DeleteBrand", 1), Named("UpdateBrand", 1, a),
           Ask("CreateAdvertise"), On("DeleteAdvertise", 1), Named("UpdateAdvertise", 1, a),
           [Ask("CreateCategory") EXCEPT !.level = 3, !.parent = 2],
           On("DeleteCategory", 1), On("DeleteCategory", 2),
           Named("UpdateCategory", 1, a), [On("UpdateCategory", 2) EXCEPT !.level = 3],
           [On("UpdateCategory", 2) EXCEPT !.parent = 2],
           With("CreateCategoryBrand", 2, 1), With("CreateCategoryBrand", 0, 1),
           On("DeleteCategoryBrand", 1), With("UpdateCategoryBrand", 2, 1),
           With("UpdateCategoryBrand", 2, 0),
           With("CreateProduct", 2, 1), With("CreateProduct", 2, 3), On("DeleteProduct", 1), With("UpdateProduct", 1, 1)}

\* A write with any other request (arriving first is not running first), and
\* one more that can meet what they left half done.
SomeRequests == [h \in Handlers |->
  CASE h = 1 -> Reads \cup Writes
    [] h = 2 -> Writes
    [] h = 3 -> {Ask("ProductList"), On("DeleteCategory", 1)}]

R(n, l, p, c, b) == [live |-> TRUE, name |-> n, level |-> l, parent |-> p,
                     category |-> c, brand |-> b]
SomeRows == [t \in Tables |->
  CASE t = "brand"     -> <<R(NoName, 0, 0, 0, 0)>>
    [] t = "category"  -> <<R(a, 1, 0, 0, 0), R(a, 2, 1, 0, 0)>>
    [] t = "product"   -> <<R(NoName, 0, 0, 2, 1)>>
    [] t = "pcb"       -> <<R(NoName, 0, 0, 1, 1)>>
    [] t = "advertise" -> <<R(NoName, 0, 0, 0, 0)>>]
=============================================================================
