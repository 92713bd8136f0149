-------------------------------- MODULE Rpc ---------------------------------
(***************************************************************************)
(* How a unary call finds its method: the client's stub sends the full name *)
(* of a method and an encoded request; the server looks the service and the *)
(* method up in the ServiceDescs registered with it, the handler decodes    *)
(* the request into its own type and calls the service (_grpc.pb.go files). *)
(***************************************************************************)
EXTENDS Wire
Copies == INSTANCE WireCopies

\* A stub or a method of a service; a handler and the type it decodes into.
Stub(method, in, out) == [method |-> method, in |-> in, out |-> out]
Handler(method, in) == [method |-> method, in |-> in]

\* ProductService: product_web and product_srv.
ProductPaths ==
    {"ProductList", "BatchGetProduct", "CreateProduct", "DeleteProduct",
     "UpdateProduct", "GetProductDetail", "GetAllCategoryList",
     "GetSubCategory", "CreateCategory", "DeleteCategory", "UpdateCategory",
     "BrandList", "CreateBrand", "DeleteBrand", "UpdateBrand", "AdvertiseLIst",
     "CreateAdvertise", "DeleteAdvertise", "UpdateAdvertise",
     "CategoryBrandList", "GetCategoryBrandList", "CreateCategoryBrand",
     "DeleteCategoryBrand", "UpdateCategoryBrand"}
ProductStubs1 ==
    {Stub("ProductList", "ProductionConditionReq", "ProductRes"),
     Stub("BatchGetProduct", "BatchProductIdReq", "ProductRes"),
     Stub("CreateProduct", "CreateProductItem", "ProductItemRes"),
     Stub("DeleteProduct", "DeleteProductItem", "Empty"),
     Stub("UpdateProduct", "CreateProductItem", "Empty"),
     Stub("GetProductDetail", "ProductItemReq", "ProductItemRes"),
     Stub("GetAllCategoryList", "Empty", "CategoriesRes"),
     Stub("GetSubCategory", "CategoriesReq", "SubCategoriesRes"),
     Stub("CreateCategory", "CategoryItemReq", "CategoryItemRes"),
     Stub("DeleteCategory", "CategoryDelReq", "Empty"),
     Stub("UpdateCategory", "CategoryItemReq", "Empty"),
     Stub("BrandList", "BrandPagingReq", "BrandRes")}
ProductStubs2 ==
    {Stub("CreateBrand", "BrandItemReq", "BrandItemRes"),
     Stub("DeleteBrand", "BrandItemReq", "Empty"),
     Stub("UpdateBrand", "BrandItemReq", "Empty"),
     Stub("AdvertiseLIst", "Empty", "AdvertiseRes"),
     Stub("CreateAdvertise", "AdvertiseReq", "AdvertiseItemRes"),
     Stub("DeleteAdvertise", "AdvertiseReq", "Empty"),
     Stub("UpdateAdvertise", "AdvertiseReq", "Empty"),
     Stub("CategoryBrandList", "PagingReq", "CateGoryBrandListRes"),
     Stub("GetCategoryBrandList", "CategoryItemReq", "BrandRes"),
     Stub("CreateCategoryBrand", "CategoryBrandReq", "CategoryBrandRes"),
     Stub("DeleteCategoryBrand", "CategoryBrandReq", "Empty"),
     Stub("UpdateCategoryBrand", "CategoryBrandReq", "Empty")}
ProductStubs == ProductStubs1 \cup ProductStubs2
ProductServer ==
    {Stub("ProductList", "ProductionConditionReq", "ProductRes"),
     Stub("BatchGetProduct", "BatchProductIdReq", "ProductRes"),
     Stub("CreateProduct", "CreateProductItem", "ProductItemRes"),
     Stub("DeleteProduct", "DeleteProductItem", "Empty"),
     Stub("UpdateProduct", "CreateProductItem", "Empty"),
     Stub("GetProductDetail", "ProductItemReq", "ProductItemRes"),
     Stub("GetAllCategoryList", "Empty", "CategoriesRes"),
     Stub("GetSubCategory", "CategoriesReq", "SubCategoriesRes"),
     Stub("CreateCategory", "CategoryItemReq", "CategoryItemRes"),
     Stub("DeleteCategory", "CategoryDelReq", "Empty"),
     Stub("UpdateCategory", "CategoryItemReq", "Empty"),
     Stub("BrandList", "BrandPagingReq", "BrandRes"),
     Stub("CreateBrand", "BrandItemReq", "BrandItemRes"),
     Stub("DeleteBrand", "BrandItemReq", "Empty"),
     Stub("UpdateBrand", "BrandItemReq", "Empty"),
     Stub("AdvertiseLIst", "Empty", "AdvertiseRes"),
     Stub("CreateAdvertise", "AdvertiseReq", "AdvertiseItemRes"),
     Stub("DeleteAdvertise", "AdvertiseReq", "Empty"),
     Stub("UpdateAdvertise", "AdvertiseReq", "Empty"),
     Stub("CategoryBrandList", "PagingReq", "CateGoryBrandListRes"),
     Stub("GetCategoryBrandList", "CategoryItemReq", "BrandRes"),
     Stub("CreateCategoryBrand", "CategoryBrandReq", "CategoryBrandRes"),
     Stub("DeleteCategoryBrand", "CategoryBrandReq", "Empty"),
     Stub("UpdateCategoryBrand", "CategoryBrandReq", "Empty")}
ProductHandlers1 ==
    {Handler("ProductList", "ProductionConditionReq"),
     Handler("BatchGetProduct", "BatchProductIdReq"),
     Handler("CreateProduct", "CreateProductItem"),
     Handler("DeleteProduct", "DeleteProductItem"),
     Handler("UpdateProduct", "CreateProductItem"),
     Handler("GetProductDetail", "ProductItemReq"),
     Handler("GetAllCategoryList", "Empty"),
     Handler("GetSubCategory", "CategoriesReq")}
ProductHandlers2 ==
    {Handler("CreateCategory", "CategoryItemReq"),
     Handler("DeleteCategory", "CategoryDelReq"),
     Handler("UpdateCategory", "CategoryItemReq"),
     Handler("BrandList", "BrandPagingReq"),
     Handler("CreateBrand", "BrandItemReq"),
     Handler("DeleteBrand", "BrandItemReq"),
     Handler("UpdateBrand", "BrandItemReq"),
     Handler("AdvertiseLIst", "Empty")}
ProductHandlers3 ==
    {Handler("CreateAdvertise", "AdvertiseReq"),
     Handler("DeleteAdvertise", "AdvertiseReq"),
     Handler("UpdateAdvertise", "AdvertiseReq"),
     Handler("CategoryBrandList", "PagingReq"),
     Handler("GetCategoryBrandList", "CategoryItemReq"),
     Handler("CreateCategoryBrand", "CategoryBrandReq"),
     Handler("DeleteCategoryBrand", "CategoryBrandReq"),
     Handler("UpdateCategoryBrand", "CategoryBrandReq")}
ProductHandlers == ProductHandlers1 \cup ProductHandlers2 \cup ProductHandlers3
ProductDesc ==
    {"ProductList", "BatchGetProduct", "CreateProduct", "DeleteProduct",
     "UpdateProduct", "GetProductDetail", "GetAllCategoryList",
     "GetSubCategory", "CreateCategory", "DeleteCategory", "UpdateCategory",
     "BrandList", "CreateBrand", "DeleteBrand", "UpdateBrand", "AdvertiseLIst",
     "CreateAdvertise", "DeleteAdvertise", "UpdateAdvertise",
     "CategoryBrandList", "GetCategoryBrandList", "CreateCategoryBrand",
     "DeleteCategoryBrand", "UpdateCategoryBrand"}
\* The client in the order service's module, from a file of its own.
OrderProductPaths ==
    {"ProductList", "BatchGetProduct", "CreateProduct", "DeleteProduct",
     "UpdateProduct", "GetProductDetail", "GetAllCategoryList",
     "GetSubCategory", "CreateCategory", "DeleteCategory", "UpdateCategory",
     "BrandList", "CreateBrand", "DeleteBrand", "UpdateBrand", "AdvertiseLIst",
     "CreateAdvertise", "DeleteAdvertise", "UpdateAdvertise",
     "CategoryBrandList", "GetCategoryBrandList", "CreateCategoryBrand",
     "DeleteCategoryBrand", "UpdateCategoryBrand"}
OrderProductStubs1 ==
    {Stub("ProductList", "ProductionConditionReq", "ProductRes"),
     Stub("BatchGetProduct", "BatchProductIdReq", "ProductRes"),
     Stub("CreateProduct", "CreateProductItem", "ProductItemRes"),
     Stub("DeleteProduct", "DeleteProductItem", "Empty"),
     Stub("UpdateProduct", "CreateProductItem", "Empty"),
     Stub("GetProductDetail", "ProductItemReq", "ProductItemRes"),
     Stub("GetAllCategoryList", "Empty", "CategoriesRes"),
     Stub("GetSubCategory", "CategoriesReq", "SubCategoriesRes"),
     Stub("CreateCategory", "CategoryItemReq", "CategoryItemRes"),
     Stub("DeleteCategory", "CategoryDelReq", "Empty"),
     Stub("UpdateCategory", "CategoryItemReq", "Empty"),
     Stub("BrandList", "BrandPagingReq", "BrandRes")}
OrderProductStubs2 ==
    {Stub("CreateBrand", "BrandItemReq", "BrandItemRes"),
     Stub("DeleteBrand", "BrandItemReq", "Empty"),
     Stub("UpdateBrand", "BrandItemReq", "Empty"),
     Stub("AdvertiseLIst", "Empty", "AdvertiseRes"),
     Stub("CreateAdvertise", "AdvertiseReq", "AdvertiseItemRes"),
     Stub("DeleteAdvertise", "AdvertiseReq", "Empty"),
     Stub("UpdateAdvertise", "AdvertiseReq", "Empty"),
     Stub("CategoryBrandList", "PagingReq", "CateGoryBrandListRes"),
     Stub("GetCategoryBrandList", "CategoryItemReq", "BrandRes"),
     Stub("CreateCategoryBrand", "CategoryBrandReq", "CategoryBrandRes"),
     Stub("DeleteCategoryBrand", "CategoryBrandReq", "Empty"),
     Stub("UpdateCategoryBrand", "CategoryBrandReq", "Empty")}

\* StockService: the order service and stock_srv.
StockPaths ==
    {"SetStock", "StockDetail", "Sell", "BackStock"}
StockStubs ==
    {Stub("SetStock", "ProductStockItem", "Empty"),
     Stub("StockDetail", "ProductStockItem", "ProductStockItem"),
     Stub("Sell", "SellItem", "Empty"),
     Stub("BackStock", "SellItem", "Empty")}
StockServer ==
    {Stub("SetStock", "ProductStockItem", "Empty"),
     Stub("StockDetail", "ProductStockItem", "ProductStockItem"),
     Stub("Sell", "SellItem", "Empty"),
     Stub("BackStock", "SellItem", "Empty")}
StockHandlers ==
    {Handler("SetStock", "ProductStockItem"),
     Handler("StockDetail", "ProductStockItem"),
     Handler("Sell", "SellItem"),
     Handler("BackStock", "SellItem")}
StockDesc ==
    {"SetStock", "StockDetail", "Sell", "BackStock"}

\* ShopCartService and OrderService: cartorder_web and cartorder_srv.
ShopCartPaths ==
    {"ShopCartItemList", "AddShopCartItem", "DeleteShopCart",
     "UpdateShopCartItem"}
ShopCartStubs ==
    {Stub("ShopCartItemList", "AccountReq", "CartItemListRes"),
     Stub("AddShopCartItem", "ShopCartReq", "CartItemRes"),
     Stub("DeleteShopCart", "DelShopCartItem", "Empty"),
     Stub("UpdateShopCartItem", "ShopCartReq", "Empty")}
ShopCartServer ==
    {Stub("ShopCartItemList", "AccountReq", "CartItemListRes"),
     Stub("AddShopCartItem", "ShopCartReq", "CartItemRes"),
     Stub("DeleteShopCart", "DelShopCartItem", "Empty"),
     Stub("UpdateShopCartItem", "ShopCartReq", "Empty")}
ShopCartHandlers ==
    {Handler("ShopCartItemList", "AccountReq"),
     Handler("AddShopCartItem", "ShopCartReq"),
     Handler("DeleteShopCart", "DelShopCartItem"),
     Handler("UpdateShopCartItem", "ShopCartReq")}
ShopCartDesc ==
    {"ShopCartItemList", "AddShopCartItem", "DeleteShopCart",
     "UpdateShopCartItem"}
OrderPaths ==
    {"CreateOrder", "OrderList", "OrderDetail", "ChangeOrderStatus"}
OrderStubs ==
    {Stub("CreateOrder", "OrderItemReq", "OrderItemRes"),
     Stub("OrderList", "OrderPagingReq", "OrderListRes"),
     Stub("OrderDetail", "OrderItemReq", "OrderItemDetailRes"),
     Stub("ChangeOrderStatus", "OrderStatus", "Empty")}
OrderServer ==
    {Stub("CreateOrder", "OrderItemReq", "OrderItemRes"),
     Stub("OrderList", "OrderPagingReq", "OrderListRes"),
     Stub("OrderDetail", "OrderItemReq", "OrderItemDetailRes"),
     Stub("ChangeOrderStatus", "OrderStatus", "Empty")}
OrderHandlers ==
    {Handler("CreateOrder", "OrderItemReq"),
     Handler("OrderList", "OrderPagingReq"),
     Handler("OrderDetail", "OrderItemReq"),
     Handler("ChangeOrderStatus", "OrderStatus")}
OrderDesc ==
    {"CreateOrder", "OrderList", "OrderDetail", "ChangeOrderStatus"}
-----------------------------------------------------------------------------
\* The services by name (the package prefix of the last two is left out).
Services ==
    [ProductService |->
        [desc |-> ProductDesc, handlers |-> ProductHandlers, methods |-> ProductServer],
     StockService |->
        [desc |-> StockDesc, handlers |-> StockHandlers, methods |-> StockServer],
     ShopCartService |->
        [desc |-> ShopCartDesc, handlers |-> ShopCartHandlers, methods |-> ShopCartServer],
     OrderService |->
        [desc |-> OrderDesc, handlers |-> OrderHandlers, methods |-> OrderServer]]
Service == DOMAIN Services

\* Who calls what, and what the caller's module has generated for it: the
\* client's stubs, the method names they send and the messages.
Calls == {<<"product_web", "ProductService">>, <<"cart", "ProductService">>,
          <<"cart", "StockService">>,
          <<"cart_web", "ShopCartService">>, <<"cart_web", "OrderService">>}
Client(stubs, paths, messages) ==
    [stubs |-> stubs, paths |-> paths, messages |-> messages]
Clients(c) ==
    CASE c = <<"product_web", "ProductService">> ->
            Client(ProductStubs, ProductPaths, Message)
      [] c = <<"cart", "ProductService">> ->
            Client(OrderProductStubs1 \cup OrderProductStubs2, OrderProductPaths,
                   Copies!Message)
      [] c = <<"cart", "StockService">> -> Client(StockStubs, StockPaths, Copies!Message)
      [] c = <<"cart_web", "ShopCartService">> ->
            Client(ShopCartStubs, ShopCartPaths, Message)
      [] c = <<"cart_web", "OrderService">> -> Client(OrderStubs, OrderPaths, Message)

\* What runs when a stub's call reaches a server that has s registered.
Runs(s, stub) ==
    {run \in Services[s].handlers \X Services[s].methods :
        /\ stub.method \in Services[s].desc
        /\ run[1].method = stub.method /\ run[2].method = stub.method}

\* A message, the messages within it, and those within these (no message of
\* the system nests deeper).
Within(table, m) ==
    LET Of(n) == {table[n][i].of : i \in DOMAIN table[n]} \ {""}
        In(S) == S \cup UNION {Of(n) : n \in S}
    IN  In(In({m}))

\* Of a message written as type m of one table, a reader with the other table
\* finds what was written: every field number means the same to both.
ReadsAlike(table, other, m) ==
    \A n \in Within(table, m) : n \in DOMAIN other /\ other[n] = table[n]

\* A fact about the files, evaluated by TLC: whatever the caller's module was
\* generated from, each of its stubs runs the one method that it names, and
\* both sides read each other's messages alike.
ASSUME FilesAgree ==
    \A c \in Calls : \A stub \in Clients(c).stubs :
        /\ stub.method \in Clients(c).paths
        /\ \E h \in Services[c[2]].handlers, m \in Services[c[2]].methods :
              /\ Runs(c[2], stub) = {<<h, m>>}
              /\ h.in = m.in /\ h.in = stub.in /\ m.out = stub.out
              /\ ReadsAlike(Clients(c).messages, Message, stub.in)
              /\ ReadsAlike(Message, Clients(c).messages, m.out)
=============================================================================
