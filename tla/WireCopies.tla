----------------------------- MODULE WireCopies -----------------------------
(***************************************************************************)
(* The messages of the product and stock services as the order service     *)
(* knows them: mic_part4 has product.pb.go and stock.pb.go of its own.      *)
(***************************************************************************)
EXTENDS WireFields

\* product.pb.go
CategoryBrandReq ==
    <<V("Id"), M("Brand", "BrandItemRes"), M("Category", "CategoryItemRes")>>
CateGoryBrandListRes == <<V("Total"), Many(M("ItemList", "CategoryBrandRes"))>>
CategoryBrandRes ==
    <<V("Id"), M("Brand", "BrandItemRes"), M("Category", "CategoryItemRes")>>
PagingReq == <<V("PageNo"), V("PageSize")>>
AdvertiseReq == <<V("Id"), V("Index"), B("Image"), B("Url")>>
AdvertiseRes == <<V("Total"), Many(M("ItemList", "AdvertiseItemRes"))>>
AdvertiseItemRes == <<V("Id"), V("Index"), B("Image"), B("Url")>>
BrandItemReq == <<V("Id"), B("Name"), B("Logo")>>
BrandPagingReq == <<V("PageNo"), V("PageSize")>>
BrandRes == <<V("Total"), Many(M("ItemList", "BrandItemRes"))>>
BrandItemRes == <<V("Id"), B("Name"), B("Logo")>>
CategoryDelReq == <<V("Id")>>
SubCategoriesRes ==
    <<V("Total"), M("Info", "CategoryItemRes"),
      Many(M("SubCategoryList", "CategoryItemRes")), B("CategoryJsonFormat")>>
CategoriesReq == <<V("Id"), V("Level")>>
CategoryItemReq == <<V("Id"), B("Name"), V("ParentCategoryId"), V("Level")>>
CategoriesRes ==
    <<V("Total"), Many(M("InfoResList", "CategoryItemRes")),
      B("CategoryJsonFormat")>>
CategoryItemRes == <<V("Id"), B("Name"), V("ParentCategoryId"), V("Level")>>
ProductItemReq == <<V("Id")>>
DeleteProductItem == <<V("Id")>>
ProductionConditionReq ==
    <<V("MinPrice"), V("MaxPrice"), V("IsPop"), V("IsNew"), V("CategoryId"),
      V("PageNo"), V("PageSize"), B("KeyWord"), V("BrandId")>>
ProductItemRes ==
    <<V("Id"), V("CategoryId"), V("BrandId"), B("Name"), B("Sn"), V("Stocks"),
      V("SoldNum"), V("FavNum"), F("Price"), F("RealPrice"), B("ShortDesc"),
      B("Desc"), Many(B("Images")), Many(B("DescImages")), B("CoverImage"),
      V("IsNew"), V("IsShipFree"), V("IsPop"), V("Selling"), V("AddTime"),
      M("Category", "CategoryItemRes"), M("Brand", "BrandItemRes")>>
ProductRes == <<V("Total"), Many(M("ItemLIst", "ProductItemRes"))>>
BatchProductIdReq == <<Many(V("Ids"))>>
CreateProductItem ==
    <<V("Id"), B("Name"), B("Sn"), V("Stocks"), F("Price"), F("RealPrice"),
      B("ShortDesc"), B("ProductDesc"), Many(B("Images")),
      Many(B("DescImages")), B("CoverImage"), V("IsNew"), V("IsPop"),
      V("Selling"), V("CategoryId"), V("BrandId"), V("FavNum"), V("SoldNum"),
      V("IsFree")>>
\* stock.pb.go
ProductStockItem == <<V("ProductId"), V("Num")>>
SellItem == <<Many(M("StockItemList", "ProductStockItem"))>>

Message ==
    [Empty |-> Empty, CategoryBrandReq |-> CategoryBrandReq,
     CateGoryBrandListRes |-> CateGoryBrandListRes,
     CategoryBrandRes |-> CategoryBrandRes, PagingReq |-> PagingReq,
     AdvertiseReq |-> AdvertiseReq, AdvertiseRes |-> AdvertiseRes,
     AdvertiseItemRes |-> AdvertiseItemRes, BrandItemReq |-> BrandItemReq,
     BrandPagingReq |-> BrandPagingReq, BrandRes |-> BrandRes,
     BrandItemRes |-> BrandItemRes, CategoryDelReq |-> CategoryDelReq,
     SubCategoriesRes |-> SubCategoriesRes, CategoriesReq |-> CategoriesReq,
     CategoryItemReq |-> CategoryItemReq, CategoriesRes |-> CategoriesRes,
     CategoryItemRes |-> CategoryItemRes, ProductItemReq |-> ProductItemReq,
     DeleteProductItem |-> DeleteProductItem,
     ProductionConditionReq |-> ProductionConditionReq,
     ProductItemRes |-> ProductItemRes, ProductRes |-> ProductRes,
     BatchProductIdReq |-> BatchProductIdReq,
     CreateProductItem |-> CreateProductItem,
     ProductStockItem |-> ProductStockItem, SellItem |-> SellItem]
=============================================================================
