----------------------------- MODULE MCStorefront -----------------------------
EXTENDS Storefront

MCCatalogue == [all |-> <<"mug", "lamp", "pen">>, light |-> <<"lamp">>]
Sku(spec, stock, image) == [spec |-> spec, stock |-> stock, image |-> image]
MCSkuOf == [mug |-> {Sku([size |-> "s"], 2, "none")},
            lamp |-> {Sku([size |-> "s", tint |-> "red"], 1, "red"),
                      Sku([size |-> "l", tint |-> "red"], 0, "red"),
                      Sku([size |-> "l", tint |-> "blue"], 2, "none")},
            pen |-> {Sku([size |-> "s"], 0, "none")}]
Shot(kind, src) == [kind |-> kind, src |-> src]
MCMediaOf == [mug |-> <<Shot("image", "front")>>, lamp |-> <<Shot("image", "front"), Shot("video", "spin"), Shot("image", "front")>>, pen |-> <<>>]
MCNotices == <<"n1", "n2", "n3">>
MCMatchOf == ("" :> <<"products", "orders">> @@ "po" :> <<"orders">>)
MCGalleryRows == [materials |-> {11, 12}, usecases |-> {21}]
MCPlatforms == <<"tiktok", "meta">>
MCScreens == {"list", "dialog", "product", "cart", "favorites", "notices", "checkout", "return", "mock", "order",
              "session", "console", "profile", "coupons", "share", "track", "forgot", "setPassword", "layout", "dashboard", "nav", "board", "gallery", "preview", "toasts", "lazy", "logo", "bar", "pictures", "elsewhere"}
MCCalls == [p \in MCScreens |-> CASE p = "list" -> 3 [] p = "dashboard" -> 4 [] p = "board" -> 6 [] OTHER -> 2]
MCOps == [p \in MCScreens |-> CASE p \in {"cart", "profile", "product", "session", "console"} -> 2 [] p = "layout" -> 1 [] OTHER -> 3]
MCEvents == [p \in MCScreens |-> CASE p \in {"return", "pictures"} -> 2 [] OTHER -> 1]
==============================================================================
