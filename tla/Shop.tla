-------------------------------- MODULE Shop --------------------------------
(***************************************************************************)
(* The pages of the shop before checkout: the endless list of a category   *)
(* (Category.tsx, useProducts.ts, useInfiniteScroll.ts), its quick-add     *)
(* dialog (ProductDetailModal.tsx), the page of a product, the cart and    *)
(* what shows it, the favourites and the notifications.                    *)
(***************************************************************************)
EXTENDS StoreClient, Folds, Lists

CONSTANTS Products, NoProduct,
          Catalogue,   \* the products of a filter, in order; a page holds one
          SkuOf,       \* the variants of a product: specs, stock and picture
          MediaOf,     \* the pictures and videos of a product, the main one last
          NoPicture,
          Bought,      \* the products the customer may review
          MaxQty,      \* bound: of one item
          NoVal,       \* a spec that is not chosen
          Notices      \* the notifications, in order; a page holds one

ASSUME ShopAssumption ==
  /\ NoProduct \notin Products /\ DOMAIN SkuOf = Products /\ DOMAIN MediaOf = Products
  /\ DOMAIN Catalogue # {} /\ \A f \in DOMAIN Catalogue : Catalogue[f] \in Seq(Products) /\ IsInjective(Catalogue[f])
  /\ \A p \in Products : \A sku \in SkuOf[p] : sku.stock \in Nat /\ NoVal \notin {sku.spec[g] : g \in DOMAIN sku.spec}

Filters == DOMAIN Catalogue
PageOfList(seq, n) == IF n \in DOMAIN seq THEN <<seq[n]>> ELSE <<>>

(***************************************************************************)
(* The endless list.  gen is the generation of the filter: what an older   *)
(* one asked for is thrown away.                                           *)
(***************************************************************************)
BlankList ==
  [filter |-> CHOOSE f \in Filters : TRUE, gen |-> 1, page |-> 1, products |-> <<>>, total |-> 0, busy |-> FALSE, trig |-> FALSE,
   loading |-> TRUE, more |-> FALSE, error |-> FALSE, first |-> 0, favs |-> {}, favBusy |-> NoProduct]
fetchPage(s, n) == Send(s, [Call("list", [filter |-> s.ui.filter, page |-> n]) EXCEPT !.gen = s.ui.gen])
(* The URL chooses another category, text or price range: back to the first page. *)
ChangeFilter ==
  /\ screen = "list" /\ Room(1)
  /\ \E f \in Filters \ {ui.filter} :
       Op(fetchPage([Here EXCEPT !.ui.filter = f, !.ui.gen = @ + 1, !.ui.busy = FALSE,
                                 !.ui.loading = TRUE, !.ui.more = FALSE, !.ui.error = FALSE], 1))
hasMore == Len(ui.products) < ui.total
(* The sentinel comes into view: loadMore, once until loading ends. *)
Intersect ==
  /\ screen = "list" /\ Room(1) /\ hasMore /\ ~ui.loading /\ ~ui.more /\ ~ui.trig
  /\ Op(IF ui.busy THEN [Here EXCEPT !.ui.trig = TRUE]
        ELSE fetchPage([Here EXCEPT !.ui.trig = TRUE, !.ui.busy = TRUE, !.ui.more = TRUE], ui.page + 1))
\* Mutant of ListLoaded: an answer counts whatever the filter is by then.
ListLoadedAnyway(s, c) ==
  LET fresh == Kept(c.got.items, ToSet(c.got.items) \ ToSet(s.ui.products))
      t == [s EXCEPT !.ui.loading = FALSE, !.ui.busy = FALSE, !.ui.more = FALSE, !.ui.trig = FALSE]
  IN  IF c.st = "no" THEN [t EXCEPT !.ui.error = TRUE]
      ELSE IF c.arg.page = 1 THEN [t EXCEPT !.ui.products = c.got.items, !.ui.total = c.got.total, !.ui.page = 1, !.ui.first = s.ui.gen]
      ELSE [t EXCEPT !.ui.products = @ \o fresh, !.ui.total = c.got.total, !.ui.page = c.arg.page]
(* The first page replaces the list and a later one is added to it, without what it
   holds; the end of any later page frees the lock, also of an older generation. *)
ListLoaded(s, c) ==
  LET mine == c.gen = s.ui.gen
      fresh == Kept(c.got.items, ToSet(c.got.items) \ ToSet(s.ui.products))
      t == IF c.arg.page = 1 THEN IF mine THEN [s EXCEPT !.ui.loading = FALSE, !.ui.trig = FALSE] ELSE s
           ELSE [s EXCEPT !.ui.busy = FALSE, !.ui.more = FALSE, !.ui.trig = @ /\ s.ui.loading]
  IN  IF ~mine THEN t
      ELSE IF c.st = "no" THEN [t EXCEPT !.ui.error = TRUE]
      ELSE IF c.arg.page = 1 THEN [t EXCEPT !.ui.products = c.got.items, !.ui.total = c.got.total, !.ui.page = 1, !.ui.first = s.ui.gen]
      ELSE [t EXCEPT !.ui.products = @ \o fresh, !.ui.total = c.got.total, !.ui.page = c.arg.page]

(* A heart is turned at once and turned back when the server refuses. *)
Turned(favs, p, on) == IF on THEN favs \cup {p} ELSE favs \ {p}
toggleFavorite ==
  /\ screen = "list" /\ Room(1)
  /\ \E p \in ToSet(ui.products) \ {ui.favBusy} :
       LET on == p \notin ui.favs
       IN  Op(Send([Here EXCEPT !.ui.favs = Turned(@, p, on), !.ui.favBusy = p], Call(IF on THEN "like" ELSE "unlike", p)))
FavoriteTurned(s, c) ==
  LET t == [s EXCEPT !.ui.favBusy = NoProduct]
  IN  IF c.st = "ok" THEN t ELSE [t EXCEPT !.ui.favs = Turned(@, c.arg, c.op = "unlike")]

ListNext == ChangeFilter \/ Intersect \/ toggleFavorite
ListOffers == IF ui.products = <<>> THEN {"filter"} ELSE {"filter", "heart", "quickAdd", "open"}

(***************************************************************************)
(* The quick-add dialog: every spec has to be chosen by hand.              *)
(***************************************************************************)
BlankDialog == [at |-> NoProduct, seq |-> 0, detail |-> NoProduct, spec |-> <<>>, qty |-> 1, shot |-> 1, adding |-> FALSE,
                loading |-> FALSE, error |-> FALSE, fav |-> FALSE, favLoading |-> FALSE]
isSkuSellable(sku) == sku.stock > 0
(* The gallery: each picture once, the videos before the images. *)
isVideo(m) == m.kind = "video"
Deduplicated(media) == FoldLeft(LAMBDA seen, m : IF m \in ToSet(seen) THEN seen ELSE Append(seen, m), <<>>, media)
VideosFirst(media) == SelectSeq(media, isVideo) \o SelectSeq(media, LAMBDA m : ~isVideo(m))
collectGallery(p) == VideosFirst(Deduplicated(MediaOf[p]))
deriveSpecGroups(p) == UNION {DOMAIN sku.spec : sku \in SkuOf[p]}
Unchosen(p) == [g \in deriveSpecGroups(p) |-> NoVal]
isSpecValueAvailable(p, spec, g, v) == \E sku \in SkuOf[p] :
  /\ isSkuSellable(sku) /\ sku.spec[g] = v
  /\ \A k \in DOMAIN spec \ {g} : spec[k] \in {NoVal, sku.spec[k]}
(* Specs that the others have made impossible are taken back. *)
Cleaned(p, spec) == [g \in DOMAIN spec |-> IF spec[g] # NoVal /\ ~isSpecValueAvailable(p, spec, g, spec[g]) THEN NoVal ELSE spec[g]]
SkuMatching(p, spec) == {sku \in SkuOf[p] : sku.spec = spec}
(* In the dialog the picture of the chosen variant stands before the product's. *)
collectImages(p, spec) ==
  LET own == SetToSeq({[kind |-> "image", src |-> sku.image] : sku \in SkuMatching(p, spec)} \ {[kind |-> "image", src |-> NoPicture]})
  IN  VideosFirst(Deduplicated(own \o MediaOf[p]))
DialogOpens(s, p) ==
  Get([s EXCEPT !.ui = [BlankDialog EXCEPT !.at = p, !.seq = s.ui.seq + 1, !.loading = TRUE,
                                       !.favLoading = s.ui.favLoading]],
      [Call("detail", p) EXCEPT !.gen = s.ui.seq + 1])
openQuickAdd == screen = "dialog" /\ ui.at = NoProduct /\ Room(1) /\ \E p \in Products : Op(DialogOpens(Here, p))
(* Closing gives up the timer that would close it. *)
Shut(s) == [s EXCEPT !.ui.at = NoProduct, !.ui.adding = FALSE]
closeQuickAdd == screen = "dialog" /\ ui.at # NoProduct /\ Do(Shut(Here))
\* Mutant of DialogLoaded: the cleanup of an opening that ended is forgotten.
DialogLoadedLate(s, c) ==
  IF c.st = "no" THEN [s EXCEPT !.ui.error = TRUE, !.ui.loading = FALSE]
  ELSE Get([s EXCEPT !.ui.detail = c.arg, !.ui.spec = Unchosen(c.arg), !.ui.loading = FALSE], [Call("favs", 1) EXCEPT !.gen = c.gen])
(* What an opening that ended asked for is ignored; the hearts are read behind. *)
DialogLoaded(s, c) ==
  IF s.ui.at = NoProduct \/ c.gen # s.ui.seq THEN s
  ELSE IF c.st = "no" THEN [s EXCEPT !.ui.error = TRUE, !.ui.loading = FALSE]
  ELSE Get([s EXCEPT !.ui.detail = c.arg, !.ui.spec = Unchosen(c.arg)], [Call("favs", 1) EXCEPT !.gen = c.gen])
DialogHearts(s, c) ==
  IF s.ui.at = NoProduct \/ c.gen # s.ui.seq THEN s
  ELSE [s EXCEPT !.ui.loading = FALSE, !.ui.fav = IF c.st = "ok" THEN s.ui.at \in c.got ELSE @]
Seen == ui.at # NoProduct /\ ~ui.loading /\ ~ui.error /\ ui.detail # NoProduct
allSpecsSelected == \A g \in DOMAIN ui.spec : ui.spec[g] # NoVal
Stock == FoldSet(LAMBDA sku, n : n + sku.stock, 0, SkuMatching(ui.detail, ui.spec))
canAddToCart == \E sku \in SkuMatching(ui.detail, ui.spec) : isSkuSellable(sku)
DialogOffers ==
  IF ~Seen THEN {}
  ELSE {"spec"} \cup (IF canAddToCart /\ ~ui.adding THEN {"add"} ELSE {}) \cup (IF ui.favLoading THEN {} ELSE {"heart"})
       \cup (IF ui.qty > 1 /\ ~ui.adding THEN {"less"} ELSE {})
       \cup (IF ~ui.adding /\ ~(allSpecsSelected /\ Stock > 0 /\ ui.qty >= Stock) THEN {"more"} ELSE {})
ThumbOffers == IF ~Seen THEN {} ELSE LET n == Len(collectImages(ui.detail, ui.spec)) IN IF n > 1 THEN 1..n ELSE {}
PickThumb == screen = "dialog" /\ \E i \in ThumbOffers \ {ui.shot} : Do([Here EXCEPT !.ui.shot = i])
(* A value that is pressed again is taken back; another variant starts at its first
   picture. *)
PickSpec ==
  /\ screen = "dialog" /\ "spec" \in DialogOffers
  /\ \E g \in DOMAIN ui.spec : \E v \in {sku.spec[g] : sku \in SkuOf[ui.detail]} :
       /\ isSpecValueAvailable(ui.detail, ui.spec, g, v)
       /\ LET spec == Cleaned(ui.detail, [ui.spec EXCEPT ![g] = IF @ = v THEN NoVal ELSE v])
          IN  Do([Here EXCEPT !.ui.spec = spec, !.ui.shot = IF SkuMatching(ui.detail, spec) = SkuMatching(ui.detail, ui.spec) THEN @ ELSE 1])
StepQty == /\ screen = "dialog"
           /\ \/ "less" \in DialogOffers /\ Do([Here EXCEPT !.ui.qty = @ - 1])
              \/ "more" \in DialogOffers /\ ui.qty < MaxQty /\ Do([Here EXCEPT !.ui.qty = @ + 1])
(* The add is not waited for: the dialog says it is done and closes after a while. *)
DialogAdd ==
  /\ screen = "dialog" /\ "add" \in DialogOffers /\ Room(1)
  /\ \E sku \in SkuMatching(ui.detail, ui.spec) :
       Op(Send([Here EXCEPT !.ui.adding = TRUE], Call("add", [of |-> ui.detail, sku |-> sku, qty |-> ui.qty])))
DialogCloses == screen = "dialog" /\ ui.adding /\ Do(Shut(Here))
DialogHeart ==
  /\ screen = "dialog" /\ "heart" \in DialogOffers /\ Room(1)
  /\ Op(Send([Here EXCEPT !.ui.favLoading = TRUE, !.ui.fav = ~@], [Call(IF ui.fav THEN "unlike" ELSE "like", ui.at) EXCEPT !.gen = ui.seq]))
(* The answer turns the heart that is shown, of whichever product it is by then. *)
DialogTurned(s, c) == [s EXCEPT !.ui.favLoading = FALSE, !.ui.fav = IF c.st = "no" THEN c.op = "unlike" ELSE @]
DialogNext == openQuickAdd \/ closeQuickAdd \/ PickThumb \/ PickSpec \/ StepQty \/ DialogAdd \/ DialogCloses \/ DialogHeart

(***************************************************************************)
(* The page of a product.  Its id is in the URL; an answer is taken        *)
(* whichever product it is of.                                             *)
(***************************************************************************)
BlankProduct(p) == [id |-> p, shown |-> NoProduct, loading |-> TRUE, spec |-> <<>>, qty |-> 1, shot |-> 1, msg |-> "none", adding |-> {},
                    fav |-> FALSE, favLoading |-> FALSE, review |-> FALSE]
FirstSku(p) == CHOOSE sku \in SkuOf[p] : TRUE
(* A choice without a variant stands for the first one. *)
selectedSku == IF SkuMatching(ui.shown, ui.spec) = {} THEN FirstSku(ui.shown) ELSE CHOOSE sku \in SkuMatching(ui.shown, ui.spec) : TRUE
ProductOpens(s, p) ==
  Get(Get([s EXCEPT !.ui.id = p, !.ui.loading = TRUE], Call("detail", p)), [Call("favs", 1) EXCEPT !.gen = p])
ProductLoaded(s, c) ==
  LET t == [s EXCEPT !.ui.loading = FALSE]
  IN  IF c.st = "no" THEN [t EXCEPT !.ui.shown = NoProduct]
      ELSE [t EXCEPT !.ui.shown = c.arg, !.ui.spec = FirstSku(c.arg).spec]
Opened == ~ui.loading /\ ui.shown # NoProduct
QtyLimit == IF isSkuSellable(selectedSku) THEN selectedSku.stock ELSE 99
GalleryOffers == IF ~Opened \/ Len(collectGallery(ui.shown)) <= 1 THEN {} ELSE 1..Len(collectGallery(ui.shown))
BuyOffers ==
  IF ~Opened THEN {}
  ELSE {"spec", "support"} \cup (IF isSkuSellable(selectedSku) THEN {"add"} ELSE {}) \cup (IF ui.favLoading THEN {} ELSE {"heart"})
       \cup (IF ui.qty > 1 THEN {"less"} ELSE {}) \cup (IF ui.qty < QtyLimit THEN {"more"} ELSE {})
ReviewOffers == IF Opened /\ ui.id \in Bought THEN {"review"} ELSE {}
(* A variant that is being added already is not added again (CartContext.tsx), and
   the page says that it was. *)
handleAddToCart ==
  /\ screen = "product" /\ "add" \in BuyOffers /\ Room(1)
  /\ LET item == [of |-> ui.shown, sku |-> selectedSku, qty |-> ui.qty]
         out == \E a \in ui.adding : a.sku = item.sku /\ a.of = item.of
     IN  IF out THEN Do([Here EXCEPT !.ui.msg = "added"])
         ELSE Op(Send([Here EXCEPT !.ui.adding = @ \cup {item}], Call("add", item)))
handleToggleFavorite ==
  /\ screen = "product" /\ "heart" \in BuyOffers /\ Room(1)
  /\ Op(Send([Here EXCEPT !.ui.favLoading = TRUE], Call(IF ui.fav THEN "unlike" ELSE "like", ui.id)))
handleSubmitReview == screen = "product" /\ "review" \in ReviewOffers /\ Room(1) /\ Op(Send(Here, Call("review", ui.id)))
ProductNext ==
  /\ screen = "product"
  /\ \/ Room(2) /\ \E p \in Products \ {ui.id} : Op(ProductOpens(Here, p))
     \/ \E i \in GalleryOffers \ {ui.shot} : Do([Here EXCEPT !.ui.shot = i])
     \/ /\ "spec" \in BuyOffers
        /\ \E g \in DOMAIN ui.spec : \E v \in {sku.spec[g] : sku \in SkuOf[ui.shown]} \ {ui.spec[g]} : Do([Here EXCEPT !.ui.spec[g] = v])
     \/ "less" \in BuyOffers /\ Do([Here EXCEPT !.ui.qty = @ - 1])
     \/ "more" \in BuyOffers /\ ui.qty < MaxQty /\ Do([Here EXCEPT !.ui.qty = @ + 1])
     \/ handleAddToCart \/ handleToggleFavorite \/ handleSubmitReview
     \/ ui.msg # "none" /\ Do([Here EXCEPT !.ui.msg = "none"])
ProductReply(s, c) ==
  IF c.op = "detail" THEN ProductLoaded(s, c)
  ELSE IF c.op = "favs" THEN IF c.st = "ok" THEN [s EXCEPT !.ui.fav = c.gen \in c.got] ELSE s
  ELSE IF c.op = "add" THEN [s EXCEPT !.ui.adding = @ \ {c.arg}, !.ui.msg = IF c.st = "ok" THEN "added" ELSE "failed"]
  ELSE IF c.op = "review" THEN [s EXCEPT !.ui.review = c.st = "ok"]
  ELSE [s EXCEPT !.ui.favLoading = FALSE, !.ui.fav = IF c.st = "ok" THEN c.op = "like" ELSE @]
==============================================================================
