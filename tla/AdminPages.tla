------------------------------ MODULE AdminPages ------------------------------
(***************************************************************************)
(* The administration console: one of its pages mounted, the server, the   *)
(* network and the caching client.                                         *)
(***************************************************************************)
EXTENDS AdminCatalog, AdminSales, AdminDesk

Api ==
  [brands |-> BrandApi, tags |-> TagApi, categories |-> CategoryApi, products |-> ProductApi,
   coupons |-> CouponApi, promo |-> PromoApi, orders |-> OrderApi, aftersales |-> AfterSaleApi,
   recycle |-> RecycleApi, notices |-> NoticeApi, email |-> EmailApi, ads |-> AdsApi]
Pages == DOMAIN Api

(* A page opened without a query shows the first page of everything. *)
ASSUME ViewsAssumption == \A p \in Pages : AllRows \in Views[p]

(* A history of amounts is no list that a save could drop. *)
Drops(op) == op \notin {"load", "detail"} /\ Invalidates(Api[page][op], Api[page]["load"])

Ui(p, v) ==
  IF p = "categories" THEN CategoriesUi
  ELSE IF p \in {"orders", "aftersales"} THEN OrdersUi(v)
  ELSE IF p = "recycle" THEN RecycleUi
  ELSE IF p = "email" THEN EmailUi
  ELSE IF p = "ads" THEN AdsUi
  ELSE BlankUi(v)

(* The statuses a page's rows may have when it is opened. *)
Starts(p) == IF p = "orders" THEN {"pending", "paid"} ELSE IF p = "aftersales" THEN {"review", "approved"} ELSE {"on"}
(* The pages that keep their view in the URL, and may be opened at any. *)
UrlPages == {"products", "coupons", "orders", "aftersales", "notices"}

(* A page loads its list when it mounts; the notifications page then sets its
   page to 1. *)
Mounted(u) ==
  LET first == Call("load", {}, u.view, "same", {})
  IN  IF page # "notices" \/ u.view.page = 1 THEN /\ ui = u /\ net = <<first>>
      ELSE LET v == [u.view EXCEPT !.page = 1]
           IN  ui = [u EXCEPT !.view = v] /\ net = <<first, Call("load", {}, v, "same", {})>>

Init ==
  /\ page \in Pages
  /\ TableInit
  /\ \E present \in SUBSET FirstRows[page] \ {{}} : \E start \in [present -> Starts(page)] :
       db = [r \in Rows |-> IF r \in present THEN [st |-> start[r], ver |-> 1] ELSE [st |-> "absent", ver |-> 0]]
  /\ \E v \in IF page \in UrlPages THEN Views[page] ELSE {AllRows} :
     \E super \in IF page \in {"brands", "tags", "categories", "products"} THEN BOOLEAN ELSE {TRUE} :
       Mounted([Ui(page, v) EXCEPT !.super = super])

Reply(s, c) ==
  IF page = "brands" THEN BrandsReply(s, c)
  ELSE IF page = "tags" THEN TagsReply(s, c)
  ELSE IF page = "categories" THEN CategoriesReply(s, c)
  ELSE IF page = "products" THEN ProductsReply(s, c)
  ELSE IF page = "coupons" THEN CouponsReply(s, c)
  ELSE IF page = "promo" THEN PromoReply(s, c)
  ELSE IF page = "recycle" THEN RecycleReply(s, c)
  ELSE IF page = "notices" THEN NoticeReply(s, c)
  ELSE IF page = "email" THEN EmailReply(s, c)
  ELSE IF page = "ads" THEN AdsReply(s, c)
  ELSE OrdersReply(s, c)

Deliver(i) == net[i].st \in {"ok", "no", "conflict"} /\ \E s \in {Received(i, Drops(net[i].op))} : \E t \in {Reply(s, net[i])} : Do(t)
GiveUp(i) == net[i].st = "sent" /\ net[i].op # "task" /\ \E s \in {GivenUp(i)} : \E t \in {Reply(s, [net[i] EXCEPT !.st = "no"])} : Do(t)

(* A customer pays or cancels an order; another administrator saves a budget. *)
Elsewhere ==
  \/ page = "orders" /\ \E r \in Rows : db[r].st = "pending" /\ \E st \in {"paid", "cancelled"} : ChangedElsewhere(r, st)
  \/ page = "ads" /\ \E r \in Rows : db[r].st = "on" /\ ChangedElsewhere(r, "on")

Next ==
  \/ page = "brands" /\ BrandsNext
  \/ page = "tags" /\ TagsNext
  \/ page = "categories" /\ CategoriesNext
  \/ page = "products" /\ ProductsNext
  \/ page = "coupons" /\ CouponsNext
  \/ page = "promo" /\ PromoNext
  \/ page \in {"orders", "aftersales"} /\ OrdersNext
  \/ page = "recycle" /\ RecycleNext
  \/ page = "notices" /\ NoticeNext
  \/ page = "email" /\ EmailNext
  \/ page = "ads" /\ AdsNext
  \/ page \in {"brands", "tags", "products", "orders"} /\ Refresh
  \/ \E i \in DOMAIN net : Serve(i) \/ Deliver(i) \/ GiveUp(i)
  \/ \E k \in Keys : Expire(k)
  \/ Elsewhere

(* Every call the page waits for is answered or given up: the oldest one first. *)
Settle == \E i \in DOMAIN net :
  /\ net[i].st # "orphan" /\ \A j \in 1..(i - 1) : net[j].st = "orphan"
  /\ Deliver(i) \/ GiveUp(i)

Spec == Init /\ [][Next]_vars /\ ([]<>(net = <<>>) \/ []<><<Settle>>_vars)

(* A page that told the user a write was saved shows it once its list is loaded,
   unless the answer it shows was already under way when the write was answered:
   a client's cache and its invalidation never bring the older row back.  The
   pages are those whose writes drop the cached list. *)
AckedWritesShown ==
  /\ page \in {"brands", "tags", "categories", "products", "coupons", "recycle"}
  /\ ~ui.loading /\ ~ui.error /\ (\A i \in DOMAIN net : net[i].op # "load") /\ ui.shown \notin hist.overtaken
  =>
  \A r \in Rows : ui.rows[r].ver >= hist.acked[r]

(* A product whose shelf action is under way, or whose list is being loaded after
   it, offers no other shelf action: none is decided on the status of before. *)
ShelfActionHoldsRow == page = "products" =>
  \A i \in DOMAIN net : net[i].op \in {"shelf", "load"} /\ net[i].st # "orphan" =>
    \A r \in net[i].rows : ProductsRowOffers(r) \cap Live = {}

(* A list that shows its placeholder stops showing it, whatever is lost. *)
SpinnerStops == ui.loading ~> ~ui.loading

(* An order or a request whose buttons went dead for a write gets them back,
   whether the write, the reload and the detail after it succeed or not. *)
RowReleased == ui.waiting # {} ~> ui.waiting = {}
==============================================================================
