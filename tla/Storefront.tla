------------------------------ MODULE Storefront ------------------------------
(***************************************************************************)
(* The shop in a browser: one of its pages is mounted and its calls are    *)
(* served, lost on either way, and answered in any order.                  *)
(***************************************************************************)
EXTENDS Shell, Widgets, Pictures

Mounted(page, s) == screen = page /\ ui = s.ui /\ calls = s.calls
Bare(u) == [ui |-> u, calls |-> <<>>, cache |-> <<>>]

(* A page mounts with its first calls out. *)
InitShop ==
  \/ srv \in SUBSET Products /\ Mounted("list", Send(Send(Bare(BlankList), Call("favs", 1)), [Call("list", [filter |-> BlankList.filter, page |-> 1]) EXCEPT !.gen = 1]))
  \/ srv \in {{}, Products} /\ Mounted("dialog", Bare(BlankDialog))
  \/ srv \in {{}, Products} /\ \E p \in Products : Mounted("product", ProductOpens(Bare(BlankProduct(p)), p))
InitBag ==
  \/ srv \in [Skus -> {0, 1}] /\ Mounted("cart", fetchCart(Bare(BlankBag), NoProduct))
  \/ srv = Products /\ Mounted("favorites", Send(Bare(BlankFavorites), Call("favs", 1)))
  \/ srv = {} /\ Mounted("notices", fetchNotifications(Bare(BlankNotices), 1))
InitPurchase ==
  \/ /\ \E items \in SUBSET Skus : srv = [cart |-> items, orders |-> <<>>]
     /\ \E c \in MyCoupons \cup {NoCoupon} : Mounted("checkout", Send(Bare(BlankCheckout(srv.cart, c)), Call("coupons", 1)))
  \/ srv \in {"pending", "paid"} /\ Mounted("return", Send(Bare(BlankReturn), Call("status", 1)))
  \/ srv = "pending" /\ Mounted("mock", Bare(BlankMock))
  \/ \E o \in {"pending", "paid", "shipped", "cancelled"} : srv = [order |-> o, refunds |-> 0] /\ Mounted("order", loadRefunds(loadOrder(Bare(BlankOrder))))
InitAccount ==
  \/ \E all \in SUBSET Addresses : \E tab \in {"orders", "addresses", "password"} :
       /\ srv = [all |-> all, default |-> IF all = {} THEN NoVal ELSE CHOOSE a \in all : TRUE, name |-> "old"]
       /\ Mounted("profile", TabOpens(Bare(BlankProfile(tab)), tab, ""))
  \/ srv \in SUBSET Codes /\ Mounted("coupons", fetchMyCoupons(Bare(BlankCoupons), Reading("available")))
  \/ srv \in {"promo", "coupon", "none"} /\ Mounted("share", Get(Bare(BlankShare), Call("promo", 1)))
  \/ srv \in ToSet(Steps) \cup {"none"} /\ Mounted("track", Bare(BlankTrack))
  \/ srv = FALSE /\ Mounted("forgot", Bare(BlankForgot))
  \/ srv \in BOOLEAN /\ Mounted("setPassword", Bare(BlankSetPassword))
(* The providers look up who it is when they mount. *)
InitSession ==
  /\ srv \in {NoSession} \cup {[SignedIn(u) EXCEPT !.access = a] : u \in Users, a \in BOOLEAN}
  /\ \/ Mounted("session", refreshUser(Bare(BlankSession("shop")), 0, "boot"))
     \/ \E page \in {"products", "login"} : Mounted("console", refreshUser(Bare(BlankSession(page)), 0, "boot"))
InitShell ==
  \/ srv = 0 /\ Mounted("layout", fetchNotifs(Bare(BlankLayout)))
  \/ srv = 0 /\ Mounted("dashboard", refresh(Bare(BlankDashboard)))
  \/ srv = BlankNav.user /\ Mounted("nav", Get(Bare(BlankNav), Call("tree", 1)))
  \/ srv = 0 /\ Mounted("board", BoardOpens(Bare(BlankBoard)))
InitWidgets ==
  \/ srv = 0 /\ \/ Mounted("gallery", Bare(BlankGallery))
                \/ Mounted("preview", Bare(BlankPreview))
                \/ Mounted("toasts", Bare(BlankToasts))
                \/ Mounted("logo", Bare(BlankLogo))
  \/ srv \in LANGUAGES \cup {"other"} /\ Mounted("bar", Bare(BlankBar("USD", "none")))
  \/ srv = 1 /\ \E memory \in BOOLEAN : Mounted("lazy", Bare(BlankLazy(memory)))
InitPictures == \E up \in BOOLEAN : \E of \in [Slots -> Sources] : srv = up /\ Mounted("pictures", PicturesOpen(of))
Init == (InitPictures \/ InitAccount \/ InitSession \/ InitShell \/ InitWidgets \/ InitShop \/ InitBag \/ InitPurchase) /\ cache = <<>> /\ used = [ops |-> 0, events |-> 0]

AccountPages == screen \in {"profile", "coupons", "share", "track", "forgot", "setPassword"}
ShellPages == screen \in {"layout", "dashboard", "nav", "board"}
(* What the server makes of a call: whether it refuses, what it holds then, and
   what it answers. *)
Refuses(c) ==
  \/ screen = "cart" /\ CartRefuses(srv, c)
  \/ screen = "checkout" /\ c.op = "checkout" /\ OrderRefused(srv, c)
  \/ screen = "order" /\ c.op = "cancel" /\ srv.order \notin {"pending", "paid"}
  \/ screen = "order" /\ c.op = "refund" /\ srv.order \notin {"paid", "shipped"}
  \/ AccountPages /\ AccountRefuses(c)
  \/ SignedPages /\ SessionStatus(c) # "ok"
After(c) ==
  IF AccountPages THEN AccountAfter(c)
  ELSE IF SignedPages THEN SessionAfter(c)
  ELSE IF ShellPages THEN ShellAfter(c)
  ELSE IF screen = "cart" /\ c.op # "cart" THEN Carted(srv, c)
  ELSE IF c.op \in {"like", "unlike"} THEN Turned(srv, c.arg, c.op = "like")
  ELSE IF c.op = "read" THEN srv \cup {c.arg}
  ELSE IF c.op = "readAll" THEN ToSet(Notices)
  ELSE IF c.op = "checkout" THEN Ordered(srv, c)
  ELSE IF c.op = "clear" THEN [srv EXCEPT !.cart = {}]
  ELSE IF c.op = "cancel" THEN [srv EXCEPT !.order = "cancelled"]
  ELSE IF c.op = "refund" THEN [srv EXCEPT !.refunds = @ + 1]
  ELSE IF c.op = "mock" /\ c.arg = "success" THEN "paid"
  ELSE srv
Answers(c) ==
  IF AccountPages THEN AccountAnswers(c)
  ELSE IF SignedPages THEN SessionAnswers(c)
  ELSE IF ShellPages THEN ShellAnswers(c)
  ELSE IF c.op = "list" THEN {[items |-> PageOfList(Catalogue[c.arg.filter], c.arg.page), total |-> Len(Catalogue[c.arg.filter])]}
  ELSE IF c.op = "notices" THEN {[items |-> PageOfList(Notices, c.arg), total |-> Len(Notices), read |-> srv]}
  ELSE IF c.op = "coupons" THEN {MyCoupons}
  ELSE IF c.op = "checkout" THEN {Len(srv.orders) + 1}
  ELSE IF c.op = "pay" THEN BOOLEAN
  ELSE IF c.op = "order" THEN {srv.order}
  ELSE IF c.op = "refunds" THEN {srv.refunds}
  ELSE IF c.op \in {"cart", "favs", "status"} THEN {srv}
  ELSE {0}

Answer(i, st, got) == calls' = [calls EXCEPT ![i].st = st, ![i].got = got]
Refusal(c) == IF SignedPages THEN SessionStatus(c) ELSE "no"
(* A refresh that fails on the way is remembered. *)
Lost(c, s) == IF c.op = "refresh" THEN [s EXCEPT !.lost = TRUE] ELSE s
NeedsSession == {"checkout", "pay", "claimShared"}
Serve(i) ==
  /\ calls[i].st = "sent" /\ UNCHANGED <<screen, ui, cache>>
  /\ LET c == calls[i] IN
     \/ Refuses(c) /\ Answer(i, Refusal(c), 0) /\ UNCHANGED <<srv, used>>
     \/ ~Refuses(c) /\ srv' = After(c) /\ (\E a \in Answers(c) : Answer(i, "ok", a)) /\ UNCHANGED used
     \/ ~Refuses(c) /\ srv' \in {Lost(c, srv), Lost(c, After(c))} /\ Answer(i, "no", 0) /\ Event
     \/ c.op \in NeedsSession /\ Answer(i, "unauthorised", 0) /\ Event /\ UNCHANGED srv

(* An answer reaches the page that asked for it. *)
ListReply(s, c) ==
  IF c.op = "list" THEN ListLoaded(s, c)
  ELSE IF c.op = "favs" THEN IF c.st = "ok" THEN [s EXCEPT !.ui.favs = c.got] ELSE s
  ELSE FavoriteTurned(s, c)
DialogReply(s, c) ==
  IF c.op = "detail" THEN DialogLoaded(s, c)
  ELSE IF c.op = "favs" THEN DialogHearts(s, c)
  ELSE IF c.op = "add" THEN s ELSE DialogTurned(s, c)
CartReply(s, c) == IF c.op = "cart" THEN CartUpdated(s, c) ELSE CartWritten(s, c)
ShopReply(s, c) ==
  IF screen = "list" THEN ListReply(s, c)
  ELSE IF screen = "dialog" THEN DialogReply(s, c)
  ELSE IF screen = "product" THEN ProductReply(s, c)
  ELSE IF screen = "cart" THEN CartReply(s, c)
  ELSE IF screen = "favorites" THEN FavoritesReply(s, c)
  ELSE IF screen = "notices" THEN NoticesReply(s, c)
  ELSE IF screen = "checkout" THEN CheckoutReply(s, c)
  ELSE IF screen = "return" THEN Polled(s, c)
  ELSE IF screen = "mock" THEN MockReply(s, c)
  ELSE OrderReply(s, c)
AccountReply(s, c) ==
  IF screen = "profile" THEN ProfileReply(s, c)
  ELSE IF screen = "coupons" THEN CouponsReply(s, c)
  ELSE IF screen = "share" THEN ShareReply(s, c)
  ELSE IF screen = "track" THEN TrackReply(s, c)
  ELSE IF screen = "forgot" THEN ForgotReply(s, c)
  ELSE SetPasswordReply(s, c)
ShellReply(s, c) ==
  IF screen = "layout" THEN LayoutReply(s, c)
  ELSE IF screen = "dashboard" THEN DashboardReply(s, c)
  ELSE IF screen = "nav" THEN NavReply(s, c)
  ELSE BoardReply(s, c)
Reply(s, c) ==
  IF SignedPages THEN Intercepted(s, c)
  ELSE IF AccountPages THEN AccountReply(s, c)
  ELSE IF ShellPages THEN ShellReply(s, c)
  ELSE IF screen = "logo" THEN LogoReply(s, c)
  ELSE ShopReply(s, c)
Deliver(i) == /\ calls[i].st # "sent"
              /\ \E s \in {Reply(Received(i), calls[i])} : Do(s)

(* The gateway or the shop's staff act meanwhile. *)
OthersAct ==
  /\ Event /\ UNCHANGED <<screen, ui, calls, cache>>
  /\ \/ screen = "return" /\ srv = "pending" /\ srv' = "paid"
     \/ screen = "order" /\ srv.order = "pending" /\ srv' = [srv EXCEPT !.order = "paid"]
     \/ screen = "order" /\ srv.order = "paid" /\ srv' = [srv EXCEPT !.order = "shipped"]
     \/ SessionActs

(* A link leads to another page: the mounted one goes, and what its calls are
   answered with it. *)
Links ==
  IF screen = "list" THEN ListOffers \cap {"open"}
  ELSE IF screen = "cart" THEN BagLinks
  ELSE IF screen = "favorites" THEN FavoritesOffers \cap {"browse", "open"}
  ELSE IF screen = "return" THEN ReturnOffers
  ELSE IF screen = "profile" THEN ProfileLinks
  ELSE IF screen = "layout" /\ ~ui.left THEN ActionBar
  ELSE IF screen = "dashboard" THEN PendingItems \cup QuickActions
  ELSE IF screen = "nav" THEN NavLinks
  ELSE IF screen = "board" THEN BoardOffers \cap {"product"}
  ELSE {}
Follow == \E to \in Links : /\ screen' = "elsewhere" /\ ui' = [to |-> to] /\ calls' = <<>> /\ cache' = <<>>
                             /\ UNCHANGED <<srv, used>>

UserNext == \/ ListNext \/ DialogNext \/ ProductNext \/ CartNext \/ handleRemove \/ NoticesNext
            \/ CheckoutNext \/ poll \/ runScenario \/ OrderNext
            \/ SessionNext \/ AccountNext \/ ShellNext \/ WidgetsNext \/ PicturesNext \/ Follow
Next == UserNext \/ OthersAct \/ Expire \/ \E i \in DOMAIN calls : Serve(i) \/ Deliver(i)
Spec == Init /\ [][Next]_vars

(* Whatever the interleaving of filter changes, pages and failures, a list whose
   first page is the current filter's holds that filter's products only, in the
   server's order and without a gap (useProducts.ts:146-221). *)
PagesOfOneFilter ==
  screen = "list" /\ ~ui.loading /\ ui.first = ui.gen => IsPrefix(ui.products, Catalogue[ui.filter])
(* The dialog never shows, nor adds to the cart, the variants of another product
   than the one it was opened for (ProductDetailModal.tsx:643-700). *)
DetailIsOpened == screen = "dialog" /\ Seen => ui.detail = ui.at
(* A customer who presses again after a lost answer orders nothing twice, although
   every press has an idempotency key of its own (Checkout.tsx:824-890). *)
NoItemTwice ==
  screen = "checkout" => \A i, j \in DOMAIN srv.orders : i # j => srv.orders[i] \cap srv.orders[j] = {}
(* Nobody is asked to sign in again unless a session has ended, or its refresh was
   lost on the way (request.ts:130-168). *)
AskedOnlyWhenEnded == SignedPages /\ ui.modal => srv.ended \/ srv.lost
(* While calls wait for the session to be refreshed exactly one refresh is out, and
   none when nothing waits (request.ts:44-52, 86-103, 130-168). *)
OneRefreshForAll ==
  SignedPages => Cardinality({i \in DOMAIN calls : calls[i].op = "refresh"}) = IF ui.waiting = <<>> THEN 0 ELSE 1
(* When every call has been answered and none has failed, the cart that is shown is
   the server's: request.ts:107-108 says that a write drops the cached list. *)
WrittenIsShown ==
  screen = "cart" /\ calls = <<>> /\ used.events = 0 => ui.items = srv
==============================================================================
