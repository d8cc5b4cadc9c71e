--------------------------------- MODULE Bag ---------------------------------
(***************************************************************************)
(* The cart of the shop (CartContext.tsx) with the pages that show it, the *)
(* favourites and the notifications.                                       *)
(***************************************************************************)
EXTENDS Shop

CONSTANT Skus  \* the variants that may be put in the cart, each an item of it

EmptyCart == [k \in Skus |-> 0]
Items(cart) == {k \in Skus : cart[k] > 0}
(* The toast and the dropdown that follow an add: shown, or held under the pointer. *)
BlankBag == [items |-> EmptyCart, loading |-> TRUE, adding |-> {}, told |-> FALSE, toast |-> "none", drop |-> FALSE]

(* gen is the item whose add waits for the cart, if any. *)
fetchCart(s, sku) == Get(s, [Call("cart", 1) EXCEPT !.gen = sku])
CartUpdated(s, c) ==
  LET t == [s EXCEPT !.ui.loading = FALSE, !.ui.items = IF c.st = "ok" THEN c.got ELSE @]
  IN  IF c.gen \notin Skus THEN t
      ELSE [t EXCEPT !.ui.adding = @ \ {c.gen}, !.ui.toast = "shown", !.ui.drop = TRUE]
(* What the page, the toast and the dropdown offer. *)
CartOffers == {"shop"} \cup IF Items(ui.items) = {} THEN {} ELSE {"quantity", "remove", "clear", "checkout", "support"}
ToastOffers == IF ui.toast = "none" THEN {} ELSE {"close", "cart", "checkout"}
DropdownOffers == IF Items(ui.items) = {} THEN {} ELSE {"remove", "cart", "checkout"}
BagLinks == (CartOffers \cup ToastOffers \cup DropdownOffers) \cap {"shop", "cart", "checkout", "support"}
(* An item that is being added already is not added again, and its caller is told
   that it was. *)
addItem == /\ screen = "cart" /\ Room(1)
           /\ \E k \in Skus : IF k \in ui.adding THEN Do([Here EXCEPT !.ui.toast = "shown", !.ui.drop = TRUE])
                              ELSE Op(Send([Here EXCEPT !.ui.adding = @ \cup {k}], Call("add", k)))
removeItem(k) == Op(Send(Here, Call("remove", k)))
updateQuantity == /\ screen = "cart" /\ Room(1)
                  /\ "quantity" \in CartOffers
                  /\ \E k \in Items(ui.items) : \E q \in {ui.items[k] - 1, ui.items[k] + 1} :
                       IF q = 0 THEN removeItem(k)
                       ELSE q <= MaxQty /\ Op(Send(Here, [Call("update", k) EXCEPT !.gen = q]))
RemovePressed == screen = "cart" /\ "remove" \in CartOffers \cup DropdownOffers /\ Room(1) /\ \E k \in Items(ui.items) : removeItem(k)
clearCart == screen = "cart" /\ "clear" \in CartOffers /\ Room(1) /\ Op(Send(Here, Call("clear", 1)))
(* What is written is read again; what the server refused is done to what is shown. *)
CartWritten(s, c) ==
  LET k == c.arg IN
  IF c.op = "add"
  THEN IF c.st = "ok" THEN fetchCart(s, k) ELSE [s EXCEPT !.ui.adding = @ \ {k}]
  ELSE IF c.op = "clear" THEN [s EXCEPT !.ui.items = EmptyCart]
  ELSE IF c.st = "ok" THEN fetchCart(s, NoProduct)
  ELSE [s EXCEPT !.ui.items[k] = IF c.op = "remove" \/ @ = 0 THEN 0 ELSE c.gen]
(* The toast hides itself after 4.5 s unless the pointer holds it; the dropdown
   closes after 3.5 s, or when the pointer has left it. *)
HoldToast == screen = "cart" /\ ui.toast = "shown" /\ Do([Here EXCEPT !.ui.toast = "held"])
LeaveToast == screen = "cart" /\ ui.toast = "held" /\ Do([Here EXCEPT !.ui.toast = "shown"])
HideToast == screen = "cart" /\ "close" \in ToastOffers /\ Do([Here EXCEPT !.ui.toast = "none"])
Dropdown == screen = "cart" /\ Do([Here EXCEPT !.ui.drop = ~@])
CartNext == addItem \/ updateQuantity \/ RemovePressed \/ clearCart \/ HoldToast \/ LeaveToast \/ HideToast \/ Dropdown

(* The server's cart after a write, which it refuses when the item is gone. *)
CartRefuses(cart, c) ==
  \/ c.op \in {"update", "remove"} /\ cart[c.arg] = 0
  \/ c.op = "add" /\ cart[c.arg] = MaxQty
Carted(cart, c) ==
  IF c.op = "add" THEN [cart EXCEPT ![c.arg] = @ + 1]
  ELSE IF c.op = "update" THEN [cart EXCEPT ![c.arg] = c.gen]
  ELSE IF c.op = "remove" THEN [cart EXCEPT ![c.arg] = 0]
  ELSE EmptyCart

(***************************************************************************)
(* The favourites: a card goes at once, and all the cards that were shown  *)
(* come back when the server refuses.                                      *)
(***************************************************************************)
BlankFavorites == [favs |-> {}, loading |-> TRUE]
FavoritesOffers == IF ui.loading THEN {} ELSE IF ui.favs = {} THEN {"browse"} ELSE {"open", "remove"}
handleRemove == /\ screen = "favorites" /\ "remove" \in FavoritesOffers /\ Room(1)
                /\ \E p \in ui.favs : Op(Send([Here EXCEPT !.ui.favs = @ \ {p}], [Call("unlike", p) EXCEPT !.gen = ui.favs]))
FavoritesReply(s, c) ==
  IF c.op = "favs" THEN [s EXCEPT !.ui.loading = FALSE, !.ui.favs = IF c.st = "ok" THEN c.got ELSE @]
  ELSE IF c.st = "no" THEN [s EXCEPT !.ui.favs = c.gen] ELSE s

(***************************************************************************)
(* The notifications: pages are added to the list, and a mark is shown at  *)
(* once.                                                                   *)
(***************************************************************************)
BlankNotices == [items |-> <<>>, read |-> {}, page |-> 1, total |-> 0, loading |-> TRUE, more |-> FALSE]
fetchNotifications(s, n) ==
  Get(IF n = 1 THEN [s EXCEPT !.ui.loading = TRUE] ELSE [s EXCEPT !.ui.more = TRUE], Call("notices", n))
Known == {ui.items[i] : i \in DOMAIN ui.items}
NoticesOffers ==
  (IF ui.items # <<>> /\ Known \ ui.read # {} THEN {"read", "readAll"} ELSE {})
  \cup (IF ~ui.loading /\ ui.items # <<>> /\ Len(ui.items) < ui.total /\ ~ui.more THEN {"more"} ELSE {})
(* The page number goes on also when the page then fails to come. *)
handleLoadMore == /\ screen = "notices" /\ "more" \in NoticesOffers /\ Room(1)
                  /\ Op(fetchNotifications([Here EXCEPT !.ui.page = @ + 1], ui.page + 1))
handleMarkRead == /\ screen = "notices" /\ "read" \in NoticesOffers /\ Room(1)
                  /\ \E n \in Known \ ui.read : Op(Send([Here EXCEPT !.ui.read = @ \cup {n}], Call("read", n)))
handleMarkAllRead == /\ screen = "notices" /\ "readAll" \in NoticesOffers /\ Room(1)
                     /\ Op(Send([Here EXCEPT !.ui.read = Known], [Call("readAll", 1) EXCEPT !.gen = ui.read]))
NoticesReply(s, c) ==
  IF c.op = "notices"
  THEN LET t == [s EXCEPT !.ui.loading = FALSE, !.ui.more = FALSE]
       IN  IF c.st = "no" THEN t
           ELSE [t EXCEPT !.ui.items = IF c.arg = 1 THEN c.got.items ELSE @ \o c.got.items, !.ui.total = c.got.total,
                          !.ui.read = (@ \ ToSet(c.got.items)) \cup c.got.read]
  ELSE IF c.st = "ok" THEN s
  ELSE [s EXCEPT !.ui.read = IF c.op = "read" THEN @ \ {c.arg} ELSE c.gen]
NoticesNext == handleLoadMore \/ handleMarkRead \/ handleMarkAllRead
==============================================================================
