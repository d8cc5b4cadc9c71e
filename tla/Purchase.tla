------------------------------ MODULE Purchase ------------------------------
(***************************************************************************)
(* The pages behind the cart: the checkout (Checkout.tsx), the page to     *)
(* which the payment gateway returns (PaymentReturn.tsx), the simulator    *)
(* that stands for a gateway in tests (MockPayment.tsx), and an order      *)
(* (OrderDetail.tsx).                                                      *)
(***************************************************************************)
EXTENDS Bag

CONSTANTS MyCoupons,    \* the customer's coupons
          NoCoupon,
          MaxAttempts   \* how often the return page asks for the payment

ASSUME PurchaseAssumption == NoCoupon \notin MyCoupons /\ MaxAttempts \in Nat \ {0}

(***************************************************************************)
(* The checkout.  Items are those of the cart, by name; `left` is where    *)
(* the page has gone.                                                      *)
(***************************************************************************)
Methods == {"paypal", "stripe"}
BlankCheckout(items, coupon) ==
  [items |-> items, coupons |-> {}, coupon |-> coupon, method |-> "paypal", listing |-> TRUE,
   loading |-> FALSE, error |-> FALSE, left |-> "no"]
calculateCouponDiscount == IF ui.coupon \in ui.coupons THEN 1 ELSE 0
CheckoutOffers ==
  IF ui.left # "no" THEN {}
  ELSE IF ui.items = {} THEN {"shop"}
  ELSE {"method", "address", "back"} \cup (IF ui.listing \/ ui.coupons = {} THEN {} ELSE {"coupon"})
       \cup (IF ui.loading THEN {} ELSE {"place"}) \cup (IF ui.error THEN {"retry"} ELSE {})
ChooseCoupon == screen = "checkout" /\ "coupon" \in CheckoutOffers
                /\ \E c \in ui.coupons \cup {NoCoupon} : Do([Here EXCEPT !.ui.coupon = IF @ = c THEN NoCoupon ELSE c])
ChooseMethod == screen = "checkout" /\ "method" \in CheckoutOffers /\ \E m \in Methods \ {ui.method} : Do([Here EXCEPT !.ui.method = m])
(* Every press takes an idempotency key of its own. *)
handlePlaceOrder ==
  /\ screen = "checkout" /\ CheckoutOffers \cap {"place", "retry"} # {} /\ Room(1)
  /\ Op(Send([Here EXCEPT !.ui.loading = TRUE, !.ui.error = FALSE],
             Call("checkout", [items |-> ui.items, coupon |-> ui.coupon, off |-> calculateCouponDiscount])))
(* The order stands: the cart is cleared and the payment is created; the customer
   goes to the gateway, or to the order when there is none or it fails. *)
OrderPlaced(s, c) ==
  IF c.st = "ok" THEN Send(Send(s, Call("clear", 1)), [Call("pay", c.got) EXCEPT !.gen = s.ui.method])
  ELSE IF c.st = "unauthorised" THEN [s EXCEPT !.ui.left = "login"]
  ELSE [s EXCEPT !.ui.error = TRUE, !.ui.loading = FALSE]
PaymentCreated(s, c) ==
  [s EXCEPT !.ui.left = IF c.st = "unauthorised" THEN "login" ELSE IF c.st = "ok" /\ c.got THEN "gateway" ELSE "order"]
CheckoutReply(s, c) ==
  IF s.ui.left # "no" THEN s
  ELSE IF c.op = "coupons" THEN [s EXCEPT !.ui.listing = FALSE, !.ui.coupons = IF c.st = "ok" THEN c.got ELSE @]
  ELSE IF c.op = "checkout" THEN OrderPlaced(s, c)
  ELSE IF c.op = "clear" THEN [s EXCEPT !.ui.items = {}]
  ELSE PaymentCreated(s, c)
CheckoutNext == ChooseCoupon \/ ChooseMethod \/ handlePlaceOrder

\* Mutant of Ordered: the items stay in the cart.
OrderedKept(bag, c) == [bag EXCEPT !.orders = Append(@, c.arg.items \cap bag.cart)]
(* The server orders the items that are still in the cart, and takes them out of it;
   without any it refuses. *)
OrderRefused(bag, c) == c.arg.items \cap bag.cart = {}
Ordered(bag, c) == [bag EXCEPT !.orders = Append(@, c.arg.items \cap bag.cart), !.cart = @ \ c.arg.items]

(***************************************************************************)
(* The page the gateway returns to asks for the payment every two seconds, *)
(* a bounded number of times.  The simulator settles the payment.          *)
(***************************************************************************)
BlankReturn == [status |-> "loading", attempts |-> 0, waiting |-> FALSE]
Polled(s, c) ==
  IF c.st = "ok" /\ c.got = "paid" THEN [s EXCEPT !.ui.status = "success"]
  ELSE IF s.ui.attempts + 1 < MaxAttempts THEN [s EXCEPT !.ui.attempts = @ + 1, !.ui.waiting = TRUE]
  ELSE [s EXCEPT !.ui.attempts = @ + 1, !.ui.status = "failure"]
poll == screen = "return" /\ ui.waiting /\ Room(1) /\ Do(Get([Here EXCEPT !.ui.waiting = FALSE], Call("status", 1)))
ReturnOffers == IF ui.status = "loading" THEN {} ELSE IF ui.status = "success" THEN {"orders", "shop"} ELSE {"orders", "cart"}

Scenarios == {"success", "failure", "cancel", "timeout"}
BlankMock == [running |-> "none", result |-> "none", error |-> FALSE, left |-> "no"]
MockOffers == IF ui.left = "no" /\ ui.running = "none" THEN Scenarios ELSE {}
runScenario == /\ screen = "mock" /\ Room(1)
               /\ \E sc \in MockOffers : Op(Send([Here EXCEPT !.ui = [BlankMock EXCEPT !.running = sc]], Call("mock", sc)))
MockReply(s, c) ==
  LET t == [s EXCEPT !.ui.running = "none"]
  IN  IF c.st = "no" THEN [t EXCEPT !.ui.error = TRUE]
      ELSE IF c.arg = "success" THEN [t EXCEPT !.ui.left = "return"] ELSE [t EXCEPT !.ui.result = c.arg]

(***************************************************************************)
(* An order, with the dialogs that cancel it and ask for a refund.         *)
(***************************************************************************)
BlankOrder == [order |-> "none", refunds |-> 0, loading |-> TRUE, error |-> FALSE, dialog |-> "none", typed |-> FALSE,
               busy |-> FALSE, msg |-> "none"]
loadOrder(s) == Get([s EXCEPT !.ui.loading = TRUE], Call("order", 1))
loadRefunds(s) == Get(s, Call("refunds", 1))
canCancel == ui.order \in {"pending", "paid"}
canRefund == ui.order \in {"paid", "shipped"}
OrderOffers ==
  IF ui.loading \/ ui.error \/ ui.order = "none" THEN {}
  ELSE IF ui.dialog # "none" THEN {"type"} \cup (IF ui.busy \/ ~ui.typed THEN {} ELSE {"confirm"}) \cup {"dismiss"}
  ELSE {"back"} \cup (IF ui.order # "cancelled" THEN {"support"} ELSE {})
       \cup (IF canCancel THEN {"cancel"} ELSE {}) \cup (IF canRefund THEN {"refund"} ELSE {})
OpenDialog == screen = "order" /\ \E d \in OrderOffers \cap {"cancel", "refund"} : Do([Here EXCEPT !.ui.dialog = d, !.ui.msg = "none"])
(* The backdrop closes a dialog also while its call is out; what was typed stays. *)
DismissDialog == screen = "order" /\ "dismiss" \in OrderOffers /\ Do([Here EXCEPT !.ui.dialog = "none"])
TypeReason == screen = "order" /\ "type" \in OrderOffers /\ Do([Here EXCEPT !.ui.typed = ~@])
Confirm == /\ screen = "order" /\ "confirm" \in OrderOffers /\ Room(1)
           /\ Op(Send([Here EXCEPT !.ui.busy = TRUE, !.ui.msg = "none"], Call(ui.dialog, 1)))
OrderReply(s, c) ==
  IF c.op = "order"
  THEN [s EXCEPT !.ui.loading = FALSE, !.ui.error = @ \/ c.st = "no", !.ui.order = IF c.st = "ok" THEN c.got ELSE @,
                 !.ui.busy = @ /\ c.gen = 0]
  ELSE IF c.op = "refunds" THEN [s EXCEPT !.ui.refunds = IF c.st = "ok" THEN c.got ELSE @, !.ui.busy = @ /\ c.gen = 0]
  ELSE IF c.st = "no" THEN [s EXCEPT !.ui.busy = FALSE, !.ui.msg = "error"]
  ELSE LET t == [s EXCEPT !.ui.msg = "success", !.ui.typed = FALSE,
                          !.ui.dialog = IF @ = c.op THEN "none" ELSE @]
       IN  IF c.op = "cancel"
           THEN Get([t EXCEPT !.ui.order = "cancelled", !.ui.loading = TRUE], [Call("order", 1) EXCEPT !.gen = 1])
           ELSE Get(t, [Call("refunds", 1) EXCEPT !.gen = 1])
OrderNext == OpenDialog \/ DismissDialog \/ TypeReason \/ Confirm
==============================================================================
