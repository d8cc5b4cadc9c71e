-------------------------------- MODULE Orders --------------------------------
(***************************************************************************)
(* The life of orders of one SKU, with the stock they take and the coupons *)
(* that discount them.                                                     *)
(*                                                                         *)
(* The shop's own calls (checkout, cancel, pay, refund, confirm, after-    *)
(* sale) lock the rows they work on and are one step each.  The back       *)
(* office does not: it reads an order, an after-sale or the coupon, and    *)
(* works on that copy in a later step, saving it whole.                    *)
(*                                                                         *)
(* An order is named by its idempotency key, so that a repeated checkout   *)
(* returns the order there is: no step.  Payments are here what they do to *)
(* the order; Payments and Refunds have their own life.  No caller of      *)
(* Order.complete exists: delivered is final.                              *)
(***************************************************************************)
EXTENDS Coupons, Money

CONSTANTS InitialStock,   \* SKU.stock at the start
          MaxQuantity,    \* bound on the quantity of an order
          NumSales,       \* bound on the after-sales
          Browsers,       \* users who open their list of coupons
          Admins          \* sessions of the back office

ASSUME OrdersAssumption ==
    /\ InitialStock \in Nat /\ MaxQuantity \in Nat /\ NumSales \in Nat
    /\ Browsers \subseteq User

Orders == 1..NumOrders
Sales == 1..NumSales

VARIABLES stock,    \* SKU.stock
          order,    \* order[o]: the Order row and its item's quantity
          money,    \* money[o]: where the customer's money is
          sale,     \* sale[s]: an AfterSale row
          desk      \* desk[a]: the row an admin's request has read

shop == <<stock, order, money, sale>>
vars == <<coupon, claim, stock, order, money, sale, desk>>

OrderRow == [status: {"absent", "pending_payment", "paid", "shipped", "delivered", "cancelled"},
             payment_status: {"unpaid", "paid", "refunding", "refunded"},
             user: User \cup {NoUser}, quantity: 0..MaxQuantity, claim: 0..NumClaims]
SaleRow == [status: {"pending_review", "approved", "rejected", "completed"},
            order: Orders, return: BOOLEAN]
Money == {"none", "captured", "returning", "returned"}

Placed(u, q, c) == [status |-> "pending_payment", payment_status |-> "unpaid",
                    user |-> u, quantity |-> q, claim |-> c]
NoOrder == [Placed(NoUser, 0, 0) EXCEPT !.status = "absent"]
Sale(status, o, return) == [status |-> status, order |-> o, return |-> return]
NoSale == Sale("absent", 0, FALSE)

\* What an admin's request holds between its read and its write.
Nothing == [kind |-> "nothing"]
OrderCopy(o) == [kind |-> "order", id |-> o, copy |-> order[o]]
SaleCopy(s) == [kind |-> "sale", id |-> s, copy |-> sale[s]]
CouponCopy == [kind |-> "coupon", id |-> 0, copy |-> coupon]
Desk == {Nothing}
        \cup [kind: {"order"}, id: Orders, copy: OrderRow]
        \cup [kind: {"sale"}, id: Sales, copy: SaleRow]
        \cup [kind: {"coupon"}, id: {0}, copy: CouponRow]

Init ==
    /\ CouponsInit
    /\ stock = InitialStock
    /\ order = [o \in Orders |-> NoOrder]
    /\ money = [o \in Orders |-> "none"]
    /\ sale = [s \in Sales |-> NoSale]
    /\ desk = [a \in Admins |-> Nothing]

Pending == {o \in Orders : order[o].status = "pending_payment"}

(***************************************************************************)
(* Checkout: the SKU's row and the coupon's are locked from the checks to  *)
(* the end of the transaction.                                             *)
(***************************************************************************)
\* Mutant of InStock: an order may take one piece more than there is.
InStockOrNearly(q) == q <= stock + 1
InStock(q) == q <= stock

Checkout(o, u, q, c) ==
    /\ order[o].status = "absent" /\ \A p \in 1..o-1 : order[p].status # "absent"
    /\ InStock(q)
    /\ order' = [order EXCEPT ![o] = Placed(u, q, c)]
    /\ stock' = stock - q
    /\ IF c = 0 THEN UNCHANGED claim
       ELSE /\ claim[c].user = u /\ Usable(c)
            /\ Lock(c, o)
    /\ UNCHANGED <<coupon, money, sale, desk>>

(***************************************************************************)
(* The customer's calls and the gateway's.                                 *)
(***************************************************************************)
\* Mutant of CancelAs: an order is cancelled whatever its status.
CancelAnyway(o, row) ==
    /\ row.status # "absent"
    /\ stock' = stock + row.quantity
    /\ ReleaseForOrder(o)
    /\ order' = [order EXCEPT ![o] = [row EXCEPT !.status = "cancelled"]]
    /\ UNCHANGED <<money, sale>>

\* Order.cancel of the row read as row, which is saved whole.
CancelAs(o, row) ==
    /\ row.status = "pending_payment"
    /\ stock' = stock + row.quantity
    /\ ReleaseForOrder(o)
    /\ order' = [order EXCEPT ![o] = [row EXCEPT !.status = "cancelled"]]
    /\ UNCHANGED <<money, sale>>

CancelOrder(o) == CancelAs(o, order[o]) /\ UNCHANGED desk

\* The webhook of a capture.  That of a cancelled order is returned.
Pay(o) ==
    /\ money[o] = "none"
    /\ \/ /\ order[o].status = "pending_payment"
          /\ order' = [order EXCEPT ![o] = [@ EXCEPT !.status = "paid", !.payment_status = "paid"]]
          /\ money' = [money EXCEPT ![o] = "captured"]
          /\ ConsumeForOrder(o)
       \/ /\ order[o].status = "cancelled"
          /\ order' = [order EXCEPT ![o].payment_status = "refunding"]
          /\ money' = [money EXCEPT ![o] = "returning"]
          /\ UNCHANGED coupons
    /\ UNCHANGED <<stock, sale, desk>>

\* A refund of the whole payment is reserved; an admin asks for it, or a customer with
\* an after-sale that was approved or completed.
RequestRefund(o) ==
    /\ money[o] = "captured"
    /\ order[o].payment_status # "refunded"
    /\ order' = [order EXCEPT ![o].payment_status = "refunding"]
    /\ money' = [money EXCEPT ![o] = "returning"]
    /\ UNCHANGED <<coupons, stock, sale, desk>>

\* The gateway refuses: the order is as it was once paid, cancelled or not.
RefundFails(o) ==
    /\ money[o] = "returning"
    /\ order' = [order EXCEPT ![o].payment_status = "paid"]
    /\ money' = [money EXCEPT ![o] = "captured"]
    /\ UNCHANGED <<coupons, stock, sale, desk>>

SettleRefund(o) ==
    /\ money[o] = "returning"
    /\ order' = [order EXCEPT ![o].payment_status = "refunded"]
    /\ money' = [money EXCEPT ![o] = "returned"]
    /\ ReturnForRefund(o)
    /\ UNCHANGED <<stock, sale, desk>>

ConfirmDelivered(o) ==
    /\ order[o].status = "shipped"
    /\ order' = [order EXCEPT ![o].status = "delivered"]
    /\ UNCHANGED <<coupons, stock, money, sale, desk>>

ApplyAfterSale(s, o, return) ==
    /\ sale[s].status = "absent" /\ \A t \in 1..s-1 : sale[t].status # "absent"
    /\ order[o].status = "delivered"
    /\ sale' = [sale EXCEPT ![s] = Sale("pending_review", o, return)]
    /\ UNCHANGED <<coupons, stock, order, money, desk>>

(***************************************************************************)
(* The back office.  An admin's request reads a row without a lock ...     *)
(***************************************************************************)
Open(a, row) ==
    /\ desk[a] = Nothing
    /\ desk' = [desk EXCEPT ![a] = row]
    /\ UNCHANGED <<coupons, shop>>

OpenOrder(a, o) == order[o].status # "absent" /\ Open(a, OrderCopy(o))
OpenSale(a, s) == sale[s].status # "absent" /\ Open(a, SaleCopy(s))
OpenCoupon(a) == Open(a, CouponCopy)

\* ... and acts on what it has read, or gives up.
Close(a, kind) ==
    /\ desk[a].kind = kind
    /\ desk' = [desk EXCEPT ![a] = Nothing]

AdminGivesUp(a) ==
    /\ desk[a] # Nothing
    /\ desk' = [desk EXCEPT ![a] = Nothing]
    /\ UNCHANGED <<coupons, shop>>

AdminCancel(a) == Close(a, "order") /\ CancelAs(desk[a].id, desk[a].copy)

\* Mutant of MayShip: an order may be shipped before it is paid.
MayShipAnyOpen(row) == row.status \in {"pending_payment", "paid"}
MayShip(row) == row.status = "paid"

AdminShip(a) ==
    /\ Close(a, "order")
    /\ MayShip(desk[a].copy)
    /\ order' = [order EXCEPT ![desk[a].id] = [desk[a].copy EXCEPT !.status = "shipped"]]
    /\ UNCHANGED <<coupons, stock, money, sale>>

AdminReview(a) ==
    /\ Close(a, "sale")
    /\ desk[a].copy.status = "pending_review"
    /\ \E verdict \in {"approved", "rejected"} :
           sale' = [sale EXCEPT ![desk[a].id] = [desk[a].copy EXCEPT !.status = verdict]]
    /\ UNCHANGED <<coupons, stock, order, money>>

AdminCompletesRefund(a) ==
    /\ Close(a, "sale")
    /\ desk[a].copy.status = "approved"
    /\ sale' = [sale EXCEPT ![desk[a].id] = [desk[a].copy EXCEPT !.status = "completed"]]
    /\ LET o == desk[a].copy.order
       IN  /\ stock' = IF desk[a].copy.return THEN stock + order[o].quantity ELSE stock
           /\ order' = [order EXCEPT ![o].payment_status = "refunded"]
    /\ UNCHANGED <<coupons, money>>

\* CouponAdminDetailView.put: any switch of the coupon, saved with the counters it read.
AdminEditsCoupon(a) ==
    /\ Close(a, "coupon")
    /\ \E open \in BOOLEAN : coupon' = [desk[a].copy EXCEPT !.open = open]
    /\ UNCHANGED <<claim, shop>>

Admin(a) ==
    \/ \E o \in Orders : OpenOrder(a, o)
    \/ \E s \in Sales : OpenSale(a, s)
    \/ OpenCoupon(a)
    \/ AdminGivesUp(a)
    \/ AdminCancel(a)
    \/ AdminShip(a)
    \/ AdminReview(a)
    \/ AdminCompletesRefund(a)
    \/ AdminEditsCoupon(a)

(***************************************************************************)
(* All together.                                                           *)
(***************************************************************************)
OnCoupons ==
    \/ \E u \in User, c \in Claims : ClaimCoupon(u, c)
    \/ ReleaseExpiredLocks(Pending)
    \/ \E u \in Browsers : ReleaseLazily(u) \/ ExpireOnList(u)
    \/ \E c \in Claims : LockLapses(c)
    \/ WindowCloses

OnOrder(o) ==
    \/ \E u \in User, q \in 1..MaxQuantity, c \in 0..NumClaims : Checkout(o, u, q, c)
    \/ CancelOrder(o)
    \/ Pay(o)
    \/ RequestRefund(o)
    \/ RefundFails(o)
    \/ SettleRefund(o)
    \/ ConfirmDelivered(o)
    \/ \E s \in Sales, return \in BOOLEAN : ApplyAfterSale(s, o, return)

Next ==
    \/ OnCoupons /\ UNCHANGED <<shop, desk>>
    \/ \E o \in Orders : OnOrder(o)
    \/ \E a \in Admins : Admin(a)

Spec == Init /\ [][Next]_vars

(***************************************************************************)
(* Properties.                                                             *)
(***************************************************************************)
\* Every row holds what its columns may hold; stock and the coupon's counters are columns
\* that refuse a negative number.
TypeOK ==
    /\ CouponsOK
    /\ stock \in Nat
    /\ order \in [Orders -> OrderRow]
    /\ money \in [Orders -> Money]
    /\ sale \in [Sales -> SaleRow \cup {NoSale}]
    /\ desk \in [Admins -> Desk]

\* What order o has taken of the stock.
Taken == [o \in Orders |-> IF order[o].status \in {"absent", "cancelled"} THEN 0
                           ELSE order[o].quantity]

\* No piece is lost or made: what is not in stock is in the orders that were not cancelled,
\* whatever checkouts, cancels and payments meet (checkout, _restore_stock).
StockAccounted == stock + Total(Taken, NumOrders) = InitialStock

\* A discount has a row behind it: the row an order was discounted by is locked for it while
\* it may still be paid and used by it once it is, until its money is back.  Hence no row
\* discounts two orders (lock, consume_for_order, release_for_order, return_for_refund).
CouponBacksDiscount ==
    \A o \in Orders : order[o].claim # 0 =>
        LET row == claim[order[o].claim]
        IN  /\ order[o].status = "pending_payment" => row.status = "locked" /\ row.order = o
            /\ order[o].status \in {"paid", "shipped", "delivered"} /\ money[o] # "returned"
                   => row.status = "used" /\ row.order = o

\* What is shipped was paid, also when the admin who ships has read the order long before.
PaidBeforeShipped ==
    \A o \in Orders : order[o].status \in {"shipped", "delivered"} => money[o] # "none"

\* A used row names an order that was paid, and no two rows name the same order.
UsedIsPaid ==
    \A c \in UsedRows :
        /\ claim[c].order # 0 /\ money[claim[c].order] # "none"
        /\ UsedFor(claim[c].order) = {c}

\* The limit per user holds whatever an admin saves over the coupon's counters.
PerUserHolds == \A u \in User : Cardinality(RowsOf(u)) <= PerUserLimit
=============================================================================
