----------------------------- MODULE OrdersProofs -----------------------------
(***************************************************************************)
(* Theorems about Orders, for any number of orders, claims, users, after-  *)
(* sales and admins.                                                       *)
(***************************************************************************)
EXTENDS Orders, DataTheorems, FiniteSetTheorems

USE CouponsAssumption, OrdersAssumption DEF CouponsAssumption, OrdersAssumption, Orders

(***************************************************************************)
(* Types.  First the operations on the two coupon tables.                  *)
(***************************************************************************)
LEMMA RowType ==
    ASSUME NEW s \in ClaimStatus, NEW u \in User \cup {NoUser}, NEW o \in 0..NumOrders
    PROVE  Row(s, u, o) \in ClaimRow
BY DEF Row, ClaimRow

LEMMA ClaimFields ==
    ASSUME CouponsOK, NEW c \in Claims
    PROVE  /\ claim[c].status \in ClaimStatus
           /\ claim[c].user \in User \cup {NoUser}
           /\ claim[c].order \in 0..NumOrders
BY DEF CouponsOK, ClaimRow

LEMMA CouponFields ==
    ASSUME CouponsOK
    PROVE  coupon.open \in BOOLEAN /\ coupon.claimed_count \in Nat /\ coupon.used_count \in Nat
BY DEF CouponsOK, CouponRow

LEMMA CouponType ==
    ASSUME NEW b \in BOOLEAN, NEW m \in Nat, NEW n \in Nat
    PROVE  Coupon(b, m, n) \in CouponRow
BY DEF Coupon, CouponRow

LEMMA GivenBackType ==
    ASSUME CouponsOK, NEW c \in Claims
    PROVE  GivenBack(claim[c]) \in ClaimRow
<1>1. (IF coupon.open THEN "available" ELSE "expired") \in ClaimStatus /\ 0 \in 0..NumOrders
  BY DEF ClaimStatus
<1>2. QED BY <1>1, RowType, ClaimFields DEF GivenBack

LEMMA ReleaseType ==
    ASSUME CouponsOK, NEW set, Update(set, GivenBack), UNCHANGED coupon
    PROVE  CouponsOK'
BY GivenBackType DEF Update, CouponsOK

LEMMA ConsumeType ==
    ASSUME CouponsOK, NEW o \in Orders, ConsumeForOrder(o)
    PROVE  CouponsOK'
<1>1. ASSUME NEW c \in Claims PROVE Row("used", claim[c].user, claim[c].order) \in ClaimRow
  BY RowType, ClaimFields DEF ClaimStatus
<1>2. claim' \in [Claims -> ClaimRow]
  BY <1>1 DEF ConsumeForOrder, Update, CouponsOK
<1>3. coupon' \in CouponRow
  BY CouponType DEF ConsumeForOrder, CouponsOK, CouponRow
<1>4. QED BY <1>2, <1>3 DEF CouponsOK

LEMMA ReturnType ==
    ASSUME CouponsOK, NEW o \in Orders, ReturnForRefund(o)
    PROVE  CouponsOK'
<1>1. CASE ~ (coupon.open /\ UsedFor(o) # {})
  BY <1>1 DEF ReturnForRefund, coupons, CouponsOK
<1>2. CASE coupon.open /\ UsedFor(o) # {}
  <2>1. ASSUME NEW c \in Claims PROVE Row("returned", claim[c].user, 0) \in ClaimRow
    BY RowType, ClaimFields DEF ClaimStatus
  <2>2. claim' \in [Claims -> ClaimRow]
    BY <1>2, <2>1 DEF ReturnForRefund, Update, CouponsOK
  <2>3. (IF coupon.used_count > 0 THEN coupon.used_count - 1 ELSE coupon.used_count) \in Nat
    BY CouponFields
  <2>4. coupon' \in CouponRow
    BY <1>2, <2>3, CouponType, CouponFields DEF ReturnForRefund
  <2>5. QED BY <2>2, <2>4 DEF CouponsOK
<1>3. QED BY <1>1, <1>2

LEMMA LockType ==
    ASSUME CouponsOK, NEW c \in Claims, NEW o \in Orders, Lock(c, o), UNCHANGED coupon
    PROVE  CouponsOK'
<1>1. Row("locked", claim[c].user, o) \in ClaimRow
  BY RowType, ClaimFields DEF ClaimStatus
<1>2. QED BY <1>1 DEF Lock, CouponsOK

LEMMA OnCouponsType ==
    ASSUME CouponsOK, OnCoupons
    PROVE  CouponsOK'
<1>1. ASSUME NEW u \in User, NEW c \in Claims, ClaimCoupon(u, c) PROVE CouponsOK'
  <2>1. Row("available", u, 0) \in ClaimRow
    BY RowType DEF ClaimStatus
  <2>2. claim' \in [Claims -> ClaimRow]
    BY <1>1, <2>1 DEF ClaimCoupon, CouponsOK
  <2>3. coupon' \in CouponRow
    BY <1>1, CouponType DEF ClaimCoupon, CouponsOK, CouponRow
  <2>4. QED BY <2>2, <2>3 DEF CouponsOK
<1>2. ASSUME ReleaseExpiredLocks(Pending) PROVE CouponsOK'
  BY <1>2, ReleaseType DEF ReleaseExpiredLocks
<1>3. ASSUME NEW u \in Browsers, ReleaseLazily(u) PROVE CouponsOK'
  BY <1>3, ReleaseType DEF ReleaseLazily
<1>4. ASSUME NEW u \in Browsers, ExpireOnList(u) PROVE CouponsOK'
  <2>1. ASSUME NEW c \in Claims PROVE Row("expired", claim[c].user, claim[c].order) \in ClaimRow
    BY RowType, ClaimFields DEF ClaimStatus
  <2>2. QED BY <1>4, <2>1 DEF ExpireOnList, Update, CouponsOK
<1>5. ASSUME NEW c \in Claims, LockLapses(c) PROVE CouponsOK'
  BY <1>5 DEF LockLapses, CouponsOK, ClaimRow
<1>6. ASSUME WindowCloses PROVE CouponsOK'
  BY <1>6, CouponType DEF WindowCloses, CouponsOK, CouponRow
<1>7. QED BY <1>1, <1>2, <1>3, <1>4, <1>5, <1>6 DEF OnCoupons

\* Then the shop's rows.
LEMMA PlacedType ==
    ASSUME NEW u \in User, NEW q \in 1..MaxQuantity, NEW c \in 0..NumClaims
    PROVE  Placed(u, q, c) \in OrderRow
BY DEF Placed, OrderRow

\* What becomes of an order's row when it is paid, refunded, shipped ... is a row.
LEMMA OrderRowType ==
    ASSUME NEW row \in OrderRow
    PROVE  /\ [row EXCEPT !.status = "paid", !.payment_status = "paid"] \in OrderRow
           /\ [row EXCEPT !.payment_status = "refunding"] \in OrderRow
           /\ [row EXCEPT !.payment_status = "refunded"] \in OrderRow
           /\ [row EXCEPT !.status = "cancelled"] \in OrderRow
           /\ [row EXCEPT !.status = "shipped"] \in OrderRow
           /\ [row EXCEPT !.status = "delivered"] \in OrderRow
BY DEF OrderRow

LEMMA SaleType ==
    ASSUME NEW s \in {"pending_review", "approved", "rejected", "completed"},
           NEW o \in Orders, NEW b \in BOOLEAN
    PROVE  Sale(s, o, b) \in SaleRow
BY DEF Sale, SaleRow

\* A copy of a row is a row.
LEMMA DeskType ==
    ASSUME TypeOK, NEW a \in Admins
    PROVE  /\ desk[a].kind = "order" => desk[a].id \in Orders /\ desk[a].copy \in OrderRow
           /\ desk[a].kind = "sale" => desk[a].id \in Sales /\ desk[a].copy \in SaleRow
           /\ desk[a].kind = "coupon" => desk[a].copy \in CouponRow
BY DEF TypeOK, Desk, Nothing

LEMMA CloseType ==
    ASSUME TypeOK, NEW a \in Admins, NEW kind, Close(a, kind)
    PROVE  desk' \in [Admins -> Desk]
BY DEF TypeOK, Close, Desk

LEMMA CancelAsType ==
    ASSUME TypeOK, NEW o \in Orders, NEW row \in OrderRow, CancelAs(o, row)
    PROVE  CouponsOK' /\ stock' \in Nat /\ order' \in [Orders -> OrderRow]
<1>1. CouponsOK'
  BY ReleaseType DEF CancelAs, ReleaseForOrder, TypeOK
<1>2. stock' \in Nat
  BY DEF CancelAs, TypeOK, OrderRow
<1>3. [row EXCEPT !.status = "cancelled"] \in OrderRow
  BY OrderRowType
<1>4. QED BY <1>1, <1>2, <1>3 DEF CancelAs, TypeOK

LEMMA TypeInit == Init => TypeOK
<1> SUFFICES ASSUME Init PROVE TypeOK
  OBVIOUS
<1>1. Absent \in ClaimRow
  BY RowType DEF Absent, ClaimStatus
<1>2. CouponsOK
  BY <1>1, CouponType DEF Init, CouponsInit, CouponsOK
<1>3. NoOrder \in OrderRow
  BY DEF NoOrder, Placed, OrderRow
<1>4. desk \in [Admins -> Desk]
  BY DEF Init, Desk
<1>5. QED BY <1>2, <1>3, <1>4 DEF Init, TypeOK, Money

LEMMA TypeNext == TypeOK /\ [Next]_vars => TypeOK'
<1> SUFFICES ASSUME TypeOK, [Next]_vars PROVE TypeOK'
  OBVIOUS
<1>1. CASE UNCHANGED vars
  BY <1>1 DEF vars, TypeOK, CouponsOK
<1>2. CASE OnCoupons /\ UNCHANGED <<shop, desk>>
  BY <1>2, OnCouponsType DEF TypeOK, shop
<1>3. ASSUME NEW o \in Orders, OnOrder(o) PROVE TypeOK'
  <2>1. ASSUME NEW u \in User, NEW q \in 1..MaxQuantity, NEW c \in 0..NumClaims, Checkout(o, u, q, c)
        PROVE  TypeOK'
    <3>1. CouponsOK'
      <4>1. CASE c = 0
        BY <2>1, <4>1 DEF Checkout, TypeOK, CouponsOK
      <4>2. CASE c # 0
        <5>1. c \in Claims /\ Lock(c, o) /\ UNCHANGED coupon
          BY <2>1, <4>2 DEF Checkout, Claims
        <5>2. CouponsOK
          BY DEF TypeOK
        <5>3. QED BY <5>1, <5>2, LockType
      <4>3. QED BY <4>1, <4>2
    <3>2. stock' \in Nat
      BY <2>1 DEF Checkout, InStock, TypeOK
    <3>3. order' \in [Orders -> OrderRow]
      BY <2>1, PlacedType DEF Checkout, TypeOK
    <3>4. QED BY <2>1, <3>1, <3>2, <3>3 DEF Checkout, TypeOK
  <2>2. CASE CancelOrder(o)
    <3>1. order[o] \in OrderRow
      BY DEF TypeOK
    <3>2. QED BY <2>2, <3>1, CancelAsType DEF CancelOrder, CancelAs, TypeOK
  <2>3. CASE Pay(o)
    <3>1. CouponsOK'
      BY <2>3, ConsumeType DEF Pay, TypeOK, coupons, CouponsOK
    <3>2. order' \in [Orders -> OrderRow]
      <4>1. order[o] \in OrderRow
        BY DEF TypeOK
      <4>2. /\ [order[o] EXCEPT !.status = "paid", !.payment_status = "paid"] \in OrderRow
            /\ [order[o] EXCEPT !.payment_status = "refunding"] \in OrderRow
        BY <4>1, OrderRowType
      <4>3. QED BY <2>3, <4>2 DEF Pay, TypeOK
    <3>3. money' \in [Orders -> Money]
      BY <2>3 DEF Pay, TypeOK, Money
    <3>4. QED BY <2>3, <3>1, <3>2, <3>3 DEF Pay, TypeOK
  <2>4. CASE RequestRefund(o) \/ RefundFails(o)
    <3>1. CASE RequestRefund(o)
      BY <3>1 DEF RequestRefund, TypeOK, OrderRow, Money, coupons, CouponsOK
    <3>2. CASE RefundFails(o)
      BY <3>2 DEF RefundFails, TypeOK, OrderRow, Money, coupons, CouponsOK
    <3>3. QED BY <2>4, <3>1, <3>2
  <2>5. CASE SettleRefund(o)
    <3>1. CouponsOK'
      BY <2>5, ReturnType DEF SettleRefund, TypeOK
    <3>2. order' \in [Orders -> OrderRow] /\ money' \in [Orders -> Money]
      BY <2>5 DEF SettleRefund, TypeOK, OrderRow, Money
    <3>3. QED BY <2>5, <3>1, <3>2 DEF SettleRefund, TypeOK
  <2>6. CASE ConfirmDelivered(o)
    BY <2>6 DEF ConfirmDelivered, TypeOK, OrderRow, coupons, CouponsOK
  <2>7. ASSUME NEW s \in Sales, NEW return \in BOOLEAN, ApplyAfterSale(s, o, return)
        PROVE  TypeOK'
    BY <2>7, SaleType DEF ApplyAfterSale, TypeOK, coupons, CouponsOK
  <2>8. QED BY <1>3, <2>1, <2>2, <2>3, <2>4, <2>5, <2>6, <2>7 DEF OnOrder
<1>4. ASSUME NEW a \in Admins, Admin(a) PROVE TypeOK'
  <2>1. ASSUME NEW row \in Desk, Open(a, row) PROVE TypeOK'
    BY <2>1 DEF Open, TypeOK, coupons, shop, CouponsOK
  <2>2. ASSUME NEW o \in Orders, OpenOrder(a, o) PROVE TypeOK'
    <3>1. OrderCopy(o) \in Desk
      BY DEF OrderCopy, Desk, TypeOK
    <3>2. QED BY <2>1, <2>2, <3>1 DEF OpenOrder
  <2>3. ASSUME NEW s \in Sales, OpenSale(a, s) PROVE TypeOK'
    <3>1. SaleCopy(s) \in Desk
      BY <2>3 DEF OpenSale, SaleCopy, Desk, TypeOK, NoSale, Sale
    <3>2. QED BY <2>1, <2>3, <3>1 DEF OpenSale
  <2>4. CASE OpenCoupon(a)
    <3>1. CouponCopy \in Desk
      BY DEF CouponCopy, Desk, TypeOK, CouponsOK
    <3>2. QED BY <2>1, <2>4, <3>1 DEF OpenCoupon
  <2>5. CASE AdminGivesUp(a)
    BY <2>5 DEF AdminGivesUp, TypeOK, coupons, shop, CouponsOK, Desk
  <2>6. CASE AdminCancel(a)
    <3>1. desk[a].id \in Orders /\ desk[a].copy \in OrderRow /\ desk' \in [Admins -> Desk]
      BY <2>6, DeskType, CloseType DEF AdminCancel, Close
    <3>2. QED BY <2>6, <3>1, CancelAsType DEF AdminCancel, CancelAs, TypeOK
  <2>7. CASE AdminShip(a)
    <3>1. desk[a].id \in Orders /\ desk[a].copy \in OrderRow /\ desk' \in [Admins -> Desk]
      BY <2>7, DeskType, CloseType DEF AdminShip, Close
    <3>2. [desk[a].copy EXCEPT !.status = "shipped"] \in OrderRow
      BY <3>1, OrderRowType
    <3>3. QED BY <2>7, <3>1, <3>2 DEF AdminShip, TypeOK, coupons, CouponsOK
  <2>8. CASE AdminReview(a)
    <3>1. desk[a].id \in Sales /\ desk[a].copy \in SaleRow /\ desk' \in [Admins -> Desk]
      BY <2>8, DeskType, CloseType DEF AdminReview, Close
    <3>2. ASSUME NEW v \in {"approved", "rejected"}
          PROVE  [desk[a].copy EXCEPT !.status = v] \in SaleRow
      BY <3>1 DEF SaleRow
    <3>3. QED BY <2>8, <3>1, <3>2 DEF AdminReview, TypeOK, coupons, CouponsOK
  <2>9. CASE AdminCompletesRefund(a)
    <3>1. desk[a].id \in Sales /\ desk[a].copy \in SaleRow /\ desk' \in [Admins -> Desk]
      BY <2>9, DeskType, CloseType DEF AdminCompletesRefund, Close
    <3>2. [desk[a].copy EXCEPT !.status = "completed"] \in SaleRow
      BY <3>1 DEF SaleRow
    <3>3. sale' \in [Sales -> SaleRow \cup {NoSale}]
      BY <2>9, <3>1, <3>2 DEF AdminCompletesRefund, TypeOK
    <3>4. order' \in [Orders -> OrderRow]
      <4>1. desk[a].copy.order \in Orders
        BY <3>1 DEF SaleRow
      <4>2. QED BY <2>9, <4>1, OrderRowType DEF AdminCompletesRefund, TypeOK
    <3>5. stock' \in Nat
      BY <2>9, <3>1 DEF AdminCompletesRefund, TypeOK, SaleRow, OrderRow
    <3>6. QED BY <2>9, <3>1, <3>3, <3>4, <3>5 DEF AdminCompletesRefund, TypeOK, coupons, CouponsOK
  <2>10. CASE AdminEditsCoupon(a)
    <3>1. desk[a].copy \in CouponRow /\ desk' \in [Admins -> Desk]
      BY <2>10, DeskType, CloseType DEF AdminEditsCoupon, Close
    <3>2. coupon' \in CouponRow
      BY <2>10, <3>1 DEF AdminEditsCoupon, CouponRow
    <3>3. QED BY <2>10, <3>1, <3>2 DEF AdminEditsCoupon, TypeOK, shop, CouponsOK
  <2>11. QED BY <1>4, <2>2, <2>3, <2>4, <2>5, <2>6, <2>7, <2>8, <2>9, <2>10 DEF Admin
<1>5. QED BY <1>1, <1>2, <1>3, <1>4 DEF Next

\* The rows always hold what their columns may hold, for every number of orders, users,
\* admins and claims; stock and counters never become negative (TypeOK).
THEOREM TypeCorrect == Spec => []TypeOK
<1>1. Init => TypeOK
  BY TypeInit
<1>2. TypeOK /\ [Next]_vars => TypeOK'
  BY TypeNext
<1>3. QED BY <1>1, <1>2, PTL DEF Spec

(***************************************************************************)
(* What is shipped was paid.  An admin ships from a copy, so the invariant *)
(* speaks of copies as well: money that came is never unseen again.        *)
(***************************************************************************)
Past(row) == row.status \in {"paid", "shipped", "delivered"}
PaidOnce(o, row) == Past(row) => money[o] # "none"
CopiesArePaid ==
    /\ \A o \in Orders : PaidOnce(o, order[o])
    /\ \A a \in Admins : desk[a].kind = "order" => PaidOnce(desk[a].id, desk[a].copy)

\* Money that came is not forgotten.
LEMMA MoneyStays ==
    ASSUME TypeOK, [Next]_vars, NEW o \in Orders, money[o] # "none"
    PROVE  money'[o] # "none"
<1>1. ASSUME NEW p \in Orders, OnOrder(p) PROVE money'[o] # "none"
  BY <1>1 DEF OnOrder, Checkout, CancelOrder, CancelAs, Pay, RequestRefund, RefundFails, SettleRefund,
              ConfirmDelivered, ApplyAfterSale, TypeOK
<1>2. ASSUME NEW a \in Admins, Admin(a) PROVE money' = money
  BY <1>2 DEF Admin, OpenOrder, OpenSale, OpenCoupon, Open, AdminGivesUp, AdminCancel, CancelAs,
              AdminShip, AdminReview, AdminCompletesRefund, AdminEditsCoupon, shop
<1>3. QED BY <1>1, <1>2 DEF Next, vars, shop

LEMMA CopiesArePaidNext == TypeOK /\ CopiesArePaid /\ [Next]_vars => CopiesArePaid'
<1> SUFFICES ASSUME TypeOK, CopiesArePaid, [Next]_vars PROVE CopiesArePaid'
  OBVIOUS
<1> USE DEF PaidOnce, Past
\* It is enough that each order, and each copy, that is past payment was so before, or
\* comes from one that was, or was paid in this step.
<1>1. CASE UNCHANGED vars
  BY <1>1 DEF vars, CopiesArePaid
<1>2. CASE OnCoupons /\ UNCHANGED <<shop, desk>>
  BY <1>2 DEF shop, CopiesArePaid
<1>3. ASSUME NEW o \in Orders, OnOrder(o) PROVE CopiesArePaid'
  <2>1. desk' = desk
    BY <1>3 DEF OnOrder, Checkout, CancelOrder, Pay, RequestRefund, RefundFails, SettleRefund,
                ConfirmDelivered, ApplyAfterSale
  <2>2. ASSUME NEW p \in Orders, Past(order'[p]) PROVE money'[p] # "none"
    <3>1. Past(order[p]) \/ money'[p] # "none"
      <4>1. CASE \E u \in User, q \in 1..MaxQuantity, c \in 0..NumClaims : Checkout(o, u, q, c)
        BY <2>2, <4>1 DEF Checkout, Placed, TypeOK
      <4>2. CASE CancelOrder(o)
        BY <2>2, <4>2 DEF CancelOrder, CancelAs, TypeOK, OrderRow
      <4>3. CASE Pay(o)
        BY <2>2, <4>3 DEF Pay, TypeOK, OrderRow
      <4>4. CASE RequestRefund(o) \/ RefundFails(o) \/ SettleRefund(o) \/ ConfirmDelivered(o)
        BY <2>2, <4>4 DEF RequestRefund, RefundFails, SettleRefund, ConfirmDelivered, TypeOK, OrderRow
      <4>5. CASE order' = order
        BY <2>2, <4>5
      <4>6. QED BY <1>3, <4>1, <4>2, <4>3, <4>4, <4>5 DEF OnOrder, ApplyAfterSale
    <3>2. QED BY <3>1, MoneyStays DEF CopiesArePaid
  <2>3. ASSUME NEW a \in Admins, desk[a].kind = "order", Past(desk[a].copy)
        PROVE  money'[desk[a].id] # "none"
    BY <2>3, MoneyStays, DeskType DEF CopiesArePaid
  <2>4. QED BY <2>1, <2>2, <2>3 DEF CopiesArePaid
<1>4. ASSUME NEW a \in Admins, Admin(a) PROVE CopiesArePaid'
  <2>1. money' = money
    BY <1>4 DEF Admin, OpenOrder, OpenSale, OpenCoupon, Open, AdminGivesUp, AdminCancel, CancelAs,
              AdminShip, AdminReview, AdminCompletesRefund, AdminEditsCoupon, shop
  <2>2. ASSUME NEW b \in Admins, desk'[b].kind = "order"
        PROVE  Past(desk'[b].copy) => money'[desk'[b].id] # "none"
    <3>1. \/ desk'[b] = desk[b]
          \/ \E o \in Orders : desk'[b] = OrderCopy(o)
      BY <1>4, <2>2 DEF Admin, OpenOrder, OpenSale, OpenCoupon, Open, AdminGivesUp, AdminCancel, Close,
           AdminShip, AdminReview, AdminCompletesRefund, AdminEditsCoupon, Nothing, SaleCopy,
           CouponCopy, TypeOK
    <3>2. ASSUME NEW o \in Orders, desk'[b] = OrderCopy(o)
          PROVE  Past(desk'[b].copy) => money'[desk'[b].id] # "none"
      <4>1. desk'[b].copy = order[o] /\ desk'[b].id = o
        BY <3>2 DEF OrderCopy
      <4>2. QED BY <2>1, <4>1 DEF CopiesArePaid
    <3>3. CASE desk'[b] = desk[b]
      BY <2>1, <2>2, <3>3 DEF CopiesArePaid
    <3>4. QED BY <3>1, <3>2, <3>3
  <2>3. ASSUME NEW p \in Orders, Past(order'[p]) PROVE money[p] # "none"
    <3>1. CASE order' = order
      BY <2>3, <3>1 DEF CopiesArePaid
    <3>2. CASE AdminCancel(a)
      BY <2>3, <3>2, DeskType DEF AdminCancel, CancelAs, Close, CopiesArePaid, TypeOK, OrderRow
    <3>3. CASE AdminShip(a)
      BY <2>3, <3>3, DeskType DEF AdminShip, MayShip, Close, CopiesArePaid, TypeOK, OrderRow
    <3>4. CASE AdminCompletesRefund(a)
      BY <2>3, <3>4 DEF AdminCompletesRefund, CopiesArePaid, TypeOK, OrderRow
    <3>5. QED BY <1>4, <3>1, <3>2, <3>3, <3>4 DEF Admin, OpenOrder, OpenSale, OpenCoupon, Open,
                AdminGivesUp, AdminReview, AdminEditsCoupon, shop
  <2>4. QED BY <2>1, <2>2, <2>3 DEF CopiesArePaid
<1>5. QED BY <1>1, <1>2, <1>3, <1>4 DEF Next

\* No order is shipped that nobody paid, however long ago the admin who ships it has read
\* it and whatever happened to it meanwhile (Order.ship on an unlocked row).
THEOREM PaidBeforeShippedHolds == Spec => []PaidBeforeShipped
<1>1. Init => CopiesArePaid
  BY DEF Init, NoOrder, Placed, Nothing, CopiesArePaid, PaidOnce, Past
<1>2. TypeOK /\ CopiesArePaid /\ [Next]_vars => CopiesArePaid'
  BY CopiesArePaidNext
<1>3. CopiesArePaid => PaidBeforeShipped
  BY DEF CopiesArePaid, PaidOnce, Past, PaidBeforeShipped
<1>4. QED BY <1>1, <1>2, <1>3, TypeCorrect, PTL DEF Spec

(***************************************************************************)
(* Stock.  Without a back office every step changes the stock by what it   *)
(* changes the orders by.                                                  *)
(***************************************************************************)
LEMMA TakenType == ASSUME TypeOK PROVE Taken \in [1..NumOrders -> Int]
BY DEF TypeOK, Taken, OrderRow

\* The stock follows when one order changes.
LEMMA StockFollows ==
    ASSUME TypeOK, TypeOK', StockAccounted, NEW o \in Orders,
           \A p \in Orders \ {o} : order'[p] = order[p],
           stock' = stock + Taken[o] - Taken'[o]
    PROVE  StockAccounted'
<1>1. Taken \in [1..NumOrders -> Int] /\ Taken' \in [1..NumOrders -> Int]
  BY TakenType DEF TypeOK, Taken, OrderRow
<1>2. \A p \in 1..NumOrders : p # o => Taken'[p] = Taken[p]
  BY DEF Taken
<1>3. ASSUME NEW f \in [1..NumOrders -> Int], NEW g \in [1..NumOrders -> Int],
             \A p \in 1..NumOrders : p # o => g[p] = f[p]
      PROVE  Total(g, NumOrders) = Total(f, NumOrders) - f[o] + g[o]
  BY <1>3, TotalUpdate
<1>4. Total(Taken', NumOrders) = Total(Taken, NumOrders) - Taken[o] + Taken'[o]
  BY <1>1, <1>2, <1>3
<1>5. Total(Taken, NumOrders) \in Int
  BY <1>1, TotalType
<1>6. QED BY <1>1, <1>4, <1>5 DEF StockAccounted, TypeOK

LEMMA StockNext ==
    ASSUME Admins = {}, TypeOK, TypeOK', StockAccounted, [Next]_vars
    PROVE  StockAccounted'
<1>1. ASSUME stock' = stock, Taken' = Taken PROVE StockAccounted'
  BY <1>1 DEF StockAccounted
<1>2. CASE stock' = stock /\ order' = order
  BY <1>1, <1>2 DEF Taken
<1>3. ASSUME NEW o \in Orders, OnOrder(o) PROVE StockAccounted'
  <2>1. ASSUME NEW u \in User, NEW q \in 1..MaxQuantity, NEW c \in 0..NumClaims, Checkout(o, u, q, c)
        PROVE  StockAccounted'
    <3>1. \A p \in Orders \ {o} : order'[p] = order[p]
      BY <2>1 DEF Checkout, TypeOK
    <3>2. Taken[o] = 0 /\ Taken'[o] = q
      BY <2>1 DEF Checkout, Taken, Placed, TypeOK
    <3>3. QED BY <2>1, <3>1, <3>2, StockFollows DEF Checkout, TypeOK
  <2>2. CASE CancelOrder(o)
    <3>1. \A p \in Orders \ {o} : order'[p] = order[p]
      BY <2>2 DEF CancelOrder, CancelAs, TypeOK
    <3>2. Taken[o] = order[o].quantity /\ Taken'[o] = 0
      BY <2>2 DEF CancelOrder, CancelAs, Taken, TypeOK, OrderRow
    <3>3. stock' = stock + order[o].quantity
      BY <2>2 DEF CancelOrder, CancelAs
    <3>4. order[o].quantity \in Int /\ stock \in Int
      BY DEF TypeOK, OrderRow
    <3>5. stock' = stock + Taken[o] - Taken'[o]
      BY <3>2, <3>3, <3>4
    <3>6. QED BY <3>1, <3>5, StockFollows
  <2>3. ASSUME NEW row, order' = [order EXCEPT ![o] = row], stock' = stock,
               row.quantity = order[o].quantity,
               row.status \in {"absent", "cancelled"} <=> order[o].status \in {"absent", "cancelled"}
        PROVE  StockAccounted'
    BY <1>1, <2>3 DEF Taken, TypeOK
  <2>4. CASE Pay(o)
    <3> DEFINE row == IF order[o].status = "pending_payment"
                      THEN [order[o] EXCEPT !.status = "paid", !.payment_status = "paid"]
                      ELSE [order[o] EXCEPT !.payment_status = "refunding"]
    <3>1. order' = [order EXCEPT ![o] = row] /\ stock' = stock
      BY <2>4 DEF Pay, TypeOK
    <3>2. /\ row.quantity = order[o].quantity
          /\ row.status \in {"absent", "cancelled"} <=> order[o].status \in {"absent", "cancelled"}
      BY <2>4 DEF Pay, TypeOK, OrderRow
    <3>3. QED BY <2>3, <3>1, <3>2
  <2>5. CASE RequestRefund(o)
    <3> DEFINE row == [order[o] EXCEPT !.payment_status = "refunding"]
    <3>1. order' = [order EXCEPT ![o] = row] /\ stock' = stock
      BY <2>5 DEF RequestRefund
    <3>2. /\ row.quantity = order[o].quantity
          /\ row.status \in {"absent", "cancelled"} <=> order[o].status \in {"absent", "cancelled"}
      BY <2>5 DEF RequestRefund, TypeOK, OrderRow
    <3>3. QED BY <2>3, <3>1, <3>2
  <2>6. CASE RefundFails(o)
    <3> DEFINE row == [order[o] EXCEPT !.payment_status = "paid"]
    <3>1. order' = [order EXCEPT ![o] = row] /\ stock' = stock
      BY <2>6 DEF RefundFails
    <3>2. /\ row.quantity = order[o].quantity
          /\ row.status \in {"absent", "cancelled"} <=> order[o].status \in {"absent", "cancelled"}
      BY <2>6 DEF RefundFails, TypeOK, OrderRow
    <3>3. QED BY <2>3, <3>1, <3>2
  <2>7. CASE SettleRefund(o)
    <3> DEFINE row == [order[o] EXCEPT !.payment_status = "refunded"]
    <3>1. order' = [order EXCEPT ![o] = row] /\ stock' = stock
      BY <2>7 DEF SettleRefund
    <3>2. /\ row.quantity = order[o].quantity
          /\ row.status \in {"absent", "cancelled"} <=> order[o].status \in {"absent", "cancelled"}
      BY <2>7 DEF SettleRefund, TypeOK, OrderRow
    <3>3. QED BY <2>3, <3>1, <3>2
  <2>8. CASE ConfirmDelivered(o)
    <3> DEFINE row == [order[o] EXCEPT !.status = "delivered"]
    <3>1. order' = [order EXCEPT ![o] = row] /\ stock' = stock
      BY <2>8 DEF ConfirmDelivered
    <3>2. /\ row.quantity = order[o].quantity
          /\ row.status \in {"absent", "cancelled"} <=> order[o].status \in {"absent", "cancelled"}
      BY <2>8 DEF ConfirmDelivered, TypeOK, OrderRow
    <3>3. QED BY <2>3, <3>1, <3>2
  <2>9. CASE \E s \in Sales, return \in BOOLEAN : ApplyAfterSale(s, o, return)
    BY <1>2, <2>9 DEF ApplyAfterSale
  <2>10. QED BY <1>3, <2>1, <2>2, <2>4, <2>5, <2>6, <2>7, <2>8, <2>9 DEF OnOrder
<1>4. QED BY <1>2, <1>3 DEF Next, vars, shop

\* Without a back office no piece of stock is lost or made, for any number of orders
\* (checkout and cancel under the rows' locks).
THEOREM StockIsAccounted ==
    ASSUME Admins = {}
    PROVE  Spec => []StockAccounted
<1>1. Init => StockAccounted
  <2> SUFFICES ASSUME Init PROVE StockAccounted
    OBVIOUS
  <2>1. TypeOK
    BY TypeInit
  <2>2. \A o \in 1..NumOrders : Taken[o] = 0
    BY DEF Init, NoOrder, Placed, Taken
  <2>3. Total(Taken, NumOrders) = 0
    BY <2>1, <2>2, TakenType, TotalZero
  <2>4. QED BY <2>3 DEF StockAccounted, Init
<1>2. TypeOK /\ TypeOK' /\ StockAccounted /\ [Next]_vars => StockAccounted'
  BY StockNext
<1>3. QED BY <1>1, <1>2, TypeCorrect, PTL DEF Spec

(***************************************************************************)
(* Coupons.  Without the coupon list, which releases locks of orders that  *)
(* may still be paid, every discount has a row behind it.  Again an admin  *)
(* may bring an old row back, so the invariant speaks of copies: a copy    *)
(* of an order past payment still has its coupon row, unless the money is  *)
(* back, and no copy forgets which row that is.                            *)
(***************************************************************************)
Held(rows, c, o, status) == rows[c].status = status /\ rows[c].order = o
Backed(o, row) == row.claim # 0 /\ Past(row) /\ money[o] # "returned" => Held(claim, row.claim, o, "used")
CouponInv ==
    /\ \A o \in Orders :
           /\ order[o].status = "pending_payment" /\ order[o].claim # 0
                  => Held(claim, order[o].claim, o, "locked")
           /\ Backed(o, order[o])
    /\ \A a \in Admins : desk[a].kind = "order" =>
           /\ desk[a].copy.claim = order[desk[a].id].claim
           /\ order[desk[a].id].status # "absent" /\ desk[a].copy.status # "absent"
           /\ Backed(desk[a].id, desk[a].copy)

\* What each operation on the rows leaves alone.
LEMMA OnCouponsKeeps ==
    ASSUME CouponsOK, OnCoupons, Browsers = {}, NEW c \in Claims, NEW o \in Orders, NEW s,
           \/ s = "used"
           \/ s = "locked" /\ o \in Pending,
           Held(claim, c, o, s)
    PROVE  Held(claim', c, o, s)
<1> USE DEF Held
<1>1. ASSUME NEW u \in User, NEW d \in Claims, ClaimCoupon(u, d) PROVE Held(claim', c, o, s)
  BY <1>1 DEF ClaimCoupon, Rows, CouponsOK
<1>2. ASSUME ReleaseExpiredLocks(Pending) PROVE Held(claim', c, o, s)
  BY <1>2 DEF ReleaseExpiredLocks, Lapsed, Update, CouponsOK
<1>3. ASSUME NEW d \in Claims, LockLapses(d) PROVE Held(claim', c, o, s)
  BY <1>3 DEF LockLapses, CouponsOK, ClaimRow
<1>4. ASSUME WindowCloses PROVE Held(claim', c, o, s)
  BY <1>4 DEF WindowCloses
<1>5. QED BY <1>1, <1>2, <1>3, <1>4 DEF OnCoupons

LEMMA LockKeeps ==
    ASSUME CouponsOK, NEW c \in Claims, NEW o, NEW d \in Claims, NEW p, NEW s \in {"locked", "used"},
           Usable(d), Lock(d, p), Held(claim, c, o, s)
    PROVE  Held(claim', c, o, s)
BY DEF Held, Lock, Usable, CouponsOK

LEMMA ConsumeKeeps ==
    ASSUME CouponsOK, NEW c \in Claims, NEW o, NEW p, NEW s, ConsumeForOrder(p), Held(claim, c, o, s),
           s = "used" \/ o # p
    PROVE  Held(claim', c, o, s)
BY DEF Held, ConsumeForOrder, LockedFor, Update, CouponsOK

LEMMA ConsumeUses ==
    ASSUME CouponsOK, NEW c \in Claims, NEW o, ConsumeForOrder(o), Held(claim, c, o, "locked")
    PROVE  Held(claim', c, o, "used")
BY DEF Held, ConsumeForOrder, LockedFor, Update, Row, CouponsOK

LEMMA ReleaseKeeps ==
    ASSUME CouponsOK, NEW c \in Claims, NEW o, NEW p, NEW s, ReleaseForOrder(p), Held(claim, c, o, s),
           s = "used" \/ o # p
    PROVE  Held(claim', c, o, s)
BY DEF Held, ReleaseForOrder, LockedFor, Update, CouponsOK

LEMMA ReturnKeeps ==
    ASSUME CouponsOK, NEW c \in Claims, NEW o, NEW p, NEW s, ReturnForRefund(p), Held(claim, c, o, s),
           s = "locked" \/ o # p
    PROVE  Held(claim', c, o, s)
BY DEF Held, ReturnForRefund, UsedFor, Update, CouponsOK, coupons

\* An operation on order p leaves the row of every other order, and a used row unless the
\* money is returned.
LEMMA OnOrderKeeps ==
    ASSUME TypeOK, NEW p \in Orders, OnOrder(p), NEW c \in Claims, NEW o \in Orders,
           NEW s \in {"locked", "used"}, Held(claim, c, o, s),
           o # p \/ s = "used", money'[o] # "returned" \/ o # p
    PROVE  Held(claim', c, o, s)
<1> USE DEF TypeOK
<1>1. CASE claim' = claim
  BY <1>1 DEF Held
<1>2. ASSUME NEW u \in User, NEW q \in 1..MaxQuantity, NEW d \in 0..NumClaims, d # 0,
             Checkout(p, u, q, d)
      PROVE  Held(claim', c, o, s)
  <2>1. d \in Claims /\ Usable(d) /\ Lock(d, p)
    BY <1>2 DEF Checkout, Claims
  <2>2. QED BY <2>1, LockKeeps
<1>3. CASE CancelOrder(p)
  BY <1>3, ReleaseKeeps DEF CancelOrder, CancelAs
<1>4. CASE Pay(p)
  BY <1>1, <1>4, ConsumeKeeps DEF Pay, coupons
<1>5. CASE SettleRefund(p)
  <2>1. money'[p] = "returned"
    BY <1>5 DEF SettleRefund
  <2>2. o # p
    BY <2>1
  <2>3. QED BY <1>5, <2>2, ReturnKeeps DEF SettleRefund
<1>6. ASSUME NEW u \in User, NEW q \in 1..MaxQuantity, NEW d \in 0..NumClaims, d = 0,
             Checkout(p, u, q, d)
      PROVE  claim' = claim
  BY <1>6 DEF Checkout
<1>7. QED BY <1>1, <1>2, <1>3, <1>4, <1>5, <1>6 DEF OnOrder, RequestRefund, RefundFails, ConfirmDelivered,
                ApplyAfterSale, coupons

\* The order operated on is backed afterwards, and remembers its coupon row.
BackedAfter(o) ==
    /\ order'[o].status = "pending_payment" /\ order'[o].claim # 0
           => Held(claim', order'[o].claim, o, "locked")
    /\ Past(order'[o]) /\ order'[o].claim # 0 /\ money'[o] # "returned"
           => Held(claim', order'[o].claim, o, "used")
    /\ order[o].status # "absent" =>
           order'[o].claim = order[o].claim /\ order'[o].status # "absent"

LEMMA OnOrderBacks ==
    ASSUME TypeOK, CouponInv, NEW o \in Orders, OnOrder(o)
    PROVE  BackedAfter(o)
<1> USE DEF TypeOK, BackedAfter
<1>1. ASSUME NEW u \in User, NEW q \in 1..MaxQuantity, NEW c \in 0..NumClaims, Checkout(o, u, q, c)
      PROVE  order[o].status = "absent" /\ order'[o] = Placed(u, q, c)
             /\ (c # 0 => Held(claim', c, o, "locked"))
  BY <1>1 DEF Checkout, Lock, Row, Held, CouponsOK, Claims
<1>2. CASE CancelOrder(o)
  BY <1>2 DEF CancelOrder, CancelAs, Past
<1>3. CASE Pay(o) /\ order[o].status = "pending_payment"
  <2>1. /\ order'[o].status = "paid" /\ order'[o].claim = order[o].claim
        /\ ConsumeForOrder(o)
    <3> DEFINE row == [order[o] EXCEPT !.status = "paid", !.payment_status = "paid"]
    <3>1. order[o] \in OrderRow
      OBVIOUS
    <3>2. row.status = "paid" /\ row.claim = order[o].claim
      BY <3>1 DEF OrderRow
    <3>3. order' = [order EXCEPT ![o] = row] /\ ConsumeForOrder(o)
      <4> HIDE DEF BackedAfter, TypeOK
      <4>1. QED BY <1>3 DEF Pay
    <3> HIDE DEF row
    <3>4. order'[o] = row
      BY <3>3
    <3>5. QED BY <3>2, <3>3, <3>4
  <2>2. order[o].claim # 0 => Held(claim, order[o].claim, o, "locked") /\ order[o].claim \in Claims
    <3>1. order[o] \in OrderRow
      OBVIOUS
    <3>2. order[o].claim \in 0..NumClaims
      BY <3>1 DEF OrderRow
    <3> HIDE DEF BackedAfter, TypeOK
    <3>3. QED BY <1>3, <3>2 DEF CouponInv, Claims
  <2>3. QED BY <2>1, <2>2, ConsumeUses DEF Held
<1>4. CASE Pay(o) /\ order[o].status # "pending_payment"
  BY <1>4 DEF Pay, Past, OrderRow
<1>5. ASSUME RequestRefund(o) \/ RefundFails(o) \/ ConfirmDelivered(o)
             \/ \E s \in Sales, return \in BOOLEAN : ApplyAfterSale(s, o, return)
      PROVE  /\ claim' = claim /\ order'[o].claim = order[o].claim
             /\ order'[o].status = "pending_payment" <=> order[o].status = "pending_payment"
             /\ order'[o].status = "absent" <=> order[o].status = "absent"
             /\ Past(order'[o]) <=> Past(order[o])
             /\ money[o] = "returned" => money'[o] = "returned"
  <2> HIDE DEF BackedAfter
  <2>1. CASE RequestRefund(o)
    BY <2>1 DEF RequestRefund, Past, coupons, OrderRow
  <2>2. CASE RefundFails(o)
    BY <2>2 DEF RefundFails, Past, coupons, OrderRow
  <2>3. CASE ConfirmDelivered(o)
    BY <2>3 DEF ConfirmDelivered, Past, coupons, OrderRow
  <2>4. ASSUME NEW s \in Sales, NEW return \in BOOLEAN, ApplyAfterSale(s, o, return)
        PROVE  UNCHANGED <<claim, order, money>>
    BY <2>4 DEF ApplyAfterSale, coupons
  <2>5. QED BY <1>5, <2>1, <2>2, <2>3, <2>4 DEF Past
<1>6. CASE SettleRefund(o)
  <2>1. /\ money'[o] = "returned" /\ order'[o].status = order[o].status
        /\ order'[o].claim = order[o].claim /\ ReturnForRefund(o)
    BY <1>6 DEF SettleRefund, OrderRow
  <2>2. order[o].status = "pending_payment" /\ order[o].claim # 0
            => Held(claim, order[o].claim, o, "locked") /\ order[o].claim \in Claims
    BY DEF CouponInv, OrderRow, Claims
  <2>3. QED BY <2>1, <2>2, ReturnKeeps DEF Held
<1>7. ASSUME NEW u \in User, NEW q \in 1..MaxQuantity, NEW c \in 0..NumClaims, Checkout(o, u, q, c)
      PROVE  BackedAfter(o)
  <2>1. /\ order[o].status = "absent" /\ order'[o] = Placed(u, q, c)
        /\ c # 0 => Held(claim', c, o, "locked")
    BY <1>1, <1>7
  <2>2. order'[o].status = "pending_payment" /\ order'[o].claim = c
    BY <2>1 DEF Placed
  <2>3. QED BY <2>1, <2>2 DEF Past, Held
<1>8. CASE RequestRefund(o) \/ RefundFails(o) \/ ConfirmDelivered(o)
           \/ \E s \in Sales, return \in BOOLEAN : ApplyAfterSale(s, o, return)
  BY <1>5, <1>8 DEF CouponInv, Backed
<1> HIDE DEF BackedAfter
<1>9. QED BY <1>2, <1>3, <1>4, <1>6, <1>7, <1>8 DEF OnOrder

LEMMA CouponInvNext ==
    ASSUME Browsers = {}, TypeOK, CouponInv, [Next]_vars
    PROVE  CouponInv'
<1> USE DEF TypeOK
<1>1. CASE UNCHANGED vars
  BY <1>1 DEF vars, CouponInv, Backed, Held
\* A step that changes neither orders nor copies nor money, and keeps the rows held.
<1>2. CASE OnCoupons /\ UNCHANGED <<shop, desk>>
  <2>1. ASSUME NEW o \in Orders, order[o].status = "pending_payment", order[o].claim # 0
        PROVE  Held(claim', order[o].claim, o, "locked")
    <3>1. order[o].claim \in Claims /\ o \in Pending /\ Held(claim, order[o].claim, o, "locked")
      BY <2>1 DEF CouponInv, OrderRow, Claims, Pending
    <3>2. QED BY <1>2, <3>1, OnCouponsKeeps
  <2>2. ASSUME NEW o \in Orders, NEW c \in Claims, Held(claim, c, o, "used")
        PROVE  Held(claim', c, o, "used")
    BY <1>2, <2>2, OnCouponsKeeps
  <2>3. ASSUME NEW o \in Orders PROVE order[o].claim # 0 => order[o].claim \in Claims
    BY DEF OrderRow, Claims
  <2>4. ASSUME NEW a \in Admins, desk[a].kind = "order"
        PROVE  /\ desk[a].id \in Orders
               /\ desk[a].copy.claim # 0 => desk[a].copy.claim \in Claims
    BY <2>4, DeskType DEF OrderRow, Claims
  <2>5. QED BY <1>2, <2>1, <2>2, <2>3, <2>4 DEF CouponInv, Backed, shop
<1>3. ASSUME NEW p \in Orders, OnOrder(p) PROVE CouponInv'
  <2>1. desk' = desk
    BY <1>3 DEF OnOrder, Checkout, CancelOrder, Pay, RequestRefund, RefundFails, SettleRefund,
                ConfirmDelivered, ApplyAfterSale
  <2>2. \A o \in Orders : o # p => order'[o] = order[o] /\ money'[o] = money[o]
    BY <1>3 DEF OnOrder, Checkout, CancelOrder, CancelAs, Pay, RequestRefund, RefundFails, SettleRefund,
                ConfirmDelivered, ApplyAfterSale
  <2>3. BackedAfter(p)
    BY <1>3, OnOrderBacks
  <2>4. money[p] = "returned" => money'[p] = "returned"
    BY <1>3 DEF OnOrder, Checkout, CancelOrder, CancelAs, Pay, RequestRefund, RefundFails, SettleRefund,
                ConfirmDelivered, ApplyAfterSale
  <2>5. ASSUME NEW o \in Orders, NEW c \in Claims, NEW s \in {"locked", "used"},
               Held(claim, c, o, s), o # p \/ s = "used", money'[o] # "returned" \/ o # p
        PROVE  Held(claim', c, o, s)
    BY <1>3, <2>5, OnOrderKeeps
  <2>6. ASSUME NEW o \in Orders PROVE order[o].claim # 0 => order[o].claim \in Claims
    BY DEF OrderRow, Claims
  <2>7. ASSUME NEW o \in Orders, o # p
        PROVE  /\ order'[o].status = "pending_payment" /\ order'[o].claim # 0
                      => Held(claim', order'[o].claim, o, "locked")
               /\ order'[o].claim # 0 /\ Past(order'[o]) /\ money'[o] # "returned"
                      => Held(claim', order'[o].claim, o, "used")
    BY <2>2, <2>5, <2>6, <2>7 DEF CouponInv, Backed
  <2>8. ASSUME NEW a \in Admins, desk[a].kind = "order"
        PROVE  /\ desk[a].copy.claim = order'[desk[a].id].claim
               /\ order'[desk[a].id].status # "absent" /\ desk[a].copy.status # "absent"
               /\ desk[a].copy.claim # 0 /\ Past(desk[a].copy) /\ money'[desk[a].id] # "returned"
                      => Held(claim', desk[a].copy.claim, desk[a].id, "used")
    <3>1. /\ desk[a].id \in Orders
          /\ desk[a].copy.claim # 0 => desk[a].copy.claim \in Claims
      BY <2>8, DeskType DEF OrderRow, Claims
    <3>2. /\ desk[a].copy.claim = order'[desk[a].id].claim
          /\ order'[desk[a].id].status # "absent" /\ desk[a].copy.status # "absent"
      BY <2>2, <2>3, <2>8, <3>1 DEF CouponInv, BackedAfter
    <3>3. ASSUME desk[a].copy.claim # 0, Past(desk[a].copy), money'[desk[a].id] # "returned"
          PROVE  Held(claim', desk[a].copy.claim, desk[a].id, "used")
      <4>1. money[desk[a].id] # "returned"
        BY <2>2, <2>4, <3>1, <3>3
      <4>2. Held(claim, desk[a].copy.claim, desk[a].id, "used")
        BY <2>8, <3>3, <4>1 DEF CouponInv, Backed
      <4>3. QED BY <2>5, <3>1, <3>3, <4>2
    <3>4. QED BY <3>2, <3>3
  <2>9. QED BY <2>1, <2>3, <2>7, <2>8 DEF CouponInv, Backed, BackedAfter
<1>4. ASSUME NEW a \in Admins, Admin(a) PROVE CouponInv'
  <2>1. money' = money
    BY <1>4 DEF Admin, OpenOrder, OpenSale, OpenCoupon, Open, AdminGivesUp, AdminCancel, CancelAs,
              AdminShip, AdminReview, AdminCompletesRefund, AdminEditsCoupon, shop
  <2>2. ASSUME NEW o \in Orders, NEW c \in Claims, NEW s \in {"locked", "used"},
               Held(claim, c, o, s), s = "used" \/ order'[o].status = "pending_payment"
        PROVE  Held(claim', c, o, s)
    <3>1. CASE AdminCancel(a)
      <4>1. ReleaseForOrder(desk[a].id) /\ order'[desk[a].id].status = "cancelled"
        BY <3>1, DeskType DEF AdminCancel, CancelAs, Close, OrderRow
      <4>2. QED BY <2>2, <4>1, ReleaseKeeps
    <3>2. CASE claim' = claim
      BY <2>2, <3>2
    <3>3. QED BY <1>4, <3>1, <3>2 DEF Admin, OpenOrder, OpenSale, OpenCoupon, Open, AdminGivesUp,
              AdminShip, AdminReview, AdminCompletesRefund, AdminEditsCoupon, shop, coupons
  \* Every order stays as it is but for its status and payment, which never turn pending.
  <2>3. ASSUME NEW o \in Orders
        PROVE  /\ order'[o].claim = order[o].claim
               /\ order[o].status # "absent" => order'[o].status # "absent"
               /\ order'[o].status = "pending_payment" => order[o].status = "pending_payment"
               /\ Past(order'[o]) /\ order[o].claim # 0 /\ money[o] # "returned"
                      => Held(claim, order[o].claim, o, "used")
    <3>1. CASE order' = order
      BY <3>1 DEF CouponInv, Backed
    <3>2. CASE AdminCancel(a)
      <4>1. desk[a].kind = "order" /\ desk[a].id \in Orders /\ desk[a].copy \in OrderRow
        BY <3>2, DeskType DEF AdminCancel, Close
      <4>2. order' = [order EXCEPT ![desk[a].id] = [desk[a].copy EXCEPT !.status = "cancelled"]]
        BY <3>2 DEF AdminCancel, CancelAs
      <4>3. order'[o] = IF o = desk[a].id THEN [desk[a].copy EXCEPT !.status = "cancelled"]
                        ELSE order[o]
        BY <4>2
      <4>4. desk[a].copy.claim = order[desk[a].id].claim
        BY <4>1 DEF CouponInv
      <4>5. CASE o = desk[a].id
        BY <4>1, <4>3, <4>4, <4>5 DEF OrderRow, Past
      <4>6. CASE o # desk[a].id
        BY <4>3, <4>6 DEF CouponInv, Backed
      <4>7. QED BY <4>5, <4>6
    <3>3. CASE AdminShip(a)
      <4>1. /\ desk[a].kind = "order" /\ desk[a].id \in Orders /\ desk[a].copy \in OrderRow
            /\ desk[a].copy.status = "paid"
        BY <3>3, DeskType DEF AdminShip, Close, MayShip
      <4>2. order' = [order EXCEPT ![desk[a].id] = [desk[a].copy EXCEPT !.status = "shipped"]]
        BY <3>3 DEF AdminShip
      <4>3. order'[o] = IF o = desk[a].id THEN [desk[a].copy EXCEPT !.status = "shipped"]
                        ELSE order[o]
        BY <4>2
      <4>4. /\ desk[a].copy.claim = order[desk[a].id].claim
            /\ Backed(desk[a].id, desk[a].copy) /\ Past(desk[a].copy)
        BY <4>1 DEF CouponInv, Past
      <4>5. CASE o = desk[a].id
        BY <4>1, <4>3, <4>4, <4>5 DEF OrderRow, Past, Backed
      <4>6. CASE o # desk[a].id
        BY <4>3, <4>6 DEF CouponInv, Backed
      <4>7. QED BY <4>5, <4>6
    <3>4. CASE AdminCompletesRefund(a)
      <4>1. /\ order'[o].status = order[o].status /\ order'[o].claim = order[o].claim
        BY <3>4 DEF AdminCompletesRefund, OrderRow
      <4>2. QED BY <4>1 DEF CouponInv, Backed, Past
    <3>5. QED BY <1>4, <3>1, <3>2, <3>3, <3>4 DEF Admin, OpenOrder, OpenSale, OpenCoupon, Open,
                AdminGivesUp, AdminReview, AdminEditsCoupon, shop
  <2>4. ASSUME NEW o \in Orders PROVE order[o].claim # 0 => order[o].claim \in Claims
    BY DEF OrderRow, Claims
  <2>5. ASSUME NEW o \in Orders
        PROVE  /\ order'[o].status = "pending_payment" /\ order'[o].claim # 0
                      => Held(claim', order'[o].claim, o, "locked")
               /\ order'[o].claim # 0 /\ Past(order'[o]) /\ money'[o] # "returned"
                      => Held(claim', order'[o].claim, o, "used")
    <3>1. order'[o].status = "pending_payment" /\ order[o].claim # 0
              => Held(claim, order[o].claim, o, "locked")
      BY <2>3 DEF CouponInv
    <3>2. QED BY <2>1, <2>2, <2>3, <2>4, <3>1
  <2>6. ASSUME NEW b \in Admins, desk'[b].kind = "order"
        PROVE  /\ desk'[b].copy.claim = order'[desk'[b].id].claim
               /\ order'[desk'[b].id].status # "absent" /\ desk'[b].copy.status # "absent"
               /\ desk'[b].copy.claim # 0 /\ Past(desk'[b].copy) /\ money'[desk'[b].id] # "returned"
                      => Held(claim', desk'[b].copy.claim, desk'[b].id, "used")
    <3>1. \/ desk'[b] = desk[b]
          \/ \E o \in Orders : desk'[b] = OrderCopy(o) /\ order[o].status # "absent"
      BY <1>4, <2>6 DEF Admin, OpenOrder, OpenSale, OpenCoupon, Open, AdminGivesUp, AdminCancel, Close,
           AdminShip, AdminReview, AdminCompletesRefund, AdminEditsCoupon, Nothing, SaleCopy,
           CouponCopy
    <3>2. ASSUME NEW o \in Orders, NEW row, desk'[b].id = o, desk'[b].copy = row,
                 row.claim = order[o].claim, order[o].status # "absent", row.status # "absent",
                 Backed(o, row)
          PROVE  /\ desk'[b].copy.claim = order'[desk'[b].id].claim
                 /\ order'[desk'[b].id].status # "absent" /\ desk'[b].copy.status # "absent"
                 /\ desk'[b].copy.claim # 0 /\ Past(desk'[b].copy) /\ money'[desk'[b].id] # "returned"
                      => Held(claim', desk'[b].copy.claim, desk'[b].id, "used")
      BY <2>1, <2>2, <2>3, <2>4, <3>2 DEF Backed
    <3>3. CASE desk'[b] = desk[b]
      <4>1. desk[b].kind = "order" /\ desk[b].id \in Orders
        BY <2>6, <3>3, DeskType
      <4>2. /\ desk[b].copy.claim = order[desk[b].id].claim
            /\ order[desk[b].id].status # "absent" /\ desk[b].copy.status # "absent"
            /\ Backed(desk[b].id, desk[b].copy)
        BY <4>1 DEF CouponInv
      <4>3. QED BY <3>2, <3>3, <4>1, <4>2
    <3>4. ASSUME NEW o \in Orders, desk'[b] = OrderCopy(o), order[o].status # "absent"
          PROVE  desk'[b].id = o /\ desk'[b].copy = order[o] /\ Backed(o, order[o])
      BY <3>4 DEF OrderCopy, CouponInv
    <3>5. QED BY <3>1, <3>2, <3>3, <3>4
  <2>7. QED BY <2>5, <2>6 DEF CouponInv, Backed
<1>5. QED BY <1>1, <1>2, <1>3, <1>4 DEF Next

\* As long as nobody opens a list of coupons, every discount has its row: locked for the
\* order while it may be paid, used by it from then on until the money is returned, for any
\* number of orders, users and admins with copies of any age.
THEOREM DiscountsAreBacked ==
    ASSUME Browsers = {}
    PROVE  Spec => []CouponBacksDiscount
<1>1. Init => CouponInv
  BY DEF Init, NoOrder, Placed, Nothing, CouponInv, Backed, Past
<1>2. TypeOK /\ CouponInv /\ [Next]_vars => CouponInv'
  BY CouponInvNext
<1>3. TypeOK /\ CouponInv => CouponBacksDiscount
  BY DEF TypeOK, CouponInv, Backed, Held, Past, CouponBacksDiscount
<1>4. QED BY <1>1, <1>2, <1>3, TypeCorrect, PTL DEF Spec

(***************************************************************************)
(* The limit per user.  Only a claim makes a row, and it counts the rows   *)
(* there are, not the counter an admin may have saved over.                *)
(***************************************************************************)
\* Nobody's rows change.
SameOwners == \A u \in User : RowsOf(u)' = RowsOf(u)

\* Rewriting rows to rows of the same users changes nobody's rows.
LEMMA SameOwnersUpdate ==
    ASSUME TypeOK, TypeOK',
           \A c \in Claims : /\ claim'[c].user = claim[c].user
                             /\ claim'[c].status = "absent" <=> claim[c].status = "absent"
    PROVE  SameOwners
BY DEF SameOwners, RowsOf, Rows

LEMMA ReleaseKeepsOwners ==
    ASSUME TypeOK, TypeOK', NEW set, Update(set, GivenBack),
           \A c \in set : claim[c].status # "absent"
    PROVE  SameOwners
BY SameOwnersUpdate DEF TypeOK, CouponsOK, Update, GivenBack, Row

LEMMA ConsumeKeepsOwners ==
    ASSUME TypeOK, TypeOK', NEW o, ConsumeForOrder(o)
    PROVE  SameOwners
BY SameOwnersUpdate DEF TypeOK, CouponsOK, ConsumeForOrder, LockedFor, Update, Row

LEMMA ReturnKeepsOwners ==
    ASSUME TypeOK, TypeOK', NEW o, ReturnForRefund(o)
    PROVE  SameOwners
<1>1. CASE UNCHANGED coupons
  BY <1>1 DEF SameOwners, RowsOf, Rows, coupons
<1>2. CASE Update(UsedFor(o), LAMBDA row : Row("returned", row.user, 0))
  BY <1>2, SameOwnersUpdate DEF TypeOK, CouponsOK, UsedFor, Update, Row
<1>3. QED BY <1>1, <1>2 DEF ReturnForRefund

LEMMA LockKeepsOwners ==
    ASSUME TypeOK, TypeOK', NEW c \in Claims, NEW o, Usable(c), Lock(c, o)
    PROVE  SameOwners
BY SameOwnersUpdate DEF TypeOK, CouponsOK, Usable, Lock, Row

LEMMA RowsFinite ==
    ASSUME NEW u
    PROVE  IsFiniteSet(RowsOf(u)) /\ Cardinality(RowsOf(u)) \in Nat
<1>1. IsFiniteSet(Claims)
  BY FS_Interval DEF Claims
<1>2. RowsOf(u) \in SUBSET Claims
  BY DEF RowsOf, Rows
<1>3. IsFiniteSet(RowsOf(u))
  BY <1>1, <1>2, FS_Subset
<1>4. QED BY <1>3, FS_CardinalityType

\* Whatever a step does to the rows, it keeps their owners or is a claim.
LEMMA OwnersNext ==
    ASSUME TypeOK, TypeOK', [Next]_vars
    PROVE  SameOwners \/ \E u \in User, c \in Claims : ClaimCoupon(u, c)
<1>1. ASSUME claim' = claim PROVE SameOwners
  BY <1>1 DEF SameOwners, RowsOf, Rows
<1>2. ASSUME ReleaseExpiredLocks(Pending) PROVE SameOwners
  <2>1. \A c \in {d \in Lapsed : claim[d].order \notin Pending} : claim[c].status # "absent"
    BY DEF Lapsed
  <2>2. QED BY <1>2, <2>1, ReleaseKeepsOwners DEF ReleaseExpiredLocks
<1>3. ASSUME NEW u \in Browsers, ReleaseLazily(u) PROVE SameOwners
  <2>1. \A c \in {d \in Lapsed : claim[d].user = u} : claim[c].status # "absent"
    BY DEF Lapsed
  <2>2. QED BY <1>3, <2>1, ReleaseKeepsOwners DEF ReleaseLazily
<1>4. ASSUME NEW u \in Browsers, ExpireOnList(u) PROVE SameOwners
  BY <1>4, SameOwnersUpdate DEF ExpireOnList, Update, Row, TypeOK, CouponsOK
<1>5. ASSUME NEW c \in Claims, LockLapses(c) PROVE SameOwners
  BY <1>5, SameOwnersUpdate DEF LockLapses, TypeOK, CouponsOK, ClaimRow
<1>6. CASE OnCoupons /\ UNCHANGED <<shop, desk>>
  BY <1>1, <1>2, <1>3, <1>4, <1>5, <1>6 DEF OnCoupons, WindowCloses
<1>7. ASSUME NEW o \in Orders, ReleaseForOrder(o) PROVE SameOwners
  <2>1. \A c \in LockedFor(o) : claim[c].status # "absent"
    BY DEF LockedFor
  <2>2. QED BY <1>7, <2>1, ReleaseKeepsOwners DEF ReleaseForOrder
<1>8. ASSUME NEW o \in Orders, OnOrder(o) PROVE SameOwners
  <2>1. ASSUME NEW u \in User, NEW q \in 1..MaxQuantity, NEW c \in 0..NumClaims, Checkout(o, u, q, c)
        PROVE  SameOwners
    <3>1. CASE c = 0
      BY <1>1, <2>1, <3>1 DEF Checkout
    <3>2. CASE c # 0
      <4>1. c \in Claims /\ Usable(c) /\ Lock(c, o)
        BY <2>1, <3>2 DEF Checkout, Claims
      <4>2. QED BY <4>1, LockKeepsOwners
    <3>3. QED BY <3>1, <3>2
  <2>2. CASE CancelOrder(o)
    BY <1>7, <2>2 DEF CancelOrder, CancelAs
  <2>3. CASE Pay(o)
    BY <1>1, <2>3, ConsumeKeepsOwners DEF Pay, coupons
  <2>4. CASE SettleRefund(o)
    BY <2>4, ReturnKeepsOwners DEF SettleRefund
  <2>5. QED BY <1>1, <1>8, <2>1, <2>2, <2>3, <2>4 DEF OnOrder, RequestRefund, RefundFails, ConfirmDelivered,
                ApplyAfterSale, coupons
<1>9. ASSUME NEW a \in Admins, Admin(a) PROVE SameOwners
  <2>1. CASE AdminCancel(a)
    <3>1. desk[a].id \in Orders /\ ReleaseForOrder(desk[a].id)
      BY <2>1, DeskType DEF AdminCancel, CancelAs, Close
    <3>2. LockedFor(desk[a].id) \subseteq {c \in Claims : claim[c].status # "absent"}
      BY DEF LockedFor
    <3>3. QED BY <3>1, <3>2, ReleaseKeepsOwners DEF ReleaseForOrder
  <2>2. QED BY <1>1, <1>9, <2>1 DEF Admin, OpenOrder, OpenSale, OpenCoupon, Open, AdminGivesUp,
              AdminShip, AdminReview, AdminCompletesRefund, AdminEditsCoupon, shop, coupons
<1>10. CASE UNCHANGED vars
  BY <1>1, <1>10 DEF vars
<1>11. QED BY <1>6, <1>8, <1>9, <1>10 DEF Next

LEMMA ClaimKeepsLimit ==
    ASSUME TypeOK, PerUserHolds, NEW u \in User, NEW c \in Claims, ClaimCoupon(u, c)
    PROVE  PerUserHolds'
<1> SUFFICES ASSUME NEW v \in User PROVE Cardinality(RowsOf(v)') <= PerUserLimit
  BY DEF PerUserHolds
<1>1. CASE v # u
  <2>1. RowsOf(v)' = RowsOf(v)
    BY <1>1 DEF ClaimCoupon, RowsOf, Rows, Row, TypeOK, CouponsOK
  <2>2. QED BY <2>1 DEF PerUserHolds
<1>2. CASE v = u
  <2>1. RowsOf(v)' = RowsOf(v) \cup {c}
    BY <1>2 DEF ClaimCoupon, RowsOf, Rows, Row, TypeOK, CouponsOK
  <2>2. c \notin RowsOf(v) /\ Cardinality(RowsOf(v)) < PerUserLimit
    BY <1>2 DEF ClaimCoupon, MayClaim, RowsOf
  <2>3. Cardinality(RowsOf(v) \cup {c}) = Cardinality(RowsOf(v)) + 1
    BY <2>2, RowsFinite, FS_AddElement
  <2>4. QED BY <2>1, <2>2, <2>3, RowsFinite
<1>3. QED BY <1>1, <1>2

\* No user ever has more rows of the coupon than the limit, even when an admin has set the
\* coupon's counters back (claim counts the rows under the coupon's lock).
THEOREM NobodyExceedsLimit == Spec => []PerUserHolds
<1>1. Init => PerUserHolds
  <2> SUFFICES ASSUME Init, NEW u \in User PROVE Cardinality(RowsOf(u)) <= PerUserLimit
    BY DEF PerUserHolds
  <2>1. RowsOf(u) = {}
    BY DEF Init, CouponsInit, Absent, Row, RowsOf, Rows
  <2>2. QED BY <2>1, FS_EmptySet
<1>2. TypeOK /\ TypeOK' /\ PerUserHolds /\ [Next]_vars => PerUserHolds'
  <2> SUFFICES ASSUME TypeOK, TypeOK', PerUserHolds, [Next]_vars PROVE PerUserHolds'
    OBVIOUS
  <2>1. CASE SameOwners
    BY <2>1 DEF SameOwners, PerUserHolds
  <2>2. CASE \E u \in User, c \in Claims : ClaimCoupon(u, c)
    BY <2>2, ClaimKeepsLimit
  <2>3. QED BY <2>1, <2>2, OwnersNext
<1>3. QED BY <1>1, <1>2, TypeCorrect, PTL DEF Spec

(***************************************************************************)
(* Which rows bear the number of an order.  A row is given a number only   *)
(* for an order that is not there yet, so no second row can bear it; this  *)
(* holds beside a back office and open coupon lists, for no admin brings   *)
(* an order's absence back.                                                *)
(***************************************************************************)
Bears(row) == row.status \in {"locked", "used"}
NumbersAreUnique ==
    /\ \A c \in Claims : Bears(claim[c]) => /\ claim[c].order \in Orders
                                            /\ order[claim[c].order].status # "absent"
    /\ \A c, d \in Claims : Bears(claim[c]) /\ Bears(claim[d]) /\ claim[c].order = claim[d].order
                                => c = d
    /\ \A c \in UsedRows : money[claim[c].order] # "none"

\* A row that is given back bears no number.
LEMMA ReleaseBears ==
    ASSUME TypeOK, NEW set, Update(set, GivenBack), NEW c \in Claims, Bears(claim'[c])
    PROVE  claim'[c] = claim[c]
<1>1. claim'[c] = claim[c] \/ claim'[c] = GivenBack(claim[c])
  BY DEF Update
<1>2. ~ Bears(GivenBack(claim[c]))
  BY DEF Bears, GivenBack, Row
<1>3. QED BY <1>1, <1>2

LEMMA ReturnBears ==
    ASSUME TypeOK, NEW o, ReturnForRefund(o), NEW c \in Claims, Bears(claim'[c])
    PROVE  claim'[c] = claim[c]
<1>1. CASE UNCHANGED coupons
  BY <1>1 DEF coupons
<1>2. CASE Update(UsedFor(o), LAMBDA row : Row("returned", row.user, 0))
  <2>1. claim'[c] = claim[c] \/ claim'[c] = Row("returned", claim[c].user, 0)
    BY <1>2 DEF Update
  <2>2. ~ Bears(Row("returned", claim[c].user, 0))
    BY DEF Bears, Row
  <2>3. QED BY <2>1, <2>2
<1>3. QED BY <1>1, <1>2 DEF ReturnForRefund

\* A payment uses the rows that bear its order's number and no other.
LEMMA ConsumeBears ==
    ASSUME TypeOK, NEW o, ConsumeForOrder(o), NEW c \in Claims
    PROVE  IF claim[c].status = "locked" /\ claim[c].order = o
           THEN claim'[c].status = "used" /\ claim'[c].order = o
           ELSE claim'[c] = claim[c]
<1>1. claim'[c] = IF c \in LockedFor(o) THEN Row("used", claim[c].user, claim[c].order) ELSE claim[c]
  BY DEF ConsumeForOrder, Update
<1>2. QED BY <1>1 DEF LockedFor, Row

\* A row that bears a number has borne it, and is used only once the order is paid ...
BoreBefore(c) ==
    /\ Bears(claim[c])
    /\ claim'[c].order = claim[c].order
    /\ claim'[c].status = "used" => claim[c].status = "used" \/ money'[claim[c].order] # "none"
\* ... or it is given the number of an order that is placed in this step.
GivenNow(c) ==
    \E o \in Orders : /\ order[o].status = "absent" /\ order'[o].status # "absent"
                      /\ claim'[c].order = o /\ claim'[c].status = "locked"
                      /\ \A d \in Claims \ {c} : claim'[d] = claim[d]

LEMMA BearsNext ==
    ASSUME TypeOK, TypeOK', [Next]_vars, NEW c \in Claims, Bears(claim'[c])
    PROVE  BoreBefore(c) \/ GivenNow(c)
<1>1. ASSUME claim'[c] = claim[c] PROVE BoreBefore(c)
  BY <1>1 DEF BoreBefore, Bears
<1>2. ASSUME NEW set, Update(set, GivenBack) PROVE BoreBefore(c)
  BY <1>1, <1>2, ReleaseBears
<1>3. CASE OnCoupons /\ UNCHANGED <<shop, desk>>
  <2>1. ASSUME NEW u \in User, NEW d \in Claims, ClaimCoupon(u, d) PROVE BoreBefore(c)
    <3>1. claim'[c] = IF c = d THEN Row("available", u, 0) ELSE claim[c]
      BY <2>1 DEF ClaimCoupon, TypeOK, CouponsOK
    <3>2. QED BY <1>1, <3>1 DEF Row, Bears
  <2>2. ASSUME NEW u \in Browsers, ExpireOnList(u) PROVE BoreBefore(c)
    <3>1. claim'[c] = claim[c] \/ claim'[c] = Row("expired", claim[c].user, claim[c].order)
      BY <2>2 DEF ExpireOnList, Update
    <3>2. QED BY <1>1, <3>1 DEF Row, Bears
  <2>3. ASSUME NEW d \in Claims, LockLapses(d) PROVE BoreBefore(c)
    <3>1. claim'[c].status = claim[c].status /\ claim'[c].order = claim[c].order
      BY <2>3 DEF LockLapses, TypeOK, CouponsOK, ClaimRow
    <3>2. QED BY <3>1 DEF BoreBefore, Bears
  <2>4. QED
    BY <1>1, <1>2, <1>3, <2>1, <2>2, <2>3 DEF OnCoupons, ReleaseExpiredLocks, ReleaseLazily, WindowCloses
<1>4. ASSUME NEW o \in Orders, OnOrder(o) PROVE BoreBefore(c) \/ GivenNow(c)
  <2>1. ASSUME NEW u \in User, NEW q \in 1..MaxQuantity, NEW d \in 0..NumClaims, Checkout(o, u, q, d)
        PROVE  BoreBefore(c) \/ GivenNow(c)
    <3>1. CASE d = 0
      BY <1>1, <2>1, <3>1 DEF Checkout
    <3>2. CASE d # 0
      <4>1. d \in Claims /\ Lock(d, o) /\ order[o].status = "absent"
            /\ order' = [order EXCEPT ![o] = Placed(u, q, d)]
        BY <2>1, <3>2 DEF Checkout, Claims
      <4>2. \A e \in Claims \ {d} : claim'[e] = claim[e]
        BY <4>1 DEF Lock, TypeOK, CouponsOK
      <4>3. claim'[d].order = o /\ claim'[d].status = "locked"
        BY <4>1 DEF Lock, Row, TypeOK, CouponsOK
      <4>4. order'[o].status # "absent"
        BY <4>1 DEF Placed, TypeOK
      <4>5. QED BY <1>1, <4>1, <4>2, <4>3, <4>4 DEF GivenNow
    <3>3. QED BY <3>1, <3>2
  <2>2. CASE CancelOrder(o)
    BY <1>2, <2>2 DEF CancelOrder, CancelAs, ReleaseForOrder
  <2>3. CASE Pay(o)
    <3>1. CASE ConsumeForOrder(o) /\ money' = [money EXCEPT ![o] = "captured"]
      <4>1. money'[o] # "none"
        BY <3>1 DEF TypeOK
      <4>2. claim'[c] = claim[c] \/ (claim[c].status = "locked" /\ claim[c].order = o
                                       /\ claim'[c].order = o)
        BY <3>1, ConsumeBears
      <4>3. QED BY <1>1, <4>1, <4>2 DEF BoreBefore, Bears
    <3>2. QED BY <1>1, <2>3, <3>1 DEF Pay, coupons
  <2>4. CASE SettleRefund(o)
    BY <1>1, <2>4, ReturnBears DEF SettleRefund
  <2>5. QED BY <1>1, <1>4, <2>1, <2>2, <2>3, <2>4 DEF OnOrder, RequestRefund, RefundFails,
                ConfirmDelivered, ApplyAfterSale, coupons
<1>5. ASSUME NEW a \in Admins, Admin(a) PROVE BoreBefore(c)
  <2>1. CASE AdminCancel(a)
    BY <1>2, <2>1 DEF AdminCancel, CancelAs, ReleaseForOrder
  <2>2. QED BY <1>1, <1>5, <2>1 DEF Admin, OpenOrder, OpenSale, OpenCoupon, Open, AdminGivesUp,
              AdminShip, AdminReview, AdminCompletesRefund, AdminEditsCoupon, shop, coupons
<1>6. CASE UNCHANGED vars
  BY <1>1, <1>6 DEF vars
<1>7. QED BY <1>3, <1>4, <1>5, <1>6 DEF Next

\* An order that was placed is there for good, also when an old copy is saved.
LEMMA OrdersStay ==
    ASSUME TypeOK, [Next]_vars, NEW o \in Orders, order[o].status # "absent"
    PROVE  order'[o].status # "absent"
<1>1. ASSUME NEW p \in Orders, OnOrder(p) PROVE order'[o].status # "absent"
  <2>1. ASSUME NEW row, order' = [order EXCEPT ![p] = row],
               row.status = "absent" => order[p].status = "absent"
        PROVE  order'[o].status # "absent"
    <3>1. order'[o] = IF o = p THEN row ELSE order[o]
      BY <2>1 DEF TypeOK
    <3>2. QED BY <2>1, <3>1
  <2>2. ASSUME NEW u \in User, NEW q \in 1..MaxQuantity, NEW c \in 0..NumClaims, Checkout(p, u, q, c)
        PROVE  order'[o].status # "absent"
    <3>1. order' = [order EXCEPT ![p] = Placed(u, q, c)] /\ Placed(u, q, c).status # "absent"
      BY <2>2 DEF Checkout, Placed
    <3>2. QED BY <2>1, <3>1
  <2>3. /\ [order[p] EXCEPT !.status = "cancelled"].status = "cancelled"
        /\ [order[p] EXCEPT !.status = "delivered"].status = "delivered"
        /\ [order[p] EXCEPT !.status = "paid", !.payment_status = "paid"].status = "paid"
        /\ \A s : [order[p] EXCEPT !.payment_status = s].status = order[p].status
    <3>1. order[p] \in OrderRow
      BY DEF TypeOK
    <3>2. QED BY <3>1 DEF OrderRow
  <2>4. CASE CancelOrder(p)
    <3>1. order' = [order EXCEPT ![p] = [order[p] EXCEPT !.status = "cancelled"]]
      BY <2>4 DEF CancelOrder, CancelAs
    <3>2. QED BY <2>1, <2>3, <3>1
  <2>5. CASE Pay(p)
    <3>1. \/ order' = [order EXCEPT ![p] = [order[p] EXCEPT !.status = "paid", !.payment_status = "paid"]]
          \/ order' = [order EXCEPT ![p] = [order[p] EXCEPT !.payment_status = "refunding"]]
      BY <2>5 DEF Pay
    <3>2. CASE order' = [order EXCEPT ![p] = [order[p] EXCEPT !.status = "paid", !.payment_status = "paid"]]
      BY <2>1, <2>3, <3>2
    <3>3. CASE order' = [order EXCEPT ![p] = [order[p] EXCEPT !.payment_status = "refunding"]]
      BY <2>1, <2>3, <3>3
    <3>4. QED BY <3>1, <3>2, <3>3
  <2>6. CASE RequestRefund(p) \/ RefundFails(p) \/ SettleRefund(p)
    <3>1. \E s : order' = [order EXCEPT ![p] = [order[p] EXCEPT !.payment_status = s]]
      BY <2>6 DEF RequestRefund, RefundFails, SettleRefund
    <3>2. QED BY <2>1, <2>3, <3>1
  <2>7. CASE ConfirmDelivered(p)
    <3>1. order' = [order EXCEPT ![p] = [order[p] EXCEPT !.status = "delivered"]]
      BY <2>7 DEF ConfirmDelivered
    <3>2. QED BY <2>1, <2>3, <3>1
  <2>8. QED BY <1>1, <2>2, <2>4, <2>5, <2>6, <2>7 DEF OnOrder, ApplyAfterSale
<1>2. ASSUME NEW a \in Admins, Admin(a) PROVE order'[o].status # "absent"
  <2>1. ASSUME NEW s \in {"cancelled", "shipped"}, desk[a].copy \in OrderRow,
               order' = [order EXCEPT ![desk[a].id] = [desk[a].copy EXCEPT !.status = s]]
        PROVE  order'[o].status # "absent"
    <3>1. [desk[a].copy EXCEPT !.status = s].status = s
      BY <2>1 DEF OrderRow
    <3>2. order'[o] = order[o] \/ order'[o] = [desk[a].copy EXCEPT !.status = s]
      BY <2>1 DEF TypeOK
    <3>3. QED BY <3>1, <3>2
  <2>2. CASE AdminCancel(a)
    BY <2>1, <2>2, DeskType DEF AdminCancel, CancelAs, Close
  <2>3. CASE AdminShip(a)
    BY <2>1, <2>3, DeskType DEF AdminShip, Close
  <2>4. CASE AdminCompletesRefund(a)
    BY <2>4 DEF AdminCompletesRefund, TypeOK, OrderRow
  <2>5. QED BY <1>2, <2>2, <2>3, <2>4 DEF Admin, OpenOrder, OpenSale, OpenCoupon, Open,
              AdminGivesUp, AdminReview, AdminEditsCoupon, shop
<1>3. QED BY <1>1, <1>2 DEF Next, vars, shop

LEMMA NumbersNext == TypeOK /\ TypeOK' /\ NumbersAreUnique /\ [Next]_vars => NumbersAreUnique'
<1> SUFFICES ASSUME TypeOK, TypeOK', NumbersAreUnique, [Next]_vars PROVE NumbersAreUnique'
  OBVIOUS
<1>1. \A c \in Claims : Bears(claim'[c]) => BoreBefore(c) \/ GivenNow(c)
  BY BearsNext
<1>2. ASSUME NEW c \in Claims, Bears(claim'[c])
      PROVE  claim'[c].order \in Orders /\ order'[claim'[c].order].status # "absent"
  <2>1. CASE BoreBefore(c)
    BY <2>1, OrdersStay DEF BoreBefore, NumbersAreUnique
  <2>2. CASE GivenNow(c)
    BY <2>2 DEF GivenNow
  <2>3. QED BY <1>1, <1>2, <2>1, <2>2
<1>3. ASSUME NEW c \in Claims, NEW d \in Claims, Bears(claim'[c]), Bears(claim'[d]),
             claim'[c].order = claim'[d].order
      PROVE  c = d
  \* A number given now is one no row bore before, and it is given to one row.
  <2>1. ASSUME NEW e \in Claims, NEW f \in Claims, GivenNow(e), Bears(claim'[f]),
               claim'[e].order = claim'[f].order
        PROVE  e = f
    <3>1. PICK o \in Orders : /\ order[o].status = "absent" /\ claim'[e].order = o
                              /\ \A g \in Claims \ {e} : claim'[g] = claim[g]
      BY <2>1 DEF GivenNow
    <3>2. ASSUME e # f PROVE FALSE
      <4>1. Bears(claim[f]) /\ claim[f].order = o
        BY <2>1, <3>1, <3>2
      <4>2. QED BY <3>1, <4>1 DEF NumbersAreUnique
    <3>3. QED BY <3>2
  <2>2. CASE BoreBefore(c) /\ BoreBefore(d)
    BY <1>3, <2>2 DEF BoreBefore, NumbersAreUnique
  <2>3. QED BY <1>1, <1>3, <2>1, <2>2
<1>4. ASSUME NEW c \in Claims, claim'[c].status = "used"
      PROVE  money'[claim'[c].order] # "none"
  <2>1. ~ GivenNow(c) /\ Bears(claim'[c])
    BY <1>4 DEF GivenNow, Bears
  <2>2. BoreBefore(c)
    BY <1>1, <2>1
  <2>3. claim[c].status = "used" => claim[c].order \in Orders /\ money[claim[c].order] # "none"
    BY DEF NumbersAreUnique, UsedRows, Rows, Bears
  <2>4. QED BY <1>4, <2>2, <2>3, MoneyStays DEF BoreBefore
<1>5. QED BY <1>2, <1>3, <1>4 DEF NumbersAreUnique, UsedRows, Rows

LEMMA AlwaysUnique == Spec => []NumbersAreUnique
<1>1. Init => NumbersAreUnique
  BY DEF Init, CouponsInit, Absent, Row, NumbersAreUnique, Bears, UsedRows, Rows
<1>2. QED BY <1>1, NumbersNext, TypeCorrect, PTL DEF Spec

\* A used row names an order that was paid and no other row names it, whatever admins save
\* and whoever's open list releases locks (lock, consume_for_order, release_for_order).
THEOREM UsedRowsArePaid == Spec => []UsedIsPaid
<1>1. TypeOK /\ NumbersAreUnique => UsedIsPaid
  <2> SUFFICES ASSUME TypeOK, NumbersAreUnique, NEW c \in UsedRows
               PROVE  /\ claim[c].order # 0 /\ money[claim[c].order] # "none"
                      /\ UsedFor(claim[c].order) = {c}
    BY DEF UsedIsPaid
  <2>1. c \in Claims /\ claim[c].status = "used"
    BY DEF UsedRows, Rows
  <2>2. claim[c].order \in Orders /\ money[claim[c].order] # "none"
    BY <2>1 DEF NumbersAreUnique, Bears
  <2>3. UsedFor(claim[c].order) = {c}
    BY <2>1 DEF UsedFor, NumbersAreUnique, Bears
  <2>4. QED BY <2>2, <2>3
<1>2. QED BY <1>1, AlwaysUnique, TypeCorrect, PTL

(***************************************************************************)
(* The coupon's counters.  Each is written beside a row in two statements; *)
(* without an admin who saves the counters he read, they say what the rows *)
(* say, for the order's .first() row is the only one there is.             *)
(***************************************************************************)
Counted ==
    /\ Cardinality(Rows) = coupon.claimed_count
    /\ coupon.claimed_count <= TotalCount
    /\ coupon.used_count = Cardinality(UsedRows)

LEMMA ClaimsFinite ==
    ASSUME NEW set \in SUBSET Claims
    PROVE  IsFiniteSet(set) /\ Cardinality(set) \in Nat
<1>1. IsFiniteSet(Claims)
  BY FS_Interval DEF Claims
<1>2. IsFiniteSet(set)
  BY <1>1, FS_Subset
<1>3. QED BY <1>2, FS_CardinalityType

\* The steps as the counters see them.
SameCounts ==
    /\ Rows' = Rows /\ UsedRows' = UsedRows
    /\ coupon'.claimed_count = coupon.claimed_count /\ coupon'.used_count = coupon.used_count
OneClaimed ==
    /\ \E c \in Claims \ Rows : Rows' = Rows \cup {c}
    /\ UsedRows' = UsedRows
    /\ coupon.claimed_count < TotalCount /\ coupon'.claimed_count = coupon.claimed_count + 1
    /\ coupon'.used_count = coupon.used_count
OneUsed ==
    /\ Rows' = Rows
    /\ \E c \in Claims \ UsedRows : UsedRows' = UsedRows \cup {c}
    /\ coupon'.claimed_count = coupon.claimed_count /\ coupon'.used_count = coupon.used_count + 1
OneReturned ==
    /\ Rows' = Rows
    /\ \E c \in UsedRows : UsedRows' = UsedRows \ {c}
    /\ coupon'.claimed_count = coupon.claimed_count
    /\ coupon'.used_count = IF coupon.used_count > 0 THEN coupon.used_count - 1 ELSE coupon.used_count

LEMMA CountsFollow ==
    ASSUME TypeOK, Counted, SameCounts \/ OneClaimed \/ OneUsed \/ OneReturned
    PROVE  Counted'
<1> DEFINE claimed == coupon.claimed_count
           used == coupon.used_count
<1>0. /\ IsFiniteSet(Rows) /\ Cardinality(Rows) \in Nat
      /\ IsFiniteSet(UsedRows) /\ Cardinality(UsedRows) \in Nat
  BY ClaimsFinite DEF Rows, UsedRows
<1>1. claimed \in Nat /\ used \in Nat
  BY CouponFields DEF TypeOK
<1>2. Cardinality(Rows) = claimed /\ claimed <= TotalCount /\ used = Cardinality(UsedRows)
  BY DEF Counted
<1>3. CASE SameCounts
  BY <1>2, <1>3 DEF SameCounts, Counted
<1>4. CASE OneClaimed
  <2>1. PICK c \in Claims \ Rows : Rows' = Rows \cup {c}
    BY <1>4 DEF OneClaimed
  <2>2. Cardinality(Rows') = Cardinality(Rows) + 1
    BY <1>0, <2>1, FS_AddElement
  <2>3. /\ UsedRows' = UsedRows /\ claimed < TotalCount
        /\ coupon'.claimed_count = claimed + 1 /\ coupon'.used_count = used
    BY <1>4 DEF OneClaimed
  <2> HIDE DEF claimed, used
  <2>4. claimed + 1 <= TotalCount
    BY <1>1, <2>3
  <2>5. QED BY <1>2, <2>2, <2>3, <2>4 DEF Counted
<1>5. CASE OneUsed
  <2>1. PICK c \in Claims \ UsedRows : UsedRows' = UsedRows \cup {c}
    BY <1>5 DEF OneUsed
  <2>2. Cardinality(UsedRows') = Cardinality(UsedRows) + 1
    BY <1>0, <2>1, FS_AddElement
  <2>3. /\ Rows' = Rows
        /\ coupon'.claimed_count = claimed /\ coupon'.used_count = used + 1
    BY <1>5 DEF OneUsed
  <2> HIDE DEF claimed, used
  <2>4. QED BY <1>2, <2>2, <2>3 DEF Counted
<1>6. CASE OneReturned
  <2>1. PICK c \in UsedRows : UsedRows' = UsedRows \ {c}
    BY <1>6 DEF OneReturned
  <2>2. Cardinality(UsedRows') = Cardinality(UsedRows) - 1
    BY <1>0, <2>1, FS_RemoveElement
  <2>3. /\ Rows' = Rows /\ coupon'.claimed_count = claimed
        /\ coupon'.used_count = IF used > 0 THEN used - 1 ELSE used
    BY <1>6 DEF OneReturned
  <2> HIDE DEF claimed, used
  <2>4. UsedRows # {}
    BY <2>1
  <2>5. Cardinality(UsedRows) # 0
    BY <1>0, <2>4, FS_EmptySet
  <2>6. coupon'.used_count = used - 1
    BY <1>0, <1>2, <2>3, <2>5
  <2>7. QED BY <1>2, <2>2, <2>3, <2>6 DEF Counted
<1>7. QED BY <1>3, <1>4, <1>5, <1>6

\* Rewriting rows that are there, and are not used, to others that are not.
LEMMA SameCountsUpdate ==
    ASSUME TypeOK, TypeOK',
           \A c \in Claims : /\ claim'[c].status = "absent" <=> claim[c].status = "absent"
                             /\ claim'[c].status = "used" <=> claim[c].status = "used",
           coupon'.claimed_count = coupon.claimed_count, coupon'.used_count = coupon.used_count
    PROVE  SameCounts
BY DEF SameCounts, Rows, UsedRows

LEMMA ReleaseKeepsCounts ==
    ASSUME TypeOK, TypeOK', NEW set, Update(set, GivenBack), UNCHANGED coupon,
           \A c \in set : claim[c].status = "locked"
    PROVE  SameCounts
<1>1. ASSUME NEW c \in Claims
      PROVE  /\ claim'[c].status = "absent" <=> claim[c].status = "absent"
             /\ claim'[c].status = "used" <=> claim[c].status = "used"
  <2>1. claim'[c] = IF c \in set THEN GivenBack(claim[c]) ELSE claim[c]
    BY DEF Update
  <2>2. GivenBack(claim[c]).status \in {"available", "expired"}
    BY DEF GivenBack, Row
  <2>3. QED BY <2>1, <2>2
<1>2. QED BY <1>1, SameCountsUpdate

LEMMA LockKeepsCounts ==
    ASSUME TypeOK, TypeOK', NEW c \in Claims, NEW o, Usable(c), Lock(c, o), UNCHANGED coupon
    PROVE  SameCounts
<1>1. ASSUME NEW d \in Claims
      PROVE  /\ claim'[d].status = "absent" <=> claim[d].status = "absent"
             /\ claim'[d].status = "used" <=> claim[d].status = "used"
  <2>1. claim'[d] = IF d = c THEN Row("locked", claim[c].user, o) ELSE claim[d]
    BY DEF Lock, TypeOK, CouponsOK
  <2>2. QED BY <2>1 DEF Row, Usable
<1>2. QED BY <1>1, SameCountsUpdate

LEMMA ConsumeCounts ==
    ASSUME TypeOK, NumbersAreUnique, NEW o \in Orders, ConsumeForOrder(o)
    PROVE  SameCounts \/ OneUsed
<1>1. \A c \in Claims : IF c \in LockedFor(o) THEN claim'[c].status = "used"
                        ELSE claim'[c] = claim[c]
  BY ConsumeBears DEF LockedFor
<1>2. CASE LockedFor(o) = {}
  BY <1>1, <1>2 DEF ConsumeForOrder, SameCounts, Rows, UsedRows
<1>3. CASE LockedFor(o) # {}
  <2>1. PICK c \in LockedFor(o) : TRUE
    BY <1>3
  <2>2. LockedFor(o) = {c} /\ c \in Claims /\ claim[c].status = "locked"
    BY <2>1 DEF LockedFor, NumbersAreUnique, Bears
  <2>3. Rows' = Rows
    BY <1>1, <2>2 DEF Rows
  <2>4. c \notin UsedRows /\ UsedRows' = UsedRows \cup {c}
    BY <1>1, <2>2 DEF UsedRows, Rows
  <2>5. coupon' = Coupon(coupon.open, coupon.claimed_count, coupon.used_count + 1)
    BY <1>3 DEF ConsumeForOrder
  <2>6. QED BY <2>2, <2>3, <2>4, <2>5 DEF OneUsed, Coupon
<1>4. QED BY <1>2, <1>3

LEMMA ReturnCounts ==
    ASSUME TypeOK, NumbersAreUnique, NEW o \in Orders, ReturnForRefund(o)
    PROVE  SameCounts \/ OneReturned
<1>1. CASE UNCHANGED coupons
  BY <1>1 DEF SameCounts, Rows, UsedRows, coupons
<1>2. CASE coupon.open /\ UsedFor(o) # {}
  <2>1. /\ Update(UsedFor(o), LAMBDA row : Row("returned", row.user, 0))
        /\ coupon' = Coupon(coupon.open, coupon.claimed_count,
                            IF coupon.used_count > 0 THEN coupon.used_count - 1
                            ELSE coupon.used_count)
    BY <1>2 DEF ReturnForRefund
  <2>2. PICK c \in UsedFor(o) : TRUE
    BY <1>2
  <2>3. UsedFor(o) = {c} /\ c \in Claims /\ claim[c].status = "used"
    BY <2>2 DEF UsedFor, NumbersAreUnique, Bears
  <2>4. \A d \in Claims : IF d = c THEN claim'[d].status = "returned" ELSE claim'[d] = claim[d]
    BY <2>1, <2>3 DEF Update, Row
  <2>5. Rows' = Rows
    BY <2>3, <2>4 DEF Rows
  <2>6. c \in UsedRows /\ UsedRows' = UsedRows \ {c}
    BY <2>3, <2>4 DEF UsedRows, Rows
  <2>7. QED BY <2>1, <2>5, <2>6 DEF OneReturned, Coupon
<1>3. QED BY <1>1, <1>2 DEF ReturnForRefund

\* Without an admin, every step is one of the four.
LEMMA CountsNext ==
    ASSUME Admins = {}, TypeOK, TypeOK', NumbersAreUnique, [Next]_vars
    PROVE  SameCounts \/ OneClaimed \/ OneUsed \/ OneReturned
<1>1. ASSUME UNCHANGED <<claim, coupon>> PROVE SameCounts
  BY <1>1 DEF SameCounts, Rows, UsedRows
<1>2. CASE OnCoupons /\ UNCHANGED <<shop, desk>>
  <2>1. ASSUME NEW u \in User, NEW c \in Claims, ClaimCoupon(u, c) PROVE OneClaimed
    <3>1. \A d \in Claims : claim'[d] = IF d = c THEN Row("available", u, 0) ELSE claim[d]
      BY <2>1 DEF ClaimCoupon, TypeOK, CouponsOK
    <3>2. c \notin Rows /\ Rows' = Rows \cup {c}
      BY <2>1, <3>1 DEF ClaimCoupon, Rows, Row
    <3>3. claim[c].status = "absent"
      BY <3>2 DEF Rows
    <3>4. UsedRows' = UsedRows
      BY <3>1, <3>3 DEF UsedRows, Rows, Row
    <3>5. /\ coupon.claimed_count < TotalCount
          /\ coupon' = Coupon(coupon.open, coupon.claimed_count + 1, coupon.used_count)
      BY <2>1 DEF ClaimCoupon, MayClaim
    <3>6. QED BY <3>2, <3>4, <3>5 DEF OneClaimed, Coupon
  <2>2. ASSUME NEW set \in SUBSET Lapsed, Update(set, GivenBack), UNCHANGED coupon PROVE SameCounts
    BY <2>2, ReleaseKeepsCounts DEF Lapsed
  <2>3. CASE ReleaseExpiredLocks(Pending)
    BY <2>2, <2>3 DEF ReleaseExpiredLocks
  <2>4. ASSUME NEW u \in Browsers, ReleaseLazily(u) PROVE SameCounts
    BY <2>2, <2>4 DEF ReleaseLazily
  <2>5. ASSUME NEW u \in Browsers, ExpireOnList(u) PROVE SameCounts
    <3>1. ASSUME NEW c \in Claims
          PROVE  /\ claim'[c].status = "absent" <=> claim[c].status = "absent"
                 /\ claim'[c].status = "used" <=> claim[c].status = "used"
      BY <2>5 DEF ExpireOnList, Update, Row
    <3>2. QED BY <2>5, <3>1, SameCountsUpdate DEF ExpireOnList
  <2>6. ASSUME NEW c \in Claims, LockLapses(c) PROVE SameCounts
    <3>1. ASSUME NEW d \in Claims PROVE claim'[d].status = claim[d].status
      BY <2>6 DEF LockLapses, TypeOK, CouponsOK, ClaimRow
    <3>2. QED BY <2>6, <3>1, SameCountsUpdate DEF LockLapses
  <2>7. CASE WindowCloses
    BY <2>7 DEF WindowCloses, Coupon, SameCounts, Rows, UsedRows
  <2>8. QED BY <1>2, <2>1, <2>3, <2>4, <2>5, <2>6, <2>7 DEF OnCoupons
<1>3. ASSUME NEW o \in Orders, OnOrder(o) PROVE SameCounts \/ OneUsed \/ OneReturned
  <2>1. ASSUME NEW u \in User, NEW q \in 1..MaxQuantity, NEW c \in 0..NumClaims, Checkout(o, u, q, c)
        PROVE  SameCounts
    <3>1. CASE c = 0
      BY <1>1, <2>1, <3>1 DEF Checkout
    <3>2. CASE c # 0
      <4>1. c \in Claims /\ Usable(c) /\ Lock(c, o) /\ UNCHANGED coupon
        BY <2>1, <3>2 DEF Checkout, Claims
      <4>2. QED BY <4>1, LockKeepsCounts
    <3>3. QED BY <3>1, <3>2
  <2>2. CASE CancelOrder(o)
    BY <2>2, ReleaseKeepsCounts DEF CancelOrder, CancelAs, ReleaseForOrder, LockedFor
  <2>3. CASE Pay(o)
    BY <1>1, <2>3, ConsumeCounts DEF Pay, coupons
  <2>4. CASE SettleRefund(o)
    BY <2>4, ReturnCounts DEF SettleRefund
  <2>5. QED BY <1>1, <1>3, <2>1, <2>2, <2>3, <2>4 DEF OnOrder, RequestRefund, RefundFails,
                ConfirmDelivered, ApplyAfterSale, coupons
<1>4. CASE UNCHANGED vars
  BY <1>1, <1>4 DEF vars
<1>5. QED BY <1>2, <1>3, <1>4 DEF Next

\* Without an admin who saves the coupon he read, no more rows than were issued and the
\* counters say what the rows say, also beside open lists of coupons.
THEOREM QuotaHolds ==
    ASSUME Admins = {}
    PROVE  Spec => []WithinQuota
<1>1. Init => Counted
  <2> SUFFICES ASSUME Init PROVE Counted
    OBVIOUS
  <2>1. Rows = {} /\ UsedRows = {}
    BY DEF Init, CouponsInit, Absent, Row, Rows, UsedRows
  <2>2. coupon.claimed_count = 0 /\ coupon.used_count = 0
    BY DEF Init, CouponsInit, Coupon
  <2>3. QED BY <2>1, <2>2, FS_EmptySet DEF Counted
<1>2. TypeOK /\ TypeOK' /\ NumbersAreUnique /\ Counted /\ [Next]_vars => Counted'
  BY CountsNext, CountsFollow
<1>3. Counted /\ PerUserHolds => WithinQuota
  BY DEF Counted, PerUserHolds, WithinQuota
<1>4. QED BY <1>1, <1>2, <1>3, AlwaysUnique, NobodyExceedsLimit, TypeCorrect, PTL DEF Spec
=============================================================================
