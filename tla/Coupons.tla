------------------------------- MODULE Coupons -------------------------------
(***************************************************************************)
(* One coupon and the rows users claimed of it (PromotionService).  The    *)
(* operations are actions on these two tables; Orders composes them with   *)
(* the life of the orders they discount.  Discounts, scopes, audiences and *)
(* promo codes are left out: they decide whether a checkout is accepted,   *)
(* never what happens to the rows.                                         *)
(*                                                                         *)
(* A call that raises rolls its transaction back and is no step here.      *)
(***************************************************************************)
EXTENDS Integers, FiniteSets

CONSTANTS User, NoUser,
          NumOrders,      \* orders there may be
          NumClaims,      \* bound on the rows of user_coupons
          TotalCount,     \* Coupon.total_count
          PerUserLimit    \* Coupon.per_user_limit

ASSUME CouponsAssumption ==
    /\ NoUser \notin User
    /\ NumOrders \in Nat /\ NumClaims \in Nat
    /\ TotalCount \in Nat /\ PerUserLimit \in Nat

Claims == 1..NumClaims

VARIABLES coupon,   \* the Coupon row; open: active and within its window
          claim     \* claim[c]: a UserCoupon row; order: used_order_no, 0 for ''

coupons == <<coupon, claim>>

Row(status, user, order) == [status |-> status, user |-> user, order |-> order, lapsed |-> FALSE]
Absent == Row("absent", NoUser, 0)

ClaimStatus == {"absent", "available", "locked", "used", "expired", "returned"}
ClaimRow == [status: ClaimStatus, user: User \cup {NoUser}, order: 0..NumOrders, lapsed: BOOLEAN]
CouponRow == [open: BOOLEAN, claimed_count: Nat, used_count: Nat]

Coupon(open, claimed, used) == [open |-> open, claimed_count |-> claimed, used_count |-> used]

CouponsInit ==
    /\ coupon = Coupon(TRUE, 0, 0)
    /\ claim = [c \in Claims |-> Absent]

Rows == {c \in Claims : claim[c].status # "absent"}
RowsOf(u) == {c \in Rows : claim[c].user = u}
UsedRows == {c \in Rows : claim[c].status = "used"}
Usable(c) == coupon.open /\ claim[c].status \in {"available", "returned"}

LockedFor(o) == {c \in Claims : claim[c].status = "locked" /\ claim[c].order = o}
UsedFor(o) == {c \in Claims : claim[c].status = "used" /\ claim[c].order = o}

\* Rewrite the rows in set, each to what Of makes of it.
Update(set, Of(_)) == claim' = [c \in Claims |-> IF c \in set THEN Of(claim[c]) ELSE claim[c]]

(***************************************************************************)
(* Claiming, under the lock of the coupon's row.                           *)
(***************************************************************************)
\* Mutant of MayClaim: the rows the user already has are not counted.
MayClaimUncounted(u) == coupon.open /\ coupon.claimed_count < TotalCount
MayClaim(u) ==
    /\ coupon.open
    /\ coupon.claimed_count < TotalCount
    /\ Cardinality(RowsOf(u)) < PerUserLimit

ClaimCoupon(u, c) ==
    /\ MayClaim(u)
    /\ c \notin Rows /\ 1..c-1 \subseteq Rows
    /\ claim' = [claim EXCEPT ![c] = Row("available", u, 0)]
    /\ coupon' = Coupon(coupon.open, coupon.claimed_count + 1, coupon.used_count)

(***************************************************************************)
(* The row follows its order.  At most one row bears an order's number, so *)
(* the code's .first() takes all there is.                                 *)
(***************************************************************************)
\* Mutant of Lock: the row is used at once, as use() does.
LockAsUsed(c, o) == claim' = [claim EXCEPT ![c] = Row("used", claim[c].user, o)]
Lock(c, o) == claim' = [claim EXCEPT ![c] = Row("locked", claim[c].user, o)]

\* Mutant of ConsumeForOrder: the row stays locked, to lapse later.
ConsumeLater(o) == UNCHANGED coupons
ConsumeForOrder(o) ==
    /\ Update(LockedFor(o), LAMBDA row : Row("used", row.user, row.order))
    /\ coupon' = IF LockedFor(o) = {} THEN coupon
                 ELSE Coupon(coupon.open, coupon.claimed_count, coupon.used_count + 1)

GivenBack(row) == Row(IF coupon.open THEN "available" ELSE "expired", row.user, 0)

ReleaseForOrder(o) == Update(LockedFor(o), GivenBack) /\ UNCHANGED coupon

ReturnForRefund(o) ==
    IF coupon.open /\ UsedFor(o) # {}
    THEN /\ Update(UsedFor(o), LAMBDA row : Row("returned", row.user, 0))
         /\ coupon' = Coupon(coupon.open, coupon.claimed_count,
                             IF coupon.used_count > 0 THEN coupon.used_count - 1
                             ELSE coupon.used_count)
    ELSE UNCHANGED coupons

(***************************************************************************)
(* Lapsed locks.  The command releases those of orders no longer pending;  *)
(* opening the coupon list releases all of the user's, and then expires    *)
(* what the coupon's window left behind, in a transaction of its own.      *)
(***************************************************************************)
Lapsed == {c \in Claims : claim[c].status = "locked" /\ claim[c].lapsed}

ReleaseExpiredLocks(pending) ==
    /\ Update({c \in Lapsed : claim[c].order \notin pending}, GivenBack)
    /\ UNCHANGED coupon

ReleaseLazily(u) ==
    /\ Update({c \in Lapsed : claim[c].user = u}, GivenBack)
    /\ UNCHANGED coupon

ExpireOnList(u) ==
    /\ ~coupon.open
    /\ Update({c \in RowsOf(u) : claim[c].status \in {"available", "returned"}},
              LAMBDA row : Row("expired", row.user, row.order))
    /\ UNCHANGED coupon

\* A quarter of an hour has passed since the row was locked.
LockLapses(c) ==
    /\ claim[c].status = "locked" /\ ~claim[c].lapsed
    /\ claim' = [claim EXCEPT ![c].lapsed = TRUE]
    /\ UNCHANGED coupon

\* end_time is reached.
WindowCloses ==
    /\ coupon.open
    /\ coupon' = Coupon(FALSE, coupon.claimed_count, coupon.used_count)
    /\ UNCHANGED claim

CouponsOK ==
    /\ coupon \in CouponRow
    /\ claim \in [Claims -> ClaimRow]

(***************************************************************************)
(* No more rows than were issued, no more to a user than the limit, and    *)
(* the counters say what the rows say: claims of several users, payments   *)
(* and refunds each change a counter and a row in two statements.          *)
(***************************************************************************)
WithinQuota ==
    /\ Cardinality(Rows) = coupon.claimed_count
    /\ coupon.claimed_count <= TotalCount
    /\ coupon.used_count = Cardinality(UsedRows)
    /\ \A u \in User : Cardinality(RowsOf(u)) <= PerUserLimit
=============================================================================
