------------------------------- MODULE Account -------------------------------
(***************************************************************************)
(* The pages of a customer: the profile with its tabs (Profile.tsx), the   *)
(* coupons (CouponsPanel.tsx) and a shared one (CouponShare.tsx), the      *)
(* lookup of an order (TrackOrder.tsx), and the two pages that set a       *)
(* password (ForgotPasswordPage.tsx, SetPasswordPage.tsx).                 *)
(***************************************************************************)
EXTENDS Session

CONSTANTS Addresses,  \* the addresses that may exist
          Codes       \* the coupons of the centre

(***************************************************************************)
(* The profile: opening a tab, or a status of the orders, reads its list.  *)
(* An answer is taken whatever is open by then.                            *)
(***************************************************************************)
OrderTabs == {"", "pending_payment", "paid", "shipped", "delivered"}
ListOf == [orders |-> "orders", aftersale |-> "aftersales", reviews |-> "reviews", addresses |-> "addresses"]
NavGroups == [orders |-> {"orders", "aftersale"}, account |-> {"profile", "password", "addresses"},
              more |-> {"coupons", "history", "reviews"}, support |-> {"support"}]
ProfileTabs == UNION {NavGroups[g] : g \in DOMAIN NavGroups}
BlankProfile(tab) ==
  [tab |-> tab, status |-> "", orders |-> "none", got |-> {}, loading |-> {}, addresses |-> {}, default |-> NoVal, form |-> FALSE,
   name |-> "old", code |-> "none", cooling |-> FALSE, busy |-> {}]
TabOpens(s, tab, status) ==
  LET t == [s EXCEPT !.ui.tab = tab, !.ui.status = status]
  IN  IF tab \notin DOMAIN ListOf THEN t
      ELSE Get([t EXCEPT !.ui.loading = @ \cup {tab}], Call(ListOf[tab], IF tab = "orders" THEN status ELSE 1))
goTab == screen = "profile" /\ Room(1) /\ \E tab \in ProfileTabs \ {ui.tab} : Op(TabOpens(Here, tab, ui.status))
ChooseStatus == screen = "profile" /\ ui.tab = "orders" /\ Room(1) /\ \E st \in OrderTabs \ {ui.status} : Op(TabOpens(Here, "orders", st))
OrdersOffers == IF ui.tab = "orders" /\ "orders" \notin ui.loading /\ ui.orders # "none" THEN {"openOrder"} ELSE {}
AfterSalesOffers == IF ui.tab = "aftersale" /\ "aftersale" \in ui.got \ ui.loading THEN {"openOrder"} ELSE {}
ReviewsOffers == IF ui.tab = "reviews" /\ "reviews" \in ui.got \ ui.loading THEN {"openProduct"} ELSE {}
ProfileLinks == OrdersOffers \cup AfterSalesOffers \cup ReviewsOffers
(* The addresses. *)
AddressOffers ==
  IF ui.tab # "addresses" THEN {}
  ELSE {"form"} \cup (IF ui.form /\ "address" \notin ui.busy THEN {"save"} ELSE {})
       \cup (IF "addresses" \in ui.loading \/ ui.addresses = {} THEN {} ELSE {"delete"} \cup (IF ui.addresses = {ui.default} THEN {} ELSE {"default"}))
AddressNext ==
  /\ screen = "profile"
  /\ \/ "form" \in AddressOffers /\ Do([Here EXCEPT !.ui.form = ~@])
     \/ "save" \in AddressOffers /\ Room(1) /\ \E a \in Addresses \ ui.addresses :
          Op(Send([Here EXCEPT !.ui.busy = @ \cup {"address"}], Call("createAddress", a)))
     \/ "delete" \in AddressOffers /\ Room(1) /\ \E a \in ui.addresses : Op(Send(Here, Call("deleteAddress", a)))
     \/ "default" \in AddressOffers /\ Room(1) /\ \E a \in ui.addresses \ {ui.default} : Op(Send(Here, Call("setDefault", a)))
(* What was written is read again; a refusal is only told. *)
AddressWritten(s, c) ==
  LET t == IF c.op = "createAddress" THEN [s EXCEPT !.ui.busy = @ \ {"address"}, !.ui.form = @ /\ c.st # "ok"] ELSE s
  IN  IF c.st = "ok" THEN Get([t EXCEPT !.ui.loading = @ \cup {"addresses"}], Call("addresses", 1)) ELSE t
(* The nickname, which is who the customer is, and is read again. *)
handleSaveNickname == /\ screen = "profile" /\ ui.tab = "profile" /\ "name" \notin ui.busy /\ Room(1)
                      /\ Op(Send([Here EXCEPT !.ui.busy = @ \cup {"name"}], Call("rename", "new")))
NameSaved(s, c) ==
  IF c.op = "me" THEN [s EXCEPT !.ui.busy = @ \ {"name"}, !.ui.name = IF c.st = "ok" THEN c.got ELSE @]
  ELSE IF c.st = "ok" THEN Get(s, Call("me", 1)) ELSE [s EXCEPT !.ui.busy = @ \ {"name"}]
(* The password: the old one and a code that was sent by mail; no second code for a
   minute. *)
handleSendCode == /\ screen = "profile" /\ ui.tab = "password" /\ ~ui.cooling /\ "code" \notin ui.busy /\ Room(1)
                  /\ Op(Send([Here EXCEPT !.ui.busy = @ \cup {"code"}], Call("sendCode", 1)))
CodeSent(s, c) ==
  LET t == [s EXCEPT !.ui.busy = @ \ {"code"}]
  IN  IF c.st = "ok" THEN [t EXCEPT !.ui.code = "sent", !.ui.cooling = TRUE] ELSE t
CoolsDown == screen \in {"profile", "forgot"} /\ ui.cooling /\ Do([Here EXCEPT !.ui.cooling = FALSE])
handleChangePw == /\ screen = "profile" /\ ui.tab = "password" /\ ui.code = "sent" /\ "password" \notin ui.busy /\ Room(1)
                  /\ Op(Send([Here EXCEPT !.ui.busy = @ \cup {"password"}], Call("password", 1)))
PasswordChanged(s, c) == [s EXCEPT !.ui.busy = @ \ {"password"}, !.ui.code = IF c.st = "ok" THEN "none" ELSE @]
ProfileReply(s, c) ==
  IF c.op = "orders" THEN [s EXCEPT !.ui.loading = @ \ {"orders"}, !.ui.orders = IF c.st = "ok" THEN c.arg ELSE "none"]
  ELSE IF c.op = "addresses" THEN [s EXCEPT !.ui.loading = @ \ {"addresses"}, !.ui.addresses = IF c.st = "ok" THEN c.got.all ELSE {},
                                            !.ui.default = IF c.st = "ok" THEN c.got.default ELSE NoVal]
  ELSE IF c.op \in {"aftersales", "reviews"}
    THEN LET tab == IF c.op = "reviews" THEN "reviews" ELSE "aftersale"
         IN  [s EXCEPT !.ui.loading = @ \ {tab}, !.ui.got = IF c.st = "ok" THEN @ \cup {tab} ELSE @ \ {tab}]
  ELSE IF c.op \in {"createAddress", "deleteAddress", "setDefault"} THEN AddressWritten(s, c)
  ELSE IF c.op \in {"rename", "me"} THEN NameSaved(s, c)
  ELSE IF c.op = "sendCode" THEN CodeSent(s, c) ELSE PasswordChanged(s, c)
ProfileNext == goTab \/ ChooseStatus \/ AddressNext \/ handleSaveNickname \/ handleSendCode \/ handleChangePw

(***************************************************************************)
(* The coupons of the customer, by status, and the centre to claim them.   *)
(***************************************************************************)
CouponStatuses == {"available", "used", "expired"}
BlankCoupons == [mode |-> "coupon", status |-> "available", mine |-> {}, center |-> {}, loading |-> {"coupon"}, claiming |-> {}]
(* gen tells what a reading ends: the claim of a coupon, and the status then shown. *)
fetchMyCoupons(s, g) == Get([s EXCEPT !.ui.loading = @ \cup {"coupon"}], [Call("mine", g.status) EXCEPT !.gen = g])
Reading(st) == [code |-> NoCoupon, status |-> st]
fetchCenter(s, g) == Get([s EXCEPT !.ui.loading = @ \cup {"center"}], [Call("center", 1) EXCEPT !.gen = g])
filteredMy == {c \in ui.mine : c.status = ui.status}
CouponOffers ==
  {"mode"} \cup (IF ui.mode = "coupon" THEN {"status"} ELSE {})
  \cup (IF ui.mode = "coupon" /\ "coupon" \notin ui.loading /\ filteredMy # {} THEN {"cards"} ELSE {})
CenterOffers == IF ui.mode = "coupon" \/ "center" \in ui.loading THEN {} ELSE ui.center \ ui.claiming
CouponsNext ==
  /\ screen = "coupons" /\ Room(1)
  /\ \/ \E m \in {"coupon", "center"} \ {ui.mode} :
          LET t == [Here EXCEPT !.ui.mode = m] IN Op(IF m = "coupon" THEN fetchMyCoupons(t, Reading(ui.status)) ELSE fetchCenter(t, Reading(ui.status)))
     \/ "status" \in CouponOffers /\ \E st \in CouponStatuses \ {ui.status} : Op(fetchMyCoupons([Here EXCEPT !.ui.status = st], Reading(st)))
     \/ \E c \in CenterOffers : Op(Send([Here EXCEPT !.ui.claiming = @ \cup {c}], [Call("claim", c) EXCEPT !.gen = [code |-> c, status |-> ui.status]]))
(* A claim reads the centre and then the coupons again, those of the status that was
   shown when it began. *)
CouponsReply(s, c) ==
  IF c.op = "claim" THEN IF c.st = "ok" THEN fetchCenter(s, c.gen) ELSE [s EXCEPT !.ui.claiming = @ \ {c.arg}]
  ELSE IF c.op = "center"
    THEN LET t == [s EXCEPT !.ui.loading = @ \ {"center"}, !.ui.center = IF c.st = "ok" THEN c.got ELSE {}]
         IN  IF c.gen.code = NoCoupon THEN t ELSE fetchMyCoupons(t, c.gen)
  ELSE [s EXCEPT !.ui.loading = @ \ {"coupon"}, !.ui.mine = IF c.st = "ok" THEN c.got ELSE {}, !.ui.claiming = @ \ {c.gen.code}]

(***************************************************************************)
(* A coupon by its link: a promotion's code first, else the coupon's own.  *)
(***************************************************************************)
BlankShare == [coupon |-> "none", claimable |-> FALSE, loading |-> TRUE, claiming |-> FALSE, msg |-> "none", left |-> "no"]
ShareOffers == IF ~ui.claimable \/ ui.claiming THEN {} ELSE {"claim"}
claim == /\ screen = "share" /\ "claim" \in ShareOffers /\ Room(1)
         /\ Op(Send([Here EXCEPT !.ui.claiming = TRUE, !.ui.msg = "none"], Call("claimShared", ui.coupon)))
ShareReply(s, c) ==
  IF c.op = "claimShared"
  THEN IF c.st = "ok" THEN Get(s, [Call(c.arg, 1) EXCEPT !.gen = 1])
       ELSE [s EXCEPT !.ui.claiming = FALSE, !.ui.left = IF c.st = "unauthorised" THEN "login" ELSE @, !.ui.msg = "failed"]
  ELSE LET t == IF c.st = "ok" THEN [s EXCEPT !.ui.coupon = c.op, !.ui.claimable = c.got] ELSE s IN
  IF c.gen = 1 THEN [t EXCEPT !.ui.claiming = FALSE, !.ui.msg = IF c.st = "ok" THEN "claimed" ELSE "failed"]
  ELSE IF c.st = "ok" THEN [t EXCEPT !.ui.loading = FALSE]
  ELSE IF c.op = "promo" THEN Get(s, Call("coupon", 1))
  ELSE [s EXCEPT !.ui.loading = FALSE, !.ui.msg = "notFound"]

(***************************************************************************)
(* An order is looked up by its number.                                    *)
(***************************************************************************)
Steps == <<"pending", "paid", "shipped", "delivered">>
BlankTrack == [loading |-> FALSE, error |-> FALSE, order |-> "none"]
handleTrack == screen = "track" /\ ~ui.loading /\ Room(1) /\ Op(Get([Here EXCEPT !.ui = [BlankTrack EXCEPT !.loading = TRUE]], Call("order", 1)))
TrackReply(s, c) == [s EXCEPT !.ui.loading = FALSE, !.ui.error = c.st = "no", !.ui.order = IF c.st = "ok" THEN c.got ELSE @]

(***************************************************************************)
(* The password by mail, and the first one of who came by another site.    *)
(***************************************************************************)
BlankForgot == [code |-> "none", cooling |-> FALSE, sending |-> FALSE, busy |-> FALSE, error |-> FALSE, new |-> FALSE, left |-> "no"]
ForgotOffers ==
  IF ui.new THEN {"signIn"}
  ELSE (IF ui.cooling \/ ui.sending THEN {} ELSE {"code"}) \cup (IF ui.busy \/ ui.code = "none" THEN {} ELSE {"submit"})
ForgotNext ==
  /\ screen = "forgot" /\ Room(1)
  /\ \/ "code" \in ForgotOffers /\ Op(Send([Here EXCEPT !.ui.sending = TRUE, !.ui.error = FALSE], Call("sendCode", 1)))
     \/ "submit" \in ForgotOffers /\ Op(Send([Here EXCEPT !.ui.busy = TRUE, !.ui.error = FALSE], Call("reset", 1)))
ForgotReply(s, c) ==
  IF c.op = "sendCode"
  THEN LET t == [s EXCEPT !.ui.sending = FALSE]
       IN  IF c.st = "ok" THEN [t EXCEPT !.ui.code = "sent", !.ui.cooling = TRUE] ELSE [t EXCEPT !.ui.error = TRUE]
  ELSE [s EXCEPT !.ui.busy = FALSE, !.ui.error = c.st = "no", !.ui.new = @ \/ c.st = "ok"]
BlankSetPassword == [busy |-> FALSE, msg |-> "none", leaving |-> FALSE, left |-> "no"]
SetPasswordOffers == {"skip"} \cup (IF ui.busy THEN {} ELSE {"submit"})
SetPasswordNext ==
  /\ screen = "setPassword" /\ ui.left = "no"
  /\ \/ Do([Here EXCEPT !.ui.left = "home"])
     \/ "submit" \in SetPasswordOffers /\ \E e \in {"short", "mismatch"} \ {ui.msg} : Do([Here EXCEPT !.ui.msg = e])
     \/ "submit" \in SetPasswordOffers /\ Room(1) /\ Op(Send([Here EXCEPT !.ui.busy = TRUE, !.ui.msg = "none"], Call("setPassword", 1)))
     \/ ui.leaving /\ Do([Here EXCEPT !.ui.left = "home"])
SetPasswordReply(s, c) == [s EXCEPT !.ui.busy = FALSE, !.ui.leaving = @ \/ c.st = "ok", !.ui.msg = IF c.st = "ok" THEN "success" ELSE "failed"]

AccountNext == ProfileNext \/ CoolsDown \/ CouponsNext \/ claim \/ handleTrack \/ ForgotNext \/ SetPasswordNext

(***************************************************************************)
(* The server's part: the profile's is [all, default, name], the coupons'  *)
(* the codes that were claimed, the share page's what its code names, and  *)
(* of the two password pages whether it is set.                            *)
(***************************************************************************)
AccountRefuses(c) ==
  \/ c.op = "deleteAddress" /\ c.arg \notin srv.all
  \/ c.op = "setDefault"    \* the page sends PUT, the server takes PATCH
  \/ c.op = "claim" /\ c.arg \in srv
  \/ screen = "share" /\ c.op \in {"promo", "coupon"} /\ c.op # srv
  \/ c.op = "setPassword" /\ srv
AccountAfter(c) ==
  IF c.op = "createAddress" THEN [srv EXCEPT !.all = @ \cup {c.arg}, !.default = IF srv.all = {} THEN c.arg ELSE @]
  ELSE IF c.op = "deleteAddress" THEN [srv EXCEPT !.all = @ \ {c.arg}, !.default = IF @ # c.arg THEN @ ELSE IF srv.all = {c.arg} THEN NoVal ELSE CHOOSE a \in srv.all \ {c.arg} : TRUE]
  ELSE IF c.op = "rename" THEN [srv EXCEPT !.name = c.arg]
  ELSE IF c.op = "claim" THEN srv \cup {c.arg}
  ELSE IF c.op \in {"reset", "setPassword"} THEN TRUE
  ELSE srv
AccountAnswers(c) ==
  IF c.op = "addresses" THEN {[all |-> srv.all, default |-> srv.default]}
  ELSE IF c.op = "me" THEN {srv.name}
  ELSE IF c.op = "mine" THEN {{[code |-> k, status |-> "available"] : k \in IF c.arg = "available" THEN srv ELSE {}}}
  ELSE IF c.op = "center" THEN {Codes \ srv}
  ELSE IF c.op = "order" THEN {srv}
  ELSE IF c.op \in {"promo", "coupon"} THEN BOOLEAN
  ELSE {0}
==============================================================================
