------------------------------ MODULE AdminSales ------------------------------
(***************************************************************************)
(* The sales pages of the administration console: coupons, a coupon's      *)
(* promotion codes, orders and after-sale requests                         *)
(* (src/web/react/src/pages/Admin).                                        *)
(***************************************************************************)
EXTENDS AdminTable

(***************************************************************************)
(* Coupons (AdminCoupons.tsx).  A view's status stands for the search term.*)
(***************************************************************************)
CouponApi ==
  [load   |-> Path(<<"promotion", "coupon">>),
   create |-> Path(<<"promotion", "coupon", "create">>),
   update |-> Path(<<"promotion", "coupon", "#", "update">>),
   delete |-> Path(<<"promotion", "coupon", "#", "delete">>)]

(* A load that failed says so nowhere: the coupons of the last one stay. *)
CouponsListed == IF ui.loading THEN {} ELSE Present
CouponsOffers == IF DialogOpen THEN {} ELSE {"create", "search", "page"}
CouponsRowOffers(r) == IF r \in CouponsListed /\ ~DialogOpen THEN {"edit", "promo", "delete"} ELSE {}
CouponsFormOffers == FormOffers(ui.busy)

(* Typing in the search box rewrites the query once: the term set, the page dropped. *)
CouponsSearch == "search" \in CouponsOffers /\ \E term \in {"all", "on"} : GoTo([status |-> term, page |-> 1])
CouponsTurnPage == "page" \in CouponsOffers /\ TurnPage

CouponsOpenCreate == "create" \in CouponsOffers /\ Do(OpenForm(Here, NewForm))
CouponsOpenEdit == \E r \in Rows : "edit" \in CouponsRowOffers(r) /\ Do(OpenForm(Here, EditForm(r)))
CouponsAskDelete == \E r \in Rows : "delete" \in CouponsRowOffers(r) /\ Do(Doom(Here, r))

(* Saving needs a code and an amount above zero. *)
CouponsSave ==
  /\ "ok" \in CouponsFormOffers /\ Ready(ui.form) /\ CanWrite
  /\ \/ ui.form.kind = "edit" /\ Do(Lock(Update(Here, ui.form.row)))
     \/ ui.form.kind = "create" /\ \E r \in Fresh : Do(Lock(Create(Here, r)))
(* The question about leaving, were it open, outlives the form. *)
CouponsSaved(s, c) == IF c.st = "ok" THEN LoadView([Unlock(s) EXCEPT !.ui.form = NoForm], c.view) ELSE Unlock(s)

(* The deleted coupon is taken out of the list before it is loaded again. *)
CouponsDelete == "confirm" \in ConfirmOffers /\ CanWrite /\ Do(Delete(Here, ui.doomed))
CouponsDeleted(s, c) ==
  IF c.st = "ok" THEN LET r == KeyOf(c) IN LoadView([Doom(s, NoRow) EXCEPT !.ui.rows[r] = c.got[r]], c.view)
  ELSE Doom(s, NoRow)

CouponsReply(s, c) ==
  IF c.op = "load" THEN Loaded(s, c) ELSE IF c.op = "delete" THEN CouponsDeleted(s, c) ELSE CouponsSaved(s, c)

CouponsNext ==
  \/ CouponsSearch \/ CouponsTurnPage \/ CouponsOpenCreate \/ CouponsOpenEdit \/ CouponsAskDelete
  \/ CouponsSave \/ CouponsDelete \/ TypeForm \/ CloseDialog \/ Discard \/ Keep \/ CancelConfirm \/ ForceUnlock

(***************************************************************************)
(* Promotion codes of one coupon (AdminPromoCodes.tsx)                     *)
(***************************************************************************)
PromoApi ==
  [load   |-> Path(<<"promotion", "coupon", "#", "promo-dashboard">>),
   create |-> Path(<<"promotion", "coupon", "#", "promo-codes">>),
   toggle |-> PathSlash(<<"promotion", "coupon", "promo", "#">>),
   delete |-> PathSlash(<<"promotion", "coupon", "promo", "#">>)]

PromoOffers == IF DialogOpen THEN {} ELSE {"generate"} \cup (IF ui.error THEN {"retry"} ELSE {})
PromoRowOffers(r) ==
  IF r \notin Listed \/ DialogOpen THEN {} ELSE {"delete"} \cup (IF r \in ui.waiting THEN {} ELSE {"toggle"})

PromoRetry == "retry" \in PromoOffers /\ CanSend /\ Do(Load(Here))

(* The page remembers one code whose switch is under way. *)
PromoToggle == \E r \in Rows :
  /\ "toggle" \in PromoRowOffers(r) /\ CanWrite
  /\ LET to == IF ui.rows[r].st = "on" THEN "off" ELSE "on"
     IN  Do(Send([Here EXCEPT !.ui.waiting = {r}], "toggle", {r}, to, Live))
PromoToggled(s, c) == [(IF c.st = "ok" THEN Load(s) ELSE s) EXCEPT !.ui.waiting = {}]

(* A confirmation that failed stays open. *)
PromoAskDelete == \E r \in Rows : "delete" \in PromoRowOffers(r) /\ Do(Doom(Here, r))
PromoDelete == "confirm" \in ConfirmOffers /\ CanWrite /\ Do(Delete(Here, ui.doomed))
PromoDeleted(s, c) == IF c.st = "ok" THEN Load(Doom(s, NoRow)) ELSE s

(* The dialog keeps what was typed when it is closed and asks nothing; a count
   out of range is clamped, so every form can be sent. *)
PromoFormOffers ==
  IF ui.form.kind = "none" THEN {} ELSE {"close"} \cup (IF ui.busy THEN {} ELSE {"ok"})
PromoOpenGenerate == "generate" \in PromoOffers /\ Do(OpenForm(Here, NewForm))
PromoCloseGenerate == "close" \in PromoFormOffers /\ Do(CloseForm(Here))
PromoGenerate == "ok" \in PromoFormOffers /\ CanWrite /\ \E r \in Fresh : Do(Lock(Create(Here, r)))
PromoGenerated(s, c) == Unlock(IF c.st = "ok" THEN Load(CloseForm(s)) ELSE s)

PromoReply(s, c) ==
  IF c.op = "load" THEN Loaded(s, c)
  ELSE IF c.op = "toggle" THEN PromoToggled(s, c)
  ELSE IF c.op = "delete" THEN PromoDeleted(s, c) ELSE PromoGenerated(s, c)

PromoNext ==
  \/ PromoRetry \/ PromoToggle \/ PromoAskDelete \/ PromoDelete \/ CancelConfirm
  \/ PromoOpenGenerate \/ PromoCloseGenerate \/ PromoGenerate

(***************************************************************************)
(* Orders and after-sale requests: two tabs of AdminOrders.tsx, a page     *)
(* each here, whose writes are prompted for or confirmed first.  `mode` is *)
(* what the open prompt will do to the row `doomed`.                       *)
(***************************************************************************)
OrderApi ==
  [load   |-> PathSlash(<<"order", "admin", "list">>),
   detail |-> PathSlash(<<"order", "admin", "NO">>),
   ship   |-> PathSlash(<<"order", "admin", "NO", "ship">>),
   cancel |-> PathSlash(<<"order", "admin", "NO", "cancel">>)]
AfterSaleApi ==
  [load            |-> PathSlash(<<"order", "admin", "aftersale">>),
   approve         |-> PathSlash(<<"order", "admin", "aftersale", "NO", "review">>),
   reject          |-> PathSlash(<<"order", "admin", "aftersale", "NO", "review">>),
   complete_refund |-> PathSlash(<<"order", "admin", "aftersale", "NO", "review">>)]

OrdersUi(view) == Beside([node |-> NoRow, nodeVer |-> 0], BlankUi(view))

(* What the server makes of a row, and of which rows it accepts that. *)
OrderWrites ==
  [ship |-> [to |-> "shipped", from |-> {"paid"}],
   cancel |-> [to |-> "cancelled", from |-> {"pending", "paid"}],
   approve |-> [to |-> "approved", from |-> {"review"}],
   reject |-> [to |-> "rejected", from |-> {"review"}],
   complete_refund |-> [to |-> "completed", from |-> {"approved"}]]

(* A load that failed is a toast; the rows stay. *)
OrdersListed == IF ui.loading THEN {} ELSE Present
OrdersRowOffers(r) ==
  IF r \notin OrdersListed \/ DialogOpen THEN {}
  ELSE LET st == ui.rows[r].st
       IN  (IF page = "orders" THEN {"detail"} ELSE {}) \cup
           (IF r \in ui.waiting THEN {} ELSE {op \in DOMAIN OrderWrites : st \in OrderWrites[op].from})
OrdersOffers == IF DialogOpen THEN {} ELSE {"filter", "page"} \cup (IF ui.loading THEN {} ELSE {"reload"})

OrdersFilter == "filter" \in OrdersOffers /\ (ChooseFilter \/ TurnPage)
OrdersReload == "reload" \in OrdersOffers /\ CanSend /\ Do(Load(Here))
OrdersDetail == \E r \in Rows : "detail" \in OrdersRowOffers(r) /\ CanSend /\ Do(LoadDetail(Here, r))
OrdersCloseDetail == page = "orders" /\ ~DialogOpen /\ ui.node # NoRow /\ Do([Here EXCEPT !.ui.node = NoRow, !.ui.nodeVer = 0])

OrdersAsk == \E r \in Rows : \E op \in OrdersRowOffers(r) \ {"detail"} :
  Do([Doom(Here, r) EXCEPT !.ui.mode = op])

(* The prompt closes, and the one remembered row is this one now. *)
OrdersWrite ==
  /\ "confirm" \in ConfirmOffers /\ CanWrite
  /\ LET r == ui.doomed
         w == OrderWrites[ui.mode]
         s == Send([Doom(Here, NoRow) EXCEPT !.ui.waiting = {r}, !.ui.mode = "view"], ui.mode, {r}, w.to, w.from)
     IN  Do(IF page = "orders" /\ ui.node = r THEN [s EXCEPT !.net[Len(s.net)].then = r] ELSE s)

OrdersReleased(s) == [s EXCEPT !.ui.waiting = {}]
OrdersReopened(s, r) ==
  LET t == LoadDetail(s, r)
  IN  IF r = NoRow THEN OrdersReleased(s)
      ELSE IF t.net = s.net THEN OrdersReleased(t)
      ELSE [t EXCEPT !.net[Len(t.net)].to = "release"]

\* Mutant of OrdersWritten: a write that failed releases nothing.
OrdersWrittenOnly(s, c) ==
  IF c.st # "ok" THEN s ELSE OrdersReleased(LoadView(s, c.view))
(* The reload is awaited, with the filters of the click and whether it fails or
   not; then the detail is opened again if it showed this order at the click;
   then the row is released. *)
OrdersWritten(s, c) ==
  LET t == LoadView(s, c.view)
  IN  IF c.st # "ok" THEN OrdersReleased(s)
      ELSE IF t.net = s.net THEN OrdersReopened(t, c.then)
      ELSE [t EXCEPT !.net[Len(t.net)].rows = c.rows, !.net[Len(t.net)].then = c.then]
OrdersLoaded(s, c) ==
  LET t == IF c.st = "ok" THEN Loaded(s, c) ELSE [s EXCEPT !.ui.loading = FALSE]
  IN  IF c.rows = {} THEN t ELSE OrdersReopened(t, c.then)
OrdersDetailed(s, c) ==
  IF c.to = "release" THEN OrdersReleased(DetailLoaded(s, c)) ELSE DetailLoaded(s, c)

OrdersReply(s, c) ==
  IF c.op = "load" THEN OrdersLoaded(s, c) ELSE IF c.op = "detail" THEN OrdersDetailed(s, c) ELSE OrdersWritten(s, c)

OrdersNext ==
  \/ OrdersFilter \/ OrdersReload \/ OrdersDetail \/ OrdersCloseDetail \/ OrdersAsk \/ OrdersWrite \/ CancelConfirm
==============================================================================
