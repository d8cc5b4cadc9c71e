-------------------------------- MODULE Shell --------------------------------
(***************************************************************************)
(* What stands around the pages, and the pages that only show: the frame   *)
(* of the console (AdminLayout.tsx, CommandPalette.tsx) and its dashboard, *)
(* the header of the shop (Navigation.tsx), and the promotion's page       *)
(* (PromoShowcase.tsx, HotBoard.tsx).                                      *)
(***************************************************************************)
EXTENDS Account

CONSTANTS Texts,      \* what is typed in the console's search and palette
          Short,      \* those of less than two characters
          MatchOf,    \* the palette's items that match a text
          MaxPanels,  \* bound: panels of the console's frame that are open at once
          Platforms,  \* the platforms of the promotion, in order
          Categories  \* the ids of the categories

ASSUME ShellAssumption ==
  /\ MaxPanels \in Nat /\ Short \subseteq Texts /\ DOMAIN MatchOf = Texts
  /\ Categories \subseteq Nat

(***************************************************************************)
(* The frame of the console.                                               *)
(***************************************************************************)
MenuItems == [dashboard |-> {"dashboard"}, productOps |-> {"products", "ads", "categories", "brands", "mediaImport"},
              communication |-> {"chat", "notifications"}, marketing |-> {"coupons"}, systemMgmt |-> {"emailTemplates"}]
useMenuItems == {g \in DOMAIN MenuItems : MenuItems[g] \cap AdminMenu # {}}
(* The links of the bar under the header. *)
ActionBar == {"recent"} \cup IF ui.page = "products" THEN {"newProduct", "bulkImport"} ELSE {}
BlankLayout ==
  [user |-> CHOOSE u \in Admins : TRUE, page |-> "dashboard", collapsed |-> FALSE, panels |-> {}, notices |-> 0, unread |-> 0,
   text |-> "", timer |-> FALSE, searching |-> FALSE, found |-> "none", query |-> "", at |-> 1, left |-> FALSE]
fetchNotifs(s) == Get(Get(s, Call("recent", 1)), Call("unread", 1))
PollNotifs == screen = "layout" /\ ~ui.left /\ Room(2) /\ Op(fetchNotifs(Here))
Roomy == Cardinality(ui.panels) < MaxPanels
Toggle(p) == (p \in ui.panels \/ Roomy) /\ Do([Here EXCEPT !.ui.panels = IF p \in @ THEN @ \ {p} ELSE @ \cup {p}])
HeaderNext == \E p \in {"bell", "user"} : Toggle(p)
toggleSidebar == Do([Here EXCEPT !.ui.collapsed = ~@])
(* A change of page shuts the drawer of the narrow screen. *)
Navigated(s, page, shut) == [s EXCEPT !.ui.page = page, !.ui.panels = @ \ {shut, "drawer"}]
PressLink == \E p \in (UNION {MenuItems[g] : g \in useMenuItems} \cap AdminMenu) \ {ui.page} : Do(Navigated(Here, p, "drawer"))
PressNotice == /\ "bell" \in ui.panels /\ ui.notices > 0 /\ Room(1)
               /\ Op(Send(Navigated(Here, "notifications", "bell"), Call("read", 1)))
handleLogout == "user" \in ui.panels /\ Room(1) /\ Op(Send(Here, Call("signout", 1)))
(* The search waits 300 ms; a short text clears the list but not "searching". *)
TypeSearch == ("search" \in ui.panels \/ Roomy) /\ \E t \in Texts \ {ui.text} :
  Do([Here EXCEPT !.ui.text = t, !.ui.panels = @ \cup {"search"}, !.ui.timer = t \notin Short,
                  !.ui.searching = @ \/ t \notin Short, !.ui.found = IF t \in Short THEN "none" ELSE @])
SearchDue == ui.timer /\ Room(1) /\ Op(Get([Here EXCEPT !.ui.timer = FALSE], Call("search", ui.text)))
FocusSearch == "search" \notin ui.panels /\ Roomy /\ Do([Here EXCEPT !.ui.panels = @ \cup {"search"}])
LeaveSearch == "search" \in ui.panels /\ Do([Here EXCEPT !.ui.panels = @ \ {"search"}])
SearchOffers ==
  IF "search" \notin ui.panels \/ (ui.text \in Short /\ ~ui.searching) THEN {}
  ELSE IF ui.searching THEN {"searching"} ELSE IF ui.found = "none" THEN {"empty"} ELSE {"product"}
PressFound == "product" \in SearchOffers /\ Do(Navigated(Here, "products", "search"))
(* The palette forgets what was typed from one time to the next; its list follows the text, and any rendering of the frame puts the
   mark back on the first. *)
OpenPalette == "palette" \notin ui.panels /\ Roomy /\ Do([Here EXCEPT !.ui.panels = @ \cup {"palette"}, !.ui.at = 1])
ClosePalette == "palette" \in ui.panels /\ Do([Here EXCEPT !.ui.panels = @ \ {"palette"}, !.ui.query = "", !.ui.at = 1])
flat == MatchOf[ui.query]
onKeyDown ==
  /\ "palette" \in ui.panels
  /\ \/ \E q \in Texts \ {ui.query} : Do([Here EXCEPT !.ui.query = q, !.ui.at = 1])
     \/ flat # <<>> /\ Do([Here EXCEPT !.ui.at = (@ % Len(flat)) + 1])
     \/ flat # <<>> /\ Do([Here EXCEPT !.ui.at = ((@ + Len(flat) - 2) % Len(flat)) + 1])
     \/ flat # <<>> /\ Do([Navigated(Here, flat[ui.at], "palette") EXCEPT !.ui.query = "", !.ui.at = 1])
LayoutNext ==
  /\ screen = "layout" /\ ~ui.left
  /\ \/ HeaderNext \/ toggleSidebar \/ PressLink \/ PressNotice \/ handleLogout
     \/ TypeSearch \/ SearchDue \/ FocusSearch \/ LeaveSearch \/ PressFound
     \/ OpenPalette \/ ClosePalette \/ onKeyDown \/ Toggle("drawer")
LayoutReply(s, c) ==
  LET t == [s EXCEPT !.ui.at = 1] IN
  IF c.op = "recent" THEN IF c.st = "ok" THEN [t EXCEPT !.ui.notices = c.got] ELSE s
  ELSE IF c.op = "unread" THEN IF c.st = "ok" THEN [t EXCEPT !.ui.unread = c.got] ELSE s
  ELSE IF c.op = "search" THEN [t EXCEPT !.ui.searching = FALSE, !.ui.found = IF c.st = "ok" THEN c.got ELSE @]
  ELSE IF c.op = "signout" THEN [t EXCEPT !.ui.left = TRUE]
  ELSE s

(***************************************************************************)
(* The dashboard: four numbers are asked for, and shown when all have      *)
(* come; one that fails is zero.                                           *)
(***************************************************************************)
Metrics == <<"products", "afterSales", "unread", "sales">>
NoNumbers == [m \in ToSet(Metrics) |-> 0]
BlankDashboard == [got |-> <<>>, numbers |-> NoNumbers, loading |-> FALSE]
refresh(s) == FoldLeft(LAMBDA t, m : Get(t, Call(m, 1)), [s EXCEPT !.ui.loading = TRUE, !.ui.got = <<>>], Metrics)
RefreshPressed == screen = "dashboard" /\ Room(4) /\ Op(refresh(Here))
DashboardReply(s, c) ==
  LET got == c.op :> (IF c.st = "ok" THEN c.got ELSE 0) @@ s.ui.got
  IN  IF DOMAIN got # ToSet(Metrics) THEN [s EXCEPT !.ui.got = got]
      ELSE [s EXCEPT !.ui.got = <<>>, !.ui.numbers = got, !.ui.loading = FALSE]
PendingItems == {"notifications"}
QuickActions == {"newProduct", "coupons", "chat"}

(***************************************************************************)
(* The header of the shop.                                                 *)
(***************************************************************************)
LegacyLimit == 15
(* Categories in the order they were made; the promotion's link stands between the
   older and the newer ones. *)
useCategories(s, c) == IF c.st = "ok" /\ c.got # {} THEN [s EXCEPT !.ui.tree = SetToSortSeq(c.got, <)] ELSE s
NavCategories == SelectSeq(ui.tree, LAMBDA n : n <= LegacyLimit) \o <<0>> \o SelectSeq(ui.tree, LAMBDA n : n > LegacyLimit)
BlankNav == [user |-> [name |-> "old", avatar |-> "old"], menu |-> FALSE, lang |-> "en", cart |-> FALSE, dialog |-> FALSE, saving |-> FALSE, tree |-> <<>>]
UserMenu == {"profile", "orders", "coupons", "history", "support"}
NavLinks == UserMenu \cup {"cart"} \cup {IF n = 0 THEN "promotion" ELSE "category" : n \in ToSet(NavCategories)}
NavNext ==
  /\ screen = "nav"
  /\ \/ Do([Here EXCEPT !.ui.menu = ~@])
     \/ ui.menu /\ \E l \in {"en", "zh", "ar"} : Do([Here EXCEPT !.ui.lang = l, !.ui.menu = FALSE])
     \/ Do([Here EXCEPT !.ui.cart = ~@])
     \/ Do([Here EXCEPT !.ui.dialog = ~@])
handleAvatarChange == screen = "nav" /\ Room(1) /\ Op(Send(Here, Call("avatar", "new")))
NicknameOffers == IF ui.dialog /\ ~ui.saving THEN {"cancel", "save"} ELSE {}
NavSaveNickname == screen = "nav" /\ "save" \in NicknameOffers /\ Room(1)
                   /\ Op(Send([Here EXCEPT !.ui.saving = TRUE], Call("rename", "new")))
(* Who it is is read again, from what the client keeps if nothing dropped it. *)
NavReply(s, c) ==
  IF c.op = "tree" THEN useCategories(s, c)
  ELSE IF c.op = "me" THEN LET t == IF c.st = "ok" THEN [s EXCEPT !.ui.user = c.got] ELSE s
                      IN  IF c.gen = "rename" THEN [t EXCEPT !.ui.saving = FALSE, !.ui.dialog = FALSE] ELSE t
  ELSE IF c.st = "ok" THEN Get(s, [Call("me", 1) EXCEPT !.gen = c.op])
  ELSE IF c.op = "rename" THEN [s EXCEPT !.ui.saving = FALSE] ELSE s

(***************************************************************************)
(* The promotion's page: four lists are asked for, each of which may fail; *)
(* the board keeps the week of each platform it has shown.                 *)
(***************************************************************************)
BoardLists == <<"overview", "metrics", "hot", "spus">>
NoWeek == [of |-> "none", from |-> "none"]
BlankBoard == [got |-> <<>>, loading |-> TRUE, compare |-> FALSE, metrics |-> "none", pool |-> "none", platform |-> Platforms[1], week |-> NoWeek, weekly |-> FALSE, memo |-> <<>>]
loadWeekly(s, p) ==
  IF p \in DOMAIN s.ui.memo THEN [s EXCEPT !.ui.week = s.ui.memo[p]]
  ELSE Get([s EXCEPT !.ui.weekly = TRUE], [Call("weekly", p) EXCEPT !.gen = s.ui.pool])
BoardOpens(s) == FoldLeft(LAMBDA t, l : Get(t, Call(l, 1)), loadWeekly(s, Platforms[1]), BoardLists)
(* The platform's numbers are never missing once loaded, so neither is the page. *)
BoardEmpty == ~ui.loading /\ ~ui.compare /\ ui.metrics = "none" /\ ui.pool = "none"
BoardOffers == IF BoardEmpty THEN {} ELSE {"platform"} \cup IF ui.loading \/ ui.weekly \/ ui.week.from = "none" THEN {} ELSE {"product"}
ChoosePlatform == /\ screen = "board" /\ "platform" \in BoardOffers /\ Room(1)
                  /\ \E p \in ToSet(Platforms) \ {ui.platform} : Op(loadWeekly([Here EXCEPT !.ui.platform = p], p))
(* When all four have come: the hot products or else those on sale; the platform's
   numbers or else made-up ones; and the week is asked for again, with the pool. *)
BoardLoaded(s, got) ==
  LET t == [s EXCEPT !.ui.got = <<>>, !.ui.loading = FALSE, !.ui.compare = got["overview"] = "ok",
                     !.ui.metrics = IF got["metrics"] = "ok" THEN "server" ELSE "fallback",
                     !.ui.pool = IF got["hot"] = "ok" THEN "hot" ELSE IF got["spus"] = "ok" THEN "spus" ELSE "none"]
  IN  loadWeekly(t, t.ui.platform)
BoardReply(s, c) ==
  IF c.op = "weekly"
  THEN LET week == [of |-> c.arg, from |-> IF c.st = "ok" THEN "server" ELSE c.gen]
       IN  [s EXCEPT !.ui.weekly = FALSE, !.ui.week = week, !.ui.memo = c.arg :> week @@ @]
  ELSE LET got == c.op :> c.st @@ s.ui.got
       IN  IF DOMAIN got # ToSet(BoardLists) THEN [s EXCEPT !.ui.got = got] ELSE BoardLoaded(s, got)

ShellNext == PollNotifs \/ LayoutNext \/ RefreshPressed \/ NavNext \/ handleAvatarChange \/ NavSaveNickname \/ ChoosePlatform

(* The server's part. *)
ShellAfter(c) ==
  IF c.op = "rename" THEN [srv EXCEPT !.name = c.arg] ELSE IF c.op = "avatar" THEN [srv EXCEPT !.avatar = c.arg] ELSE srv
ShellAnswers(c) ==
  IF c.op = "me" THEN {srv}
  ELSE IF c.op = "tree" THEN {Categories}
  ELSE IF c.op = "search" THEN {c.arg}
  ELSE IF c.op \in {"recent"} \cup ToSet(Metrics) THEN {1}
  ELSE {0}
==============================================================================
