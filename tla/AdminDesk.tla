------------------------------ MODULE AdminDesk ------------------------------
(***************************************************************************)
(* The desk pages of the administration console: the recycle bin,          *)
(* notifications, email templates and the advertising budgets              *)
(* (src/web/react/src/pages/Admin).                                        *)
(***************************************************************************)
EXTENDS AdminTable

(***************************************************************************)
(* The recycle bin (AdminRecycleBin.tsx) lists the products that were      *)
(* deleted; a product restored or deleted for good leaves it.              *)
(***************************************************************************)
RecycleApi ==
  [load      |-> Path(<<"goods", "recycle">>),
   restore   |-> Path(<<"goods", "recycle", "#", "restore">>),
   permanent |-> Path(<<"goods", "recycle", "#", "permanent">>)]

(* `twice` is the row whose deletion was confirmed once, also while its first
   question is open: asking again for it does nothing. *)
RecycleUi == Beside([twice |-> NoRow], BlankUi(AllRows))
RecycleRowOffers(r) ==
  IF r \notin Listed \/ DialogOpen THEN {} ELSE {"restore"} \cup (IF ui.twice = r THEN {} ELSE {"permanent"})
RecycleRetry == ~DialogOpen /\ ui.error /\ CanSend /\ Do(Load(Here))

RecycleAsk == \E r \in Rows :
  \/ "restore" \in RecycleRowOffers(r) /\ Do([Doom(Here, r) EXCEPT !.ui.mode = "restore"])
  \/ "permanent" \in RecycleRowOffers(r) /\ Do([Doom(Here, r) EXCEPT !.ui.mode = "first", !.ui.twice = r])
RecycleCancel == "cancel" \in ConfirmOffers /\ Do([Doom(Here, NoRow) EXCEPT !.ui.mode = "view", !.ui.twice = NoRow])

RecycleRestore ==
  /\ "confirm" \in ConfirmOffers /\ ui.mode = "restore" /\ CanWrite
  /\ Do(Send([Doom(Here, NoRow) EXCEPT !.ui.mode = "view"], "restore", {ui.doomed}, "gone", Live))
RecycleContinue == "confirm" \in ConfirmOffers /\ ui.mode = "first" /\ Do([Here EXCEPT !.ui.mode = "second"])
RecyclePermanent ==
  /\ "confirm" \in ConfirmOffers /\ ui.mode = "second" /\ CanWrite
  /\ Do(Send([Doom(Here, NoRow) EXCEPT !.ui.mode = "view", !.ui.twice = NoRow], "permanent", {ui.doomed}, "gone", Live))

RecycleReply(s, c) == IF c.op = "load" THEN Loaded(s, c) ELSE IF c.st = "ok" THEN Load(s) ELSE s
RecycleNext ==
  RecycleRetry \/ RecycleAsk \/ RecycleCancel \/ RecycleRestore \/ RecycleContinue \/ RecyclePermanent

(***************************************************************************)
(* Notifications (AdminNotifications.tsx): unread ("on") or read ("off").  *)
(* A view's status stands for the tab.                                     *)
(***************************************************************************)
NoticeApi ==
  [load |-> PathSlash(<<"notification">>),
   read |-> PathSlash(<<"notification", "#", "read">>),
   all  |-> PathSlash(<<"notification", "read-all">>)]

NoticeRowOffers(r) == IF r \in Listed /\ ui.rows[r].st = "on" THEN {"read"} ELSE {}
NoticeOffers ==
  {"tab", "page", "refresh"} \cup (IF \E r \in Present : ui.rows[r].st = "on" THEN {"all"} ELSE {})
  \cup (IF ui.error THEN {"retry"} ELSE {})

(* Two effects follow a new tab: the list of the tab is loaded at the page of the
   old one, then the page is set to 1, which loads it again.  Both calls may be
   under way, and the answer that comes last is shown. *)
NoticeTabbed(s, tab) ==
  LET old == [s.ui.view EXCEPT !.status = tab]
      t == Load([s EXCEPT !.ui.view = old])
  IN  IF old.page = 1 THEN t ELSE Load([t EXCEPT !.ui.view.page = 1])
NoticeTab == "tab" \in NoticeOffers /\ CanSend /\ \E tab \in {"all", "on"} \ {ui.view.status} :
  [ui.view EXCEPT !.status = tab] \in Views[page] /\ Do(NoticeTabbed(Here, tab))
NoticeTurnPage == "page" \in NoticeOffers /\ TurnPage
NoticeRefresh == "refresh" \in NoticeOffers /\ CanSend /\ Do(Load(Here))
NoticeRead == \E r \in Rows : "read" \in NoticeRowOffers(r) /\ CanWrite /\ Do(Send(Here, "read", {r}, "off", Live))
NoticeReadAll == "all" \in NoticeOffers /\ CanWrite /\ Do(Send(Here, "all", Rows, "off", {"on"}))

(* A read mark is made in the rows in memory; the list is not loaded again, and
   a failure is ignored. *)
NoticeMarked(s, c) ==
  IF c.st # "ok" THEN s
  ELSE [s EXCEPT !.ui.rows = [r \in Rows |-> IF r \in c.rows /\ @[r].st = "on" THEN [@[r] EXCEPT !.st = "off"] ELSE @[r]]]
NoticeReply(s, c) == IF c.op = "load" THEN Loaded(s, c) ELSE NoticeMarked(s, c)
NoticeNext ==
  NoticeTab \/ NoticeTurnPage \/ NoticeRefresh \/ NoticeRead \/ NoticeReadAll

(***************************************************************************)
(* Email templates (AdminEmailTemplates.tsx): a list beside an editor of   *)
(* the selected template, `node`.  `canvas` says whether the editing       *)
(* surface holds the body: it is filled when a template is selected and    *)
(* comes back empty each time it is mounted again.                         *)
(***************************************************************************)
EmailApi ==
  [load   |-> PathSlash(<<"users", "email", "templates">>),
   update |-> PathSlash(<<"users", "email", "templates", "TYPE">>),
   reset  |-> PathSlash(<<"users", "email", "templates", "TYPE", "reset">>)]

EmailUi == Beside([node |-> NoRow, canvas |-> FALSE, body |-> "initial"], BlankUi(AllRows))
EmailOffers ==
  IF ui.loading THEN {}
  ELSE IF ui.doomed # NoRow THEN {"confirm", "cancel"}
  ELSE {"pick", "edit", "preview", "subject"} \cup (IF ui.node # NoRow THEN {"ask reset"} ELSE {})
       \cup (IF ui.mode = "edit" THEN {"canvas"} ELSE {"source"}) \cup (IF ui.busy THEN {} ELSE {"save"})

EmailPick == "pick" \in EmailOffers /\ \E r \in Present :
  Do([Here EXCEPT !.ui.node = r, !.ui.body = "initial", !.ui.mode = "edit", !.ui.canvas = TRUE])
EmailMode ==
  \/ "preview" \in EmailOffers /\ Do([Here EXCEPT !.ui.mode = "preview", !.ui.canvas = FALSE])
  \/ "edit" \in EmailOffers /\ Do([Here EXCEPT !.ui.mode = "edit"])

(* What is typed, formatted or inserted on the canvas becomes the body: all of it. *)
EmailType == "canvas" \in EmailOffers /\ Do([Here EXCEPT !.ui.body = IF ui.canvas THEN "typed" ELSE "cut", !.ui.canvas = TRUE])

(* The save button is always there; without a template it does nothing. *)
EmailSave ==
  /\ "save" \in EmailOffers /\ ui.node # NoRow /\ CanWrite
  /\ Do(Lock(Send(Here, "update", {ui.node}, "on", Live \cup {"gone"})))

(* A reset deletes the stored template and loads the list again; the editor keeps its text. *)
EmailAskReset == "ask reset" \in EmailOffers /\ Do(Doom(Here, ui.node))
EmailReset ==
  /\ "confirm" \in EmailOffers /\ CanWrite
  /\ Do(Send(Doom(Here, NoRow), "reset", {ui.doomed}, "gone", Live \cup {"gone"}))
EmailLoad(s) == [Load(s) EXCEPT !.ui.canvas = FALSE]

EmailReply(s, c) ==
  IF c.op = "load" THEN IF c.st = "ok" THEN Loaded(s, c) ELSE [s EXCEPT !.ui.loading = FALSE]
  ELSE IF c.op = "update" THEN Unlock(s)
  ELSE IF c.st = "ok" THEN EmailLoad(s) ELSE s
EmailNext == EmailPick \/ EmailMode \/ EmailType \/ EmailSave \/ EmailAskReset \/ EmailReset \/ CancelConfirm

(***************************************************************************)
(* Advertising budgets (AdminAds.tsx): a cell per product and platform,    *)
(* one platform here.  `drafts` are the cells with an amount that is not   *)
(* saved; a save sends them with the versions of the rows in memory.       *)
(***************************************************************************)
AdsApi ==
  [load |-> Path(<<"ads", "admin", "campaigns">>),
   save |-> Path(<<"ads", "admin", "campaigns", "save">>)]

AdsUi == Beside([drafts |-> {}, asked |-> NoRow, node |-> NoRow, nodeVer |-> 0], BlankUi(AllRows))
AdsTable == IF ui.loading \/ ui.error \/ ui.asked # NoRow THEN {} ELSE Present
AdsOffers ==
  IF ui.asked # NoRow THEN {"close"}
  ELSE (IF ui.error THEN {"retry"} ELSE {}) \cup (IF AdsTable # {} THEN {"page"} ELSE {})
       \cup (IF ui.drafts # {} /\ ~ui.busy THEN {"save", "discard"} ELSE {})

(* Leaving a cell drafts its amount, or drops the draft when the cell is empty
   again or back at the saved amount; saving does not close the cells. *)
AdsCommit == \E r \in AdsTable :
  Do([Here EXCEPT !.ui.drafts = IF r \in @ THEN @ \ {r} ELSE @ \cup {r}])
AdsDiscard == "discard" \in AdsOffers /\ Do([Here EXCEPT !.ui.drafts = {}])
AdsSave ==
  /\ "save" \in AdsOffers /\ CanWrite
  /\ LET s == Lock(Send(Here, "save", ui.drafts, "same", Live))
     IN  Do([s EXCEPT !.net[Len(s.net)].base = ui.rows])

(* Saved or refused for a conflict: every draft is dropped, those made meanwhile
   too, and the page of the click is loaded; the lock opens when that load ends. *)
AdsSaved(s, c) ==
  LET t == LoadView([s EXCEPT !.ui.drafts = {}], c.view)
  IN  IF c.st = "no" THEN Unlock(s)
      ELSE IF t.net = s.net THEN Unlock(t) ELSE [t EXCEPT !.net[Len(t.net)].to = "unlock"]
AdsLoaded(s, c) == IF c.to = "unlock" THEN Unlock(Loaded(s, c)) ELSE Loaded(s, c)

AdsRetry == "retry" \in AdsOffers /\ CanSend /\ Do(Load(Here))
AdsTurnPage == "page" \in AdsOffers /\ TurnPage

(* The history window shows the answer that came last, whatever it was asked for. *)
AdsHistory == \E r \in AdsTable : CanSend /\ Do(LoadDetail([Here EXCEPT !.ui.asked = r, !.ui.node = NoRow, !.ui.nodeVer = 0], r))
AdsCloseHistory == "close" \in AdsOffers /\ Do([Here EXCEPT !.ui.asked = NoRow])

AdsReply(s, c) ==
  IF c.op = "load" THEN AdsLoaded(s, c) ELSE IF c.op = "detail" THEN DetailLoaded(s, c) ELSE AdsSaved(s, c)
AdsNext ==
  AdsCommit \/ AdsDiscard \/ AdsSave \/ AdsRetry \/ AdsTurnPage \/ AdsHistory \/ AdsCloseHistory
==============================================================================
