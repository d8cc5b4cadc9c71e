------------------------------ MODULE AdminTable ------------------------------
(***************************************************************************)
(* What the pages of the administration console share: a table of rows     *)
(* loaded from the server through the caching client, a form dialog that   *)
(* asks before it drops changes, a confirmation dialog, a lock against     *)
(* double submission, and the calls in flight.  A page is a module that    *)
(* EXTENDS this one; its handlers are functions from a browser state to a  *)
(* browser state, so that a handler which saves and then reloads is one    *)
(* step.  One page is mounted at a time.                                   *)
(***************************************************************************)
EXTENDS ApiClient

CONSTANTS Rows,        \* the records a page lists
          NoRow,       \* no record
          Views,       \* the URL states of a list, by page: a status filter and a page number
          MaxCalls,    \* bound: calls in flight, by page
          MaxWrites,   \* bound: writes sent, by page
          FirstRows,   \* bound: rows that may exist at the start, by page
          PageOf       \* the page of a paged list a row is on

AllRows == [status |-> "all", page |-> 1]

ASSUME AdminAssumption ==
  NoRow \notin Rows /\ MaxCalls \in [DOMAIN MaxWrites -> Nat] /\ PageOf \in [Rows -> Nat]

VARIABLES page,   \* the mounted page
          db,     \* the server's rows: a status and the number of writes applied
          ui,     \* the page's React state
          cache,  \* the client's cached answers: of lists by view, of details by row
          net,    \* the calls in flight, in the order they were sent
          hist    \* history: versions the user was told are saved, overtaken views,
                  \* writes sent, rows somebody else changed

vars == <<page, db, ui, cache, net, hist>>

NoList == <<>>   \* no cached answer
Keys == Views[page] \cup Rows
Here == [ui |-> ui, cache |-> cache, net |-> net, hist |-> hist]

(* A user action or a handler replaces the browser's state and nothing else. *)
Do(s) ==
  /\ ui' = s.ui /\ cache' = s.cache /\ net' = s.net /\ hist' = s.hist
  /\ UNCHANGED <<page, db>>

(* A form holds its initial values, values that were typed, or lacks a required one. *)
NoForm == [kind |-> "none", row |-> NoRow, text |-> "initial"]
NewForm == [NoForm EXCEPT !.kind = "create"]
EditForm(r) == [kind |-> "edit", row |-> r, text |-> "initial"]
Dirty(form) == form.text # "initial"
Ready(form) == form.text = "typed" \/ (form.text = "initial" /\ form.kind = "edit")

(* The statuses of a row that exists: of a product or a code, of an order, of
   an after-sale request. *)
Live == {"on", "off", "held", "pending", "paid", "shipped", "cancelled",
         "review", "approved", "rejected", "completed"}
BlankRows == [r \in Rows |-> [st |-> "absent", ver |-> 0]]
BlankUi(view) ==
  [view |-> view, shown |-> view, rows |-> BlankRows, loading |-> TRUE, error |-> FALSE, form |-> NoForm,
   leave |-> FALSE, doomed |-> NoRow, busy |-> FALSE, picked |-> {}, waiting |-> {},
   super |-> TRUE, mode |-> "view"]

(* The fields a page has of its own, beside those of every page. *)
Beside(own, common) ==
  [x \in DOMAIN own \cup DOMAIN common |-> IF x \in DOMAIN own THEN own[x] ELSE common[x]]

Call(op, rows, view, to, from) ==
  [op |-> op, rows |-> rows, view |-> view, to |-> to, from |-> from,
   st |-> "sent", got |-> BlankRows, base |-> BlankRows,
   then |-> NoRow, old |-> FALSE]
IsGet(c) == c.op \in {"load", "detail"}
KeyOf(c) == IF c.op = "load" THEN c.view ELSE CHOOSE r \in c.rows : TRUE

CanSend == Len(net) < MaxCalls[page]
CanWrite == CanSend /\ hist.writes < MaxWrites[page]

(* A write of rows whose status is in `from`; they get the status `to`. *)
Send(s, op, rows, to, from) ==
  [s EXCEPT !.net = Append(@, Call(op, rows, s.ui.view, to, from)), !.hist.writes = @ + 1]

Create(s, r) == Send(s, "create", {r}, "on", {"absent"})
Update(s, r) == Send(s, "update", {r}, "same", Live)
Delete(s, r) == Send(s, "delete", {r}, "gone", Live)

(* A list GET: a cached answer is shown at once, else the call goes out. *)
LoadView(s, view) ==
  IF s.cache[view] = NoList
    THEN [s EXCEPT !.ui.loading = TRUE, !.ui.error = FALSE,
                   !.net = Append(@, Call("load", {}, view, "same", {}))]
    ELSE [s EXCEPT !.ui.loading = FALSE, !.ui.error = FALSE,
                   !.ui.rows = s.cache[view], !.ui.shown = view]
Load(s) == LoadView(s, s.ui.view)

(* A GET of one record beside the list: its answer, or what is cached of it. *)
LoadDetail(s, r) ==
  IF s.cache[r] = NoList THEN [s EXCEPT !.net = Append(@, Call("detail", {r}, s.ui.view, "same", {}))]
  ELSE [s EXCEPT !.ui.node = r, !.ui.nodeVer = s.cache[r][r].ver]
DetailLoaded(s, c) ==
  LET r == KeyOf(c) IN IF c.st = "ok" THEN [s EXCEPT !.ui.node = r, !.ui.nodeVer = c.got[r].ver] ELSE s

\* Mutant of Loaded: a load that failed leaves the placeholder.
LoadedOnce(s, c) == IF c.st = "ok" THEN [s EXCEPT !.ui.rows = c.got, !.ui.shown = c.view, !.ui.loading = FALSE]
                    ELSE [s EXCEPT !.ui.error = TRUE]
Loaded(s, c) == IF c.st = "ok" THEN [s EXCEPT !.ui.rows = c.got, !.ui.shown = c.view, !.ui.loading = FALSE]
                ELSE [s EXCEPT !.ui.error = TRUE, !.ui.loading = FALSE]

Present == {r \in Rows : ui.rows[r].st \notin {"absent", "gone"}}

(* The rows a table shows, with their controls: none while it loads or shows an error. *)
Listed == IF ui.loading \/ ui.error THEN {} ELSE Present

(* Two setters of URL state called by one handler both start from the query of
   the rendered location, so the URL they leave is the last one's. *)
UrlAfter(rendered, sets) ==
  LET set == Last(sets) IN [rendered EXCEPT ![set.key] = set.value]

(* Choosing a filter also sets the page to 1, in the same handler; turning the
   page sets the page only.  The list is loaded when the URL changed. *)
GoTo(url) == /\ url \in Views[page] /\ CanSend
             /\ Do(IF url = ui.view THEN Here ELSE Load([Here EXCEPT !.ui.view = url]))
ChooseFilter == \E status \in {"all", "on"} :
  GoTo(UrlAfter(ui.view, <<[key |-> "status", value |-> status], [key |-> "page", value |-> 1]>>))
TurnPage == \E n \in {1, 2} : GoTo(UrlAfter(ui.view, <<[key |-> "page", value |-> n]>>))

(* A dialog is modal: the page under it is out of reach. *)
DialogOpen == ui.form.kind # "none" \/ ui.doomed # NoRow \/ ui.leave

OpenForm(s, f) == [s EXCEPT !.ui.form = f]
CloseForm(s) == [s EXCEPT !.ui.form = NoForm, !.ui.leave = FALSE]
Doom(s, r) == [s EXCEPT !.ui.doomed = r]
Lock(s) == [s EXCEPT !.ui.busy = TRUE]
Unlock(s) == [s EXCEPT !.ui.busy = FALSE]

(* Closing by the cross, Escape or Cancel asks first when something was typed. *)
RequestClose == IF Dirty(ui.form) THEN [Here EXCEPT !.ui.leave = TRUE] ELSE CloseForm(Here)

(* The controls a form dialog offers: Cancel and OK go dead while it saves, the
   cross and Escape do not; the question about leaving covers the form. *)
FormOffers(saving) ==
  IF ui.leave THEN {"discard", "keep"}
  ELSE IF ui.form.kind = "none" THEN {}
  ELSE {"type", "close"} \cup (IF saving THEN {} ELSE {"ok"})

ConfirmOffers == IF ui.doomed = NoRow \/ ui.form.kind # "none" THEN {} ELSE {"confirm", "cancel"}

TypeForm ==
  /\ "type" \in FormOffers(FALSE)
  /\ \E text \in {"initial", "typed", "blank"} : Do([Here EXCEPT !.ui.form.text = text])
CloseDialog == "close" \in FormOffers(FALSE) /\ Do(RequestClose)
Discard == "discard" \in FormOffers(FALSE) /\ Do(CloseForm(Here))
Keep == "keep" \in FormOffers(FALSE) /\ Do([Here EXCEPT !.ui.leave = FALSE])
CancelConfirm == "cancel" \in ConfirmOffers /\ Do(Doom(Here, NoRow))

(* The submission lock opens by itself after delay + 2 s, answer or not. *)
ForceUnlock == ui.busy /\ Do(Unlock(Here))

(* The refresh button reloads the list and refuses clicks until that load ends. *)
RefreshLoad(s) ==
  LET t == Load(s) IN IF t.net = s.net THEN t ELSE [t EXCEPT !.net[Len(t.net)].to = "refresh"]
Refresh == ~DialogOpen /\ CanSend /\ (\A i \in DOMAIN net : net[i].to # "refresh") /\ Do(RefreshLoad(Here))

(* Checking a row adds it to the selection or takes it out; the table header's
   box adds the visible rows, or drops them when all are selected. *)
ToggleRow(r) == Do([Here EXCEPT !.ui.picked = IF r \in @ THEN @ \ {r} ELSE @ \cup {r}])
ToggleAll == ~DialogOpen /\ Listed # {} /\
  Do([Here EXCEPT !.ui.picked = IF Listed \subseteq @ THEN @ \ Listed ELSE @ \cup Listed])

(***************************************************************************)
(* The server and the network.                                             *)
(***************************************************************************)
Fresh == {r \in Rows : db[r].st = "absent" /\ \A i \in DOMAIN net : r \notin net[i].rows}
WithoutCall(i) == RemoveAt(net, i)
Written(c) == [r \in Rows |-> IF r \in c.rows /\ db[r].st \in c.from
                 THEN [st |-> IF c.to = "same" THEN db[r].st ELSE c.to, ver |-> db[r].ver + 1]
                 ELSE db[r]]

(* The rows a list or a detail holds: a paged list, those of its page. *)
Found(c) == [r \in Rows |-> IF page # "ads" \/ c.view.page = PageOf[r] \/ c.op = "detail"
               THEN db[r] ELSE BlankRows[r]]
Conflicts(c) == c.op = "save" /\ \E r \in c.rows : c.base[r].ver # db[r].ver

(* The server answers a call: a load with its rows, a write by applying it or
   not, a batch with the number of a task that will apply it, and a save whose
   base version is not the current one with a conflict. *)
Serve(i) ==
  LET c == net[i]
      answer(st, got) == IF c.st = "orphan" THEN WithoutCall(i)
                         ELSE [net EXCEPT ![i].st = st, ![i].got = got]
  IN  /\ c.st \in {"sent", "orphan"}
      /\ \/ IsGet(c) /\ net' = answer("ok", Found(c)) /\ UNCHANGED db
         \/ Conflicts(c) /\ net' = answer("conflict", BlankRows) /\ UNCHANGED db
         \/ /\ c.op = "batch" /\ UNCHANGED db
            /\ net' = Append(answer("ok", db), [c EXCEPT !.op = "task", !.st = "orphan"])
         \/ /\ ~IsGet(c) /\ c.op # "batch" /\ ~Conflicts(c)
            /\ c.op # "task" => \A r \in c.rows : db[r].st \in c.from
            /\ db' = Written(c) /\ net' = answer("ok", Written(c))
         \/ net' = answer("no", BlankRows) /\ UNCHANGED db
      /\ UNCHANGED <<page, ui, cache, hist>>

(* What the client does with an answer before the page sees it: a write that
   succeeded drops the cached lists of its resource (`drops`), a list that
   arrived is cached, a list that failed is not. *)
Received(i, drops) ==
  LET c == net[i]
      saved == ~IsGet(c) /\ c.st = "ok"
      rest == [j \in DOMAIN WithoutCall(i) |->
                 IF saved THEN [WithoutCall(i)[j] EXCEPT !.old = TRUE] ELSE WithoutCall(i)[j]]
  IN  [ui |-> ui,
       net |-> rest,
       cache |-> IF saved THEN IF drops THEN [k \in Keys |-> NoList] ELSE cache
                 ELSE IF IsGet(c) THEN [cache EXCEPT ![KeyOf(c)] = IF c.st = "ok" THEN c.got ELSE NoList]
                 ELSE cache,
       hist |-> IF saved /\ c.op # "batch" THEN [hist EXCEPT !.acked = [r \in Rows |-> IF r \in c.rows THEN c.got[r].ver ELSE @[r]]]
                ELSE IF c.op = "load" /\ c.st = "ok"
                THEN [hist EXCEPT !.overtaken = IF c.old THEN @ \cup {c.view} ELSE @ \ {c.view}]
                ELSE hist]

(* Axios gives up after 15 s; a write may still reach the server later. *)
GivenUp(i) ==
  [Here EXCEPT !.net = IF IsGet(net[i]) THEN WithoutCall(i) ELSE [net EXCEPT ![i].st = "orphan"],
               !.cache = IF IsGet(net[i]) THEN [cache EXCEPT ![KeyOf(net[i])] = NoList] ELSE cache]

(* Another administrator or a customer changes a record. *)
ChangedElsewhere(r, st) ==
  /\ hist.others = {}
  /\ db' = [db EXCEPT ![r] = [st |-> st, ver |-> @.ver + 1]]
  /\ hist' = [hist EXCEPT !.others = {r}]
  /\ UNCHANGED <<page, ui, cache, net>>

(* A cached answer is deleted by its timer 30 s after it was stored. *)
Expire(k) == cache[k] # NoList /\ Do([Here EXCEPT !.cache[k] = NoList])

TableInit ==
  /\ cache = [k \in Keys |-> NoList]
  /\ hist = [acked |-> [r \in Rows |-> 0], overtaken |-> {}, writes |-> 0, others |-> {}]
==============================================================================
