----------------------------- MODULE AdminCatalog -----------------------------
(***************************************************************************)
(* The catalogue pages of the administration console: brands, tags, the    *)
(* category tree and products (src/web/react/src/pages/Admin).             *)
(***************************************************************************)
EXTENDS AdminTable

(***************************************************************************)
(* Brands (AdminBrands.tsx)                                                *)
(***************************************************************************)
BrandApi ==
  [load   |-> Path(<<"goods", "brand">>),
   create |-> Path(<<"goods", "brand", "create">>),
   update |-> Path(<<"goods", "brand", "#", "update">>),
   delete |-> Path(<<"goods", "brand", "#", "delete">>)]

(* The search box filters the loaded rows in the browser. *)
BrandsRowOffers(r) == IF ui.super /\ r \in Listed /\ ~DialogOpen THEN {"edit", "delete"} ELSE {}
BrandsOffers == IF DialogOpen THEN {} ELSE {"refresh"} \cup (IF ui.super THEN {"create"} ELSE {})
BrandsFormOffers == FormOffers(ui.busy)

BrandsOpenCreate == "create" \in BrandsOffers /\ Do(OpenForm(Here, NewForm))
BrandsOpenEdit == \E r \in Rows : "edit" \in BrandsRowOffers(r) /\ Do(OpenForm(Here, EditForm(r)))
BrandsAskDelete == \E r \in Rows : "delete" \in BrandsRowOffers(r) /\ Do(Doom(Here, r))

(* Saving needs a name and the lock. *)
BrandsSave ==
  /\ "ok" \in BrandsFormOffers /\ Ready(ui.form) /\ CanWrite
  /\ \/ ui.form.kind = "edit" /\ Do(Lock(Update(Here, ui.form.row)))
     \/ ui.form.kind = "create" /\ \E r \in Fresh : Do(Lock(Create(Here, r)))
BrandsSaved(s, c) == IF c.st = "ok" THEN Load(CloseForm(Unlock(s))) ELSE Unlock(s)

(* The confirmation is not locked: it stays until the answer. *)
BrandsDelete == "confirm" \in ConfirmOffers /\ CanWrite /\ Do(Delete(Here, ui.doomed))
BrandsDeleted(s, c) == IF c.st = "ok" THEN Load(Doom(s, NoRow)) ELSE Doom(s, NoRow)

BrandsReply(s, c) ==
  IF c.op = "load" THEN Loaded(s, c) ELSE IF c.op = "delete" THEN BrandsDeleted(s, c) ELSE BrandsSaved(s, c)

BrandsNext ==
  \/ BrandsOpenCreate \/ BrandsOpenEdit \/ BrandsAskDelete \/ BrandsSave \/ BrandsDelete
  \/ TypeForm \/ CloseDialog \/ Discard \/ Keep \/ CancelConfirm \/ ForceUnlock

(***************************************************************************)
(* Tags (AdminTags.tsx): like brands, but the save has no lock.            *)
(***************************************************************************)
TagApi ==
  [load   |-> Path(<<"goods", "tag">>),
   create |-> Path(<<"goods", "tag", "create">>),
   update |-> Path(<<"goods", "tag", "#", "update">>),
   delete |-> Path(<<"goods", "tag", "#", "delete">>)]

TagsRowOffers(r) == IF ui.super /\ r \in Listed /\ ~DialogOpen THEN {"edit", "delete"} ELSE {}
TagsOffers == IF DialogOpen THEN {} ELSE {"refresh"} \cup (IF ui.super THEN {"create"} ELSE {})
TagsFormOffers == FormOffers(FALSE)

TagsOpenCreate == "create" \in TagsOffers /\ Do(OpenForm(Here, NewForm))
TagsOpenEdit == \E r \in Rows : "edit" \in TagsRowOffers(r) /\ Do(OpenForm(Here, EditForm(r)))
TagsAskDelete == \E r \in Rows : "delete" \in TagsRowOffers(r) /\ Do(Doom(Here, r))

TagsSave ==
  /\ "ok" \in TagsFormOffers /\ Ready(ui.form) /\ CanWrite
  /\ \/ ui.form.kind = "edit" /\ Do(Update(Here, ui.form.row))
     \/ ui.form.kind = "create" /\ \E r \in Fresh : Do(Create(Here, r))
TagsSaved(s, c) == IF c.st = "ok" THEN Load(CloseForm(s)) ELSE s

TagsDelete == "confirm" \in ConfirmOffers /\ CanWrite /\ Do(Delete(Here, ui.doomed))
TagsDeleted(s, c) == IF c.st = "ok" THEN Load(Doom(s, NoRow)) ELSE Doom(s, NoRow)

TagsReply(s, c) ==
  IF c.op = "load" THEN Loaded(s, c) ELSE IF c.op = "delete" THEN TagsDeleted(s, c) ELSE TagsSaved(s, c)

TagsNext ==
  \/ TagsOpenCreate \/ TagsOpenEdit \/ TagsAskDelete \/ TagsSave \/ TagsDelete
  \/ TypeForm \/ CloseDialog \/ Discard \/ Keep \/ CancelConfirm

(***************************************************************************)
(* Categories (AdminCategories.tsx): a tree beside a panel whose mode is   *)
(* view, edit, create or migrate.  `node` is the selected node as it was   *)
(* loaded, `urlId` the id kept in the URL.                                 *)
(***************************************************************************)
CategoryApi ==
  [load    |-> Path(<<"goods", "category", "subtree">>),
   create  |-> Path(<<"goods", "category", "create">>),
   update  |-> Path(<<"goods", "category", "#", "update">>),
   delete  |-> Path(<<"goods", "category", "#", "delete">>),
   migrate |-> Path(<<"goods", "category", "migrate">>)]

CategoriesUi ==
  Beside([node |-> NoRow, nodeVer |-> 0, urlId |-> NoRow, creating |-> FALSE,
          asking |-> FALSE, source |-> NoRow, target |-> NoRow], BlankUi(AllRows))

CategoriesSelected(s, r) ==
  [s EXCEPT !.ui.creating = FALSE, !.ui.node = r, !.ui.nodeVer = s.ui.rows[r].ver, !.ui.mode = "view",
            !.ui.form = EditForm(r), !.ui.urlId = r]

(* An effect after every render: the category in the URL is selected when the
   tree in memory has it, unless a new one is being written. *)
CategoriesReplay(s) ==
  LET id == s.ui.urlId
  IN  IF id = NoRow \/ s.ui.node = id \/ s.ui.creating THEN s
      ELSE IF s.ui.rows[id].st \in Live THEN CategoriesSelected(s, id) ELSE s
CategoriesDo(s) == Do(CategoriesReplay(s))

CategoriesPanelOffers ==
  LET selected == ui.node # NoRow
  IN  IF ui.mode = "view" /\ selected
        THEN IF ui.super THEN {"edit", "delete", "migrate"} ELSE {}
      ELSE IF ui.mode = "edit" /\ selected THEN {"type", "cancel"} \cup (IF ui.busy THEN {} ELSE {"save"})
      ELSE IF ui.mode = "create" THEN {"type", "cancel", "save"}
      ELSE IF ui.mode = "migrate" THEN {"source", "target", "run", "cancel"}
      ELSE IF ui.super THEN {"create"} ELSE {}
CategoriesOffers ==
  IF ui.asking /\ ui.node # NoRow THEN {"confirm delete", "cancel delete"}
  ELSE (IF ui.super THEN {"create"} ELSE {}) \cup
       (IF ui.loading THEN {}
        ELSE IF ui.error THEN {"retry"}
        ELSE IF Present = {} /\ ui.mode # "create" THEN {}
        ELSE {"select"} \cup CategoriesPanelOffers)

CategoriesSelect == "select" \in CategoriesOffers /\ \E r \in Present : CategoriesDo(CategoriesSelected(Here, r))
CategoriesCreate == "create" \in CategoriesOffers /\
  CategoriesDo([Here EXCEPT !.ui.creating = TRUE, !.ui.node = NoRow, !.ui.nodeVer = 0, !.ui.mode = "create",
                            !.ui.form = NewForm, !.ui.urlId = NoRow])
CategoriesType == "type" \in CategoriesOffers /\ \E text \in {"initial", "typed", "blank"} :
  CategoriesDo([Here EXCEPT !.ui.form.text = text])
CategoriesMode ==
  \/ "edit" \in CategoriesOffers /\ CategoriesDo([Here EXCEPT !.ui.mode = "edit"])
  \/ "cancel" \in CategoriesOffers /\ CategoriesDo([Here EXCEPT !.ui.mode = "view"])
  \/ "migrate" \in CategoriesOffers /\ CategoriesDo([Here EXCEPT !.ui.mode = "migrate", !.ui.source = ui.node])
  \/ "delete" \in CategoriesOffers /\ CategoriesDo([Here EXCEPT !.ui.asking = TRUE])
  \/ "cancel delete" \in CategoriesOffers /\ CategoriesDo([Here EXCEPT !.ui.asking = FALSE])
CategoriesRetry == "retry" \in CategoriesOffers /\ CanSend /\ CategoriesDo(Load(Here))

(* The edit panel saves under the lock, the create panel without it. *)
CategoriesSave ==
  /\ "save" \in CategoriesOffers /\ Ready(ui.form) /\ CanWrite
  /\ \/ ui.mode = "create" /\ \E r \in Fresh : CategoriesDo(Create(Here, r))
     \/ ui.mode = "edit" /\ CategoriesDo(Lock(Update(Here, ui.node)))
CategoriesSaved(s, c) ==
  LET t == IF c.op = "update" THEN Unlock(s) ELSE s
  IN  IF c.st = "ok" THEN [Load(t) EXCEPT !.ui.mode = "view"] ELSE t

CategoriesDelete == "confirm delete" \in CategoriesOffers /\ CanWrite /\ CategoriesDo(Delete(Here, ui.node))
CategoriesDeleted(s, c) ==
  IF c.st = "ok" THEN Load([s EXCEPT !.ui.node = NoRow, !.ui.nodeVer = 0, !.ui.asking = FALSE])
  ELSE [s EXCEPT !.ui.asking = FALSE]

CategoriesAim == \E r \in Present \cup {NoRow} :
  \/ "source" \in CategoriesOffers /\ CategoriesDo([Here EXCEPT !.ui.source = r])
  \/ "target" \in CategoriesOffers /\ CategoriesDo([Here EXCEPT !.ui.target = r])
CategoriesMigrate ==
  /\ "run" \in CategoriesOffers /\ NoRow \notin {ui.source, ui.target} /\ CanWrite
  /\ CategoriesDo(Send(Here, "migrate", {}, "same", Live))
CategoriesMigrated(s, c) == IF c.st = "ok" THEN Load([s EXCEPT !.ui.mode = "view"]) ELSE s

CategoriesReply(s, c) == CategoriesReplay(
  IF c.op = "load" THEN Loaded(s, c)
  ELSE IF c.op = "delete" THEN CategoriesDeleted(s, c)
  ELSE IF c.op = "migrate" THEN CategoriesMigrated(s, c)
  ELSE CategoriesSaved(s, c))

CategoriesNext ==
  \/ CategoriesSelect \/ CategoriesCreate \/ CategoriesType \/ CategoriesMode \/ CategoriesRetry
  \/ CategoriesSave \/ CategoriesDelete \/ CategoriesAim \/ CategoriesMigrate \/ ForceUnlock

(***************************************************************************)
(* Products (AdminProducts.tsx): the list, its filters and shelf actions.  *)
(* A row is on sale ("on"), off sale ("off") or suspended ("held").        *)
(***************************************************************************)
ProductApi ==
  [load   |-> Path(<<"goods", "spu", "admin">>),
   shelf  |-> Path(<<"goods", "spu", "#", "shelf">>),
   delete |-> Path(<<"goods", "spu", "#", "delete">>),
   batch  |-> Path(<<"goods", "spu", "batch">>)]

(* The server filters by the status and the page in the URL. *)
ProductsListed ==
  {r \in Present : ~ui.loading /\ (ui.view.status = "all" \/ ui.rows[r].st = "on")}
ProductsRowOffers(r) ==
  IF r \notin ProductsListed \/ DialogOpen THEN {}
  ELSE {"pick"} \cup (IF ui.super THEN {"delete"} ELSE {})
       \cup (IF ui.super /\ r \notin ui.waiting
               THEN [on |-> {"off", "held"}, off |-> {"on"}, held |-> {"on"}][ui.rows[r].st] ELSE {})

(* A shelf action disables the row's buttons until the list is loaded again. *)
ProductsShelf == \E r \in Rows : \E to \in ProductsRowOffers(r) \cap Live :
  CanWrite /\ Do(Send([Here EXCEPT !.ui.waiting = @ \cup {r}], "shelf", {r}, to, {ui.rows[r].st}))

\* Mutant of ProductsShelved: the row is released when the action is answered.
ProductsShelvedAtOnce(s, c) ==
  LET t == [LoadView(s, c.view) EXCEPT !.ui.waiting = @ \ c.rows]
  IN  IF t.net = s.net THEN t ELSE [t EXCEPT !.net[Len(t.net)].rows = c.rows]
(* The reload runs whether the action succeeded or not, with the filters of the
   click; the row is released when it ends. *)
ProductsShelved(s, c) ==
  IF s.cache[c.view] # NoList
    THEN [LoadView(s, c.view) EXCEPT !.ui.waiting = @ \ c.rows]
    ELSE LET t == LoadView(s, c.view) IN [t EXCEPT !.net[Len(t.net)].rows = c.rows]
ProductsLoaded(s, c) == [Loaded(s, c) EXCEPT !.ui.waiting = @ \ c.rows]

(* A product on sale, as the loaded list shows it, is not offered for deletion. *)
ProductsAskDelete == \E r \in Rows :
  /\ "delete" \in ProductsRowOffers(r) /\ ui.rows[r].st # "on"
  /\ Do(Doom(Here, r))
ProductsDelete ==
  "confirm" \in ConfirmOffers /\ CanWrite /\ Do(Delete(Doom(Here, NoRow), ui.doomed))

(* A batch starts a server task for the selection, which outlives the list. *)
ProductsBatch ==
  /\ ~DialogOpen /\ ui.picked # {} /\ ~ui.loading /\ CanWrite
  /\ \E to \in {"on", "off"} : Do(Send(Here, "batch", ui.picked, to, Live))
ProductsBatched(s, c) == IF c.st = "ok" THEN Load([s EXCEPT !.ui.picked = {}]) ELSE [s EXCEPT !.ui.error = TRUE]
(* The card view's box selects the page or nothing, the table's adds the page to
   the selection or takes it out. *)
ProductsPick ==
  \/ \E r \in Rows : "pick" \in ProductsRowOffers(r) /\ ToggleRow(r)
  \/ ~DialogOpen /\ ProductsListed # {} /\ \E all \in {{}, ProductsListed} : Do([Here EXCEPT !.ui.picked = all])
  \/ ToggleAll

ProductsFilter == ~DialogOpen /\ (ChooseFilter \/ TurnPage)

ProductsReply(s, c) ==
  IF c.op = "load" THEN ProductsLoaded(s, c)
  ELSE IF c.op = "shelf" THEN ProductsShelved(s, c)
  ELSE IF c.op = "batch" THEN ProductsBatched(s, c)
  ELSE IF c.st = "ok" THEN LoadView(s, c.view) ELSE [s EXCEPT !.ui.error = TRUE]

ProductsNext ==
  \/ ProductsShelf \/ ProductsAskDelete \/ ProductsDelete \/ ProductsBatch \/ ProductsPick
  \/ ProductsFilter \/ CancelConfirm
==============================================================================
