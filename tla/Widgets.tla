------------------------------- MODULE Widgets -------------------------------
(***************************************************************************)
(* Parts of pages with a life of their own: the gallery of videos and the  *)
(* preview of the home page (ScenarioGallery.tsx, UseCases.tsx), the two   *)
(* kinds of passing messages (GlobalErrorToast.tsx, Toast.tsx), the lazy   *)
(* pages and what happens when one cannot be loaded (chunkReload.ts,       *)
(* AppErrorBoundary.tsx), the upload of a logo (Upload.tsx), and the        *)
(* currency and the language (UtilityBar.tsx, I18nContext.tsx).            *)
(***************************************************************************)
EXTENDS StoreClient

CONSTANTS GalleryRows, \* the rows of the gallery, each with its videos
          UploadRow,   \* the first row: what is added goes there
          NoVideo,
          MaxAdded,    \* bound: videos that are added
          MaxToasts    \* bound: messages shown

ASSUME WidgetsAssumption ==
  UploadRow \in DOMAIN GalleryRows /\ NoVideo \notin UNION {GalleryRows[r] : r \in DOMAIN GalleryRows} /\ MaxAdded \in Nat /\ MaxToasts \in Nat

(***************************************************************************)
(* The gallery: rows that scroll, one card in focus, its whole row, and a  *)
(* player over any of them.  Batches of files are read one file after      *)
(* another, and one message tells of the last batch that moved.            *)
(***************************************************************************)
Quiet == [done |-> 0, of |-> 0]
BlankGallery == [uploads |-> {}, batches |-> <<>>, adding |-> Quiet, focus |-> NoVideo, row |-> UploadRow,
                 expanded |-> FALSE, playing |-> NoVideo, notes |-> TRUE]
RowVideos(r) == GalleryRows[r] \cup (IF r = UploadRow THEN ui.uploads ELSE {})
Awaited == FoldLeft(LAMBDA n, b : n + b.of - b.done, 0, ui.batches)
StageOffers ==
  IF ui.playing # NoVideo THEN {"close"} ELSE IF ui.focus = NoVideo THEN {"add", "card"}
  ELSE IF ui.expanded THEN {"captions", "back", "play"} ELSE {"back", "expand", "play"}
(* What is no video is left out; a list without one changes nothing. *)
onUpload ==
  /\ "add" \in StageOffers
  /\ \E n \in 1..(MaxAdded - Cardinality(ui.uploads) - Awaited) :
       Do([Here EXCEPT !.ui.batches = Append(@, [done |-> 0, of |-> n]), !.ui.adding = [done |-> 0, of |-> n]])
(* A piece of a file has been read, or the file is there. *)
readWithProgress(b) == Do([Here EXCEPT !.ui.adding = ui.batches[b]])
VideoAdded(b) ==
  LET next == [ui.batches[b] EXCEPT !.done = @ + 1]
      s == [Here EXCEPT !.ui.uploads = @ \cup {Cardinality(@) + 1}]
  IN  Do(IF next.done = next.of THEN [s EXCEPT !.ui.batches = RemoveAt(@, b), !.ui.adding = Quiet]
         ELSE [s EXCEPT !.ui.batches[b] = next, !.ui.adding = next])
(* A file that cannot be read ends its batch; the message stays. *)
VideoUnread(b) == Event /\ ui' = [ui EXCEPT !.batches = RemoveAt(@, b)] /\ UNCHANGED <<screen, srv, calls, cache>>
closeFocus(s) == [s EXCEPT !.ui.focus = NoVideo, !.ui.expanded = FALSE]
PressGallery ==
  \/ "card" \in StageOffers /\ \E r \in DOMAIN GalleryRows : \E v \in RowVideos(r) : Do([Here EXCEPT !.ui.focus = v, !.ui.row = r])
  \/ "expand" \in StageOffers /\ Do([Here EXCEPT !.ui.expanded = TRUE])
  \/ "captions" \in StageOffers /\ Do([Here EXCEPT !.ui.notes = ~@])
  \/ "back" \in StageOffers /\ Do(IF ui.expanded THEN [Here EXCEPT !.ui.expanded = FALSE] ELSE closeFocus(Here))
  \/ "play" \in StageOffers /\ \E v \in IF ui.expanded THEN RowVideos(ui.row) ELSE {ui.focus} : Do([Here EXCEPT !.ui.playing = v])
  \/ "close" \in StageOffers /\ Do([Here EXCEPT !.ui.playing = NoVideo])
(* Escape leaves the innermost. *)
onKey ==
  IF ui.playing # NoVideo THEN Do([Here EXCEPT !.ui.playing = NoVideo])
  ELSE IF ui.expanded THEN Do([Here EXCEPT !.ui.expanded = FALSE])
  ELSE ui.focus # NoVideo /\ Do(closeFocus(Here))
GalleryNext ==
  /\ screen = "gallery"
  /\ onUpload \/ PressGallery \/ onKey
     \/ \E b \in DOMAIN ui.batches : readWithProgress(b) \/ VideoAdded(b) \/ VideoUnread(b)

(***************************************************************************)
(* The preview: a material and an application are chosen, five steps pass, *)
(* and a fixed picture is shown.                                           *)
(***************************************************************************)
STEPS == 5
BlankPreview == [material |-> "none", scenario |-> "none", image |-> FALSE, phase |-> "idle", step |-> 0]
ready == ui.material # "none" /\ ui.scenario # "none"
generate == ready /\ ui.phase # "generating" /\ Do([Here EXCEPT !.ui.step = 0, !.ui.phase = "generating"])
StepDue == /\ ui.phase = "generating"
           /\ Do([Here EXCEPT !.ui.step = @ + 1, !.ui.phase = IF ui.step + 1 >= STEPS THEN "done" ELSE @])
PreviewNext ==
  /\ screen = "preview"
  /\ \/ \E m \in {"wood", "glass"} : Do([Here EXCEPT !.ui.material = m])
     \/ \E a \in {"logo", "gifts"} : Do([Here EXCEPT !.ui.scenario = a])
     \/ Do([Here EXCEPT !.ui.image = TRUE])
     \/ generate \/ StepDue

(***************************************************************************)
(* Messages.  The shop's: the timer of a message goes when the error it    *)
(* came from is cleared, which its own effect does, so only a press        *)
(* removes it.  The console's: the last five, each with a timer.           *)
(***************************************************************************)
KeptToasts == 5
BlankToasts == [shown |-> 0, toasts |-> <<>>, exiting |-> {}, items |-> <<>>, timers |-> {}]
Without(seq, id) == SelectSeq(seq, LAMBDA t : t # id)
showToast == Do([Here EXCEPT !.ui.shown = @ + 1, !.ui.toasts = Append(@, ui.shown + 1)])
removeToast(id) == Do([Here EXCEPT !.ui.exiting = @ \cup {id}])
ToastExits(id) == Do([Here EXCEPT !.ui.exiting = @ \ {id}, !.ui.toasts = Without(@, id)])
notify ==
  LET id == ui.shown + 1
      last == SubSeq(ui.items, Len(ui.items) - (KeptToasts - 2), Len(ui.items))
  IN  Do([Here EXCEPT !.ui.shown = id, !.ui.timers = @ \cup {id},
                      !.ui.items = Append(IF Len(@) < KeptToasts THEN @ ELSE last, id)])
dismiss(id) == Do([Here EXCEPT !.ui.items = Without(@, id), !.ui.timers = @ \ {id}])
ToastsNext ==
  /\ screen = "toasts"
  /\ \/ ui.shown < MaxToasts /\ (showToast \/ notify)
     \/ \E id \in ToSet(ui.toasts) : removeToast(id)
     \/ \E id \in ui.exiting : ToastExits(id)
     \/ \E id \in ToSet(ui.items) \cup ui.timers : dismiss(id)

(***************************************************************************)
(* A page is loaded when it is opened.  The files of another release than  *)
(* the server's are not there: the page is reloaded, but not twice in ten  *)
(* seconds unless the browser remembers nothing; then the error is shown.  *)
(***************************************************************************)
BlankLazy(memory) == [build |-> 1, view |-> "page", memory |-> memory, recent |-> FALSE]
OpenRoute == ui.view = "page" /\ Do([Here EXCEPT !.ui.view = "loading"])
reloadForNewChunks(s) ==
  IF s.ui.memory /\ s.ui.recent THEN [s EXCEPT !.ui.view = "error"]
  ELSE [s EXCEPT !.ui.view = "reloading", !.ui.recent = s.ui.memory]
lazyWithReload ==
  /\ ui.view = "loading"
  /\ IF ui.build = srv THEN Do([Here EXCEPT !.ui.view = "page"]) ELSE Do(reloadForNewChunks(Here))
ChunkLost == /\ ui.view = "loading" /\ ui.build = srv /\ Event
             /\ ui' = reloadForNewChunks(Here).ui /\ UNCHANGED <<screen, srv, calls, cache>>
(* The page that comes may be an old one that was kept on the way. *)
PageReloads == ui.view = "reloading" /\ \E b \in {ui.build, srv} : Do([Here EXCEPT !.ui.build = b, !.ui.view = "loading"])
reloadCooldown == ui.recent /\ ui.view # "reloading" /\ Do([Here EXCEPT !.ui.recent = FALSE])
handleReset == ui.view = "error" /\ Do([Here EXCEPT !.ui.view = "reloading"])
Release == Event /\ srv' = srv + 1 /\ UNCHANGED <<screen, ui, calls, cache>>
LazyNext ==
  /\ screen = "lazy"
  /\ OpenRoute \/ lazyWithReload \/ ChunkLost \/ PageReloads \/ reloadCooldown \/ handleReset \/ Release

(***************************************************************************)
(* The logo of a brand: one picture, uploaded when it is picked.  Taking   *)
(* an upload off the list does not stop it.                                *)
(***************************************************************************)
MaxFiles == 1
BlankLogo == [logo |-> 0, busy |-> [k \in {} |-> "none"], picked |-> 0]
remaining == MaxFiles - (IF ui.logo = 0 THEN 0 ELSE 1) - Cardinality(DOMAIN ui.busy)
Marked(s, key, st) == [s EXCEPT !.ui.busy = key :> st @@ @]
Unmarked(s, key) == [s EXCEPT !.ui.busy = [k \in DOMAIN @ \ {key} |-> @[k]]]
(* One that is too large or no picture fails before it is sent. *)
handleFiles ==
  LET key == ui.picked + 1
      s == [Here EXCEPT !.ui.picked = key]
  IN  /\ remaining > 0 /\ Room(1)
      /\ \E t \in {Send(Marked(s, key, "sending"), Call("logo", key)), Marked(s, key, "failed")} : Op(t)
LogoReply(s, c) ==
  IF c.st = "ok" THEN [Marked(s, c.arg, "done") EXCEPT !.ui.logo = c.arg] ELSE Marked(s, c.arg, "failed")
LogoNext ==
  /\ screen = "logo"
  /\ \/ handleFiles
     \/ \E k \in DOMAIN ui.busy : Do(Unmarked(Here, k))
     \/ ui.logo # 0 /\ Do([Here EXCEPT !.ui.logo = 0])

(***************************************************************************)
(* The bar above the header: the currency prices are shown in and the      *)
(* language of the page, which the browser remembers; srv is the language  *)
(* the browser itself is set to.                                           *)
(***************************************************************************)
CURRENCIES == {"USD", "EUR", "JPY"}
RATES == [USD |-> 100, EUR |-> 92, JPY |-> 15000]  \* hundredths for a dollar
Price == 1999  \* one price that is shown, in cents
LANGUAGES == {"en", "zh", "ar"}
detectFromBrowser == IF srv \in LANGUAGES THEN srv ELSE "en"
getInitialLang(kept) == IF kept \in LANGUAGES THEN kept ELSE detectFromBrowser
applyDir(l) == IF l = "ar" THEN "rtl" ELSE "ltr"
(* An amount in cents, in the least unit that is shown: cents, or whole yen. *)
Shown(currency, cents) == LET unit == IF currency = "JPY" THEN 10000 ELSE 100 IN (cents * RATES[currency] + unit \div 2) \div unit
(* What the page starts with, from what the browser has kept. *)
BlankBar(saved, kept) ==
  LET l == getInitialLang(kept)
  IN  [currency |-> saved, saved |-> saved, open |-> FALSE, price |-> Shown(saved, Price), lang |-> l, kept |-> kept, dir |-> applyDir(l)]
setCurrency(c) == Do([Here EXCEPT !.ui.currency = c, !.ui.saved = c, !.ui.open = FALSE, !.ui.price = Shown(c, Price)])
(* The direction is set at once; where nothing can be kept the choice is forgotten. *)
setLang(l) == \E kept \in {ui.kept, l} : Do([Here EXCEPT !.ui.lang = l, !.ui.dir = applyDir(l), !.ui.kept = kept])
BarNext ==
  /\ screen = "bar"
  /\ \/ Do([Here EXCEPT !.ui.open = ~@])
     \/ ui.open /\ \E c \in CURRENCIES : setCurrency(c)
     \/ Do([Here EXCEPT !.ui.open = FALSE])
     \/ \E l \in LANGUAGES : setLang(l)
     \/ Do([Here EXCEPT !.ui = BlankBar(ui.saved, ui.kept)])

WidgetsNext == BarNext \/ GalleryNext \/ PreviewNext \/ ToastsNext \/ LazyNext \/ LogoNext
==============================================================================
