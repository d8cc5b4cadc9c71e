------------------------------ MODULE MediaDesk ------------------------------
(***************************************************************************)
(* The media of the product that is being edited: the browser's staging    *)
(* database (utils/mediaStaging.ts) and the media manager with its dialogs *)
(* (components/admin/common/MediaManager).  Pictures are cropped one by    *)
(* one from a queue and staged; the form uploads what is staged.  The      *)
(* media that an existing product has are changed on the server at once.   *)
(* The staging database belongs to the browser, not to a product.          *)
(***************************************************************************)
EXTENDS Naturals, Sequences, FiniteSets, SequencesExt, Lists

CONSTANTS Images, Videos,       \* the files a user may pick
          NoMedia,              \* no file
          MaxImages, MaxVideos, \* limits of one product (15 and 3 in the code)
          MaxMediaCalls         \* bound: writes of an existing product's media

Media == Images \cup Videos
ASSUME MediaAssumption == NoMedia \notin Media /\ Images \cap Videos = {} /\ IsFiniteSet(Videos) /\ MaxImages \in Nat

VARIABLES screen,  \* "stage", "new" or "edit": a product form; "gallery": an existing product's media
          stage,   \* the staging database, in the order of createdAt
          media,   \* the media manager's React state
          server,  \* what the server holds
          hist     \* history variables

(* The media manager: staged media and saved media as shown, the crop queue, the
   file a dialog prepares and the one it holds for cropping, the open dialog,
   the saved medium it is about, the one whose deletion is to be confirmed, the
   calls in flight and the cached answer of the product's media. *)
BlankMedia(staged, saved) ==
  [shown |-> staged, saved |-> saved, queue |-> <<>>, prep |-> NoMedia, held |-> NoMedia, dialog |-> "none",
   target |-> NoMedia, doomed |-> NoMedia, calls |-> {}, cached |-> TRUE, cache |-> saved]

Called(s, op, m, order) == [s EXCEPT !.calls = @ \cup {[op |-> op, m |-> m, order |-> order, st |-> "write"]}]
CanCall == hist.mediaCalls < MaxMediaCalls
Counted == hist' = [hist EXCEPT !.mediaCalls = @ + 1]
Without(s, m) == Kept(s, Media \ {m})
OnlyImages(s) == Kept(s, Images)
OnlyVideos(s) == Kept(s, Videos)

(* The staging database: an item goes last; a rewrite puts the items that are
   passed back behind the others, whether they are still there or not. *)
addStagedItem(db, m) == Append(db, m)
deleteStagedItem(db, m) == Without(db, m)
reorderStagedItems(db, items) == Kept(db, Media \ ToSet(items)) \o items

\* Videos first, each kind in its order.
sortVideoFirst(s) == OnlyVideos(s) \o OnlyImages(s)

(* A new form shows what is staged; an existing product's shows that behind its own media. *)
Creating == screen \in {"stage", "new"}
DeskOffers == IF media.dialog # "none" \/ media.doomed # NoMedia THEN {} ELSE {"drop", "video", "remove", "drag"}
Count(kind) == Cardinality((ToSet(media.shown) \cup IF Creating THEN {} ELSE ToSet(media.saved)) \cap kind)

\* The files that a product still has room for.
Cut(files, remain) == IF remain <= 0 THEN <<>> ELSE SubSeq(files, 1, IF remain < Len(files) THEN remain ELSE Len(files))

(***************************************************************************)
(* The crop queue.  Dropped files beyond the limit are cut off when the    *)
(* product is new; an existing product's limit guards the file picker only.*)
(***************************************************************************)
startQueue(files) ==
  LET remain == MaxImages - Cardinality(ToSet(media.shown) \cap Images)
      selected == IF Creating THEN Cut(files, remain) ELSE files
  IN  /\ "drop" \in DeskOffers /\ selected # <<>>
      /\ media' = [media EXCEPT !.queue = selected, !.prep = Head(selected), !.dialog = "image"]
      /\ hist' = [hist EXCEPT !.used = @ \cup ToSet(files)]
Drop ==
  /\ \E f, g \in Images \ hist.used : startQueue(IF f = g THEN <<f>> ELSE <<f, g>>)
  /\ UNCHANGED <<screen, stage, server>>

(* The next file is prepared; behind the last one the dialog closes. *)
advanceQueue(s) ==
  LET rest == IF s.queue = <<>> THEN <<>> ELSE Tail(s.queue)
  IN  [s EXCEPT !.queue = rest, !.prep = IF rest = <<>> THEN NoMedia ELSE Head(rest),
                !.dialog = IF rest = <<>> THEN "none" ELSE @]

(* Preparing checks and compresses a file; one that is refused is skipped.  It
   goes on behind a dialog that was closed. *)
Prepare ==
  /\ media.prep # NoMedia
  /\ \/ media' = [media EXCEPT !.prep = NoMedia, !.held = media.prep]
     \/ media' = IF media.queue = <<>> THEN [media EXCEPT !.prep = NoMedia] ELSE advanceQueue(media)
  /\ UNCHANGED <<screen, stage, server, hist>>

(* A cropped picture is staged and shown, unless the database refuses it. *)
handleCropConfirm ==
  /\ media.dialog = "image" /\ media.held # NoMedia
  /\ LET m == media.held
         s == [advanceQueue(media) EXCEPT !.held = NoMedia]
     IN  \/ /\ stage' = addStagedItem(stage, m)
            /\ media' = [s EXCEPT !.shown = Append(@, m)]
         \/ media' = s /\ UNCHANGED stage
  /\ UNCHANGED <<screen, server, hist>>
handleSkip ==
  /\ media.dialog = "image" /\ media.queue # <<>> /\ media.held # NoMedia
  /\ media' = [advanceQueue(media) EXCEPT !.held = NoMedia]
  /\ UNCHANGED <<screen, stage, server, hist>>
(* Closing the dialog keeps the queue and a preparation that is under way. *)
CloseImageDialog ==
  /\ media.dialog \in {"image", "recrop"}
  /\ media' = [media EXCEPT !.dialog = "none", !.target = NoMedia, !.held = NoMedia]
  /\ UNCHANGED <<screen, stage, server, hist>>

(***************************************************************************)
(* Videos, removal and order of what is staged                             *)
(***************************************************************************)
OpenVideoDialog ==
  /\ "video" \in DeskOffers /\ Count(Videos) < MaxVideos /\ (Creating \/ CanCall)
  /\ media' = [media EXCEPT !.dialog = "video", !.held = NoMedia]
  /\ UNCHANGED <<screen, stage, server, hist>>
CloseVideoDialog ==
  /\ media.dialog = "video" /\ media' = [media EXCEPT !.dialog = "none", !.held = NoMedia]
  /\ UNCHANGED <<screen, stage, server, hist>>
(* The frames of a chosen video are extracted before it can be confirmed. *)
handleExtractFrames ==
  /\ media.dialog = "video" /\ media.held = NoMedia
  /\ \E v \in Videos \ hist.used : media' = [media EXCEPT !.held = v] /\ hist' = [hist EXCEPT !.used = @ \cup {v}]
  /\ UNCHANGED <<screen, stage, server>>
(* A new product's video is staged, and shown first; an existing one's is uploaded. *)
ConfirmVideo ==
  /\ media.dialog = "video" /\ media.held # NoMedia
  /\ LET v == media.held
         s == [media EXCEPT !.dialog = "none", !.held = NoMedia]
     IN  IF Creating
           THEN /\ stage' = addStagedItem(stage, v) /\ media' = [s EXCEPT !.shown = <<v>> \o @] /\ UNCHANGED hist
           ELSE CanCall /\ Counted /\ media' = Called(s, "video", v, <<>>) /\ UNCHANGED stage
  /\ UNCHANGED <<screen, server>>

(* A staged medium is dropped from the database; an active one of a product is
   asked about first, any other deleted. *)
handleRemove ==
  /\ "remove" \in DeskOffers
  /\ \/ \E m \in ToSet(media.shown) :
          stage' = deleteStagedItem(stage, m) /\ media' = [media EXCEPT !.shown = Without(@, m)] /\ UNCHANGED hist
     \/ \E m \in ToSet(media.saved) :
          /\ \/ m \in server.active /\ media' = [media EXCEPT !.doomed = m] /\ UNCHANGED hist
             \/ m \notin server.active /\ CanCall /\ Counted /\ media' = Called(media, "delete", m, <<>>)
          /\ UNCHANGED stage
  /\ UNCHANGED <<screen, server>>
handleConfirmDeleteActive ==
  /\ media.doomed # NoMedia /\ CanCall /\ Counted
  /\ media' = Called([media EXCEPT !.doomed = NoMedia], "delete", media.doomed, <<>>)
  /\ UNCHANGED <<screen, stage, server>>
CancelDelete ==
  /\ media.doomed # NoMedia /\ media' = [media EXCEPT !.doomed = NoMedia]
  /\ UNCHANGED <<screen, stage, server, hist>>

Swapped(s, i, j) == [s EXCEPT ![i] = s[j], ![j] = s[i]]
(* A drag ends: the shown order is written back, all that is shown of it. *)
handleDragEnd ==
  /\ "drag" \in DeskOffers
  /\ \/ /\ Creating
        /\ \E i, j \in DOMAIN media.shown : i < j /\
             LET order == Swapped(media.shown, i, j)
             IN  media' = [media EXCEPT !.shown = order] /\ stage' = reorderStagedItems(stage, order)
        /\ hist' = [hist EXCEPT !.revived = @ \cup (ToSet(media.shown) \ ToSet(stage))]
     \/ /\ ~Creating /\ CanCall /\ Counted
        /\ \E i, j \in DOMAIN media.saved : i < j /\
             LET order == Swapped(media.saved, i, j)
             IN  media' = Called([media EXCEPT !.saved = order], "sort", order[1], order)
        /\ UNCHANGED stage
  /\ UNCHANGED <<screen, server>>

(***************************************************************************)
(* An existing product's media: recrop, edit panel and the calls in flight *)
(***************************************************************************)
OpenRecrop ==
  /\ media.dialog = "none" /\ media.doomed = NoMedia
  /\ \E m \in ToSet(media.saved) \cap Images :
       media' = [media EXCEPT !.dialog = "recrop", !.target = m]
  /\ UNCHANGED <<screen, stage, server, hist>>
(* The file of a recrop is picked in the dialog and cropped there. *)
ConfirmRecrop ==
  /\ media.dialog = "recrop" /\ CanCall /\ Counted
  /\ media' = Called(media, "replace", media.target, <<>>)
  /\ UNCHANGED <<screen, stage, server>>
OpenEditPanel ==
  /\ media.dialog = "none" /\ media.doomed = NoMedia
  /\ \E m \in ToSet(media.saved) : media' = [media EXCEPT !.dialog = "edit", !.target = m]
  /\ UNCHANGED <<screen, stage, server, hist>>
CloseEditPanel ==
  /\ media.dialog \in {"edit", "saving"} /\ media' = [media EXCEPT !.dialog = "none", !.target = NoMedia]
  /\ UNCHANGED <<screen, stage, server, hist>>
\* A panel whose save was refused stays dead until it is closed.
handleEditSave ==
  /\ media.dialog = "edit" /\ CanCall /\ Counted
  /\ media' = Called([media EXCEPT !.dialog = "saving"], "describe", media.target, <<>>)
  /\ UNCHANGED <<screen, stage, server>>

(* What a call does to the product's media on the server.  A new order is sent
   medium by medium, and takes effect for the ones that are not refused: here
   for all of them or for none. *)
Applied(g, c) ==
  IF c.op = "delete" THEN Without(g, c.m)
  ELSE IF c.op = "video" THEN Append(g, c.m)
  ELSE IF c.op = "sort" THEN Kept(c.order, ToSet(g)) \o Kept(g, Media \ ToSet(c.order))
  ELSE g

(* Only a write sent by the axios instance drops the cached list: an upload or a
   replacement goes out beside it. *)
DropsMedia(op) == op \in {"delete", "sort", "describe"}

(* An answer closes the dialog of its kind, whatever that is open for by now. *)
Closed(s, kinds) == IF s.dialog \in kinds THEN [s EXCEPT !.dialog = "none", !.target = NoMedia] ELSE s

(* What the manager shows once it has read the list again after a call. *)
Shown(s, c, list) ==
  LET t == [s EXCEPT !.cached = TRUE, !.cache = list]
  IN  IF c.op = "describe" THEN Closed([t EXCEPT !.saved = list], {"edit", "saving"})
      ELSE IF c.op = "video" THEN Closed([t EXCEPT !.saved = sortVideoFirst(list)], {"video"})
      ELSE IF c.op = "replace" THEN Closed([t EXCEPT !.saved = sortVideoFirst(list)], {"recrop"})
      ELSE [t EXCEPT !.saved = sortVideoFirst(list)]
(* A write is answered: a deletion takes its medium out of the list, any other
   reads the list again, from the cache unless the write dropped it; so does a new
   order that was refused. *)
Reread(s, c) == IF s.cached THEN Shown(s, c, s.cache) ELSE [s EXCEPT !.calls = @ \cup {[c EXCEPT !.st = "read"]}]
MediaWritten == \E c \in media.calls :
  LET s == [media EXCEPT !.calls = @ \ {c}]
      dropped == [s EXCEPT !.cached = @ /\ ~DropsMedia(c.op)]
  IN  /\ c.st = "write"
      /\ \/ /\ server' = [server EXCEPT !.gallery = Applied(@, c)]
            /\ media' = IF c.op = "delete" THEN [dropped EXCEPT !.saved = Without(@, c.m)] ELSE Reread(dropped, c)
         \/ /\ UNCHANGED server
            /\ media' = IF c.op = "sort" THEN Reread(s, c)
                        ELSE IF c.op = "replace" THEN Closed(s, {"recrop"})
                        ELSE IF c.op = "video" THEN Closed(s, {"video"}) ELSE s
      /\ UNCHANGED <<screen, stage, hist>>
MediaServed == \E c \in media.calls :
  /\ c.st = "read"
  /\ media' = [media EXCEPT !.calls = (@ \ {c}) \cup {[c EXCEPT !.st = "served", !.order = server.gallery]}]
  /\ UNCHANGED <<screen, stage, server, hist>>
MediaRead == \E c \in media.calls :
  /\ c.st = "served"
  /\ media' = Shown([media EXCEPT !.calls = @ \ {c}], c, c.order)
  /\ UNCHANGED <<screen, stage, server, hist>>
MediaExpires ==
  /\ screen = "gallery" /\ media.cached /\ media' = [media EXCEPT !.cached = FALSE]
  /\ UNCHANGED <<screen, stage, server, hist>>

DeskNext ==
  \/ Drop \/ Prepare \/ handleCropConfirm \/ handleSkip \/ CloseImageDialog
  \/ OpenVideoDialog \/ CloseVideoDialog \/ handleExtractFrames \/ ConfirmVideo
  \/ handleRemove \/ handleConfirmDeleteActive \/ CancelDelete \/ handleDragEnd
GalleryNext ==
  \/ OpenRecrop \/ ConfirmRecrop \/ OpenEditPanel \/ CloseEditPanel \/ handleEditSave
  \/ MediaWritten \/ MediaServed \/ MediaRead \/ MediaExpires
==============================================================================
