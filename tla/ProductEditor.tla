---------------------------- MODULE ProductEditor ----------------------------
(***************************************************************************)
(* The screens on which an administrator edits a product, its media or     *)
(* imports products: one of them is open.                                  *)
(***************************************************************************)
EXTENDS ProductForm, Uploads

CONSTANT NewMedia  \* bound: files picked for a new product while it is submitted
ASSUME EditorAssumption == NewMedia \subseteq Images

vars == <<screen, stage, media, server, hist, form, jobs, aux>>

(* "stage" is the form of a new product before anything is submitted. *)
Screens == {"stage", "new", "edit", "gallery", "video", "import", "zip", "crop", "picture"}
FormScreens == {"new", "edit"}

(* The staging database may hold what an abandoned form left. *)
InitDesk ==
  /\ \/ screen = "new" /\ stage = SetToSeq(Videos)
     \/ screen = "edit" /\ \E m \in Media : stage = <<m>>
     \/ screen # "new" /\ stage = <<>>
  /\ LET saved == IF screen = "gallery" THEN SetToSeq(Videos) \o SetToSeq(Images) ELSE <<>>
     IN  /\ media = BlankMedia(stage, saved)
         /\ server = [spus |-> IF Creating THEN 0 ELSE 1, gallery |-> saved, active |-> Images,
                      files |-> [m \in Media |-> 0], sale |-> {},
                      skus |-> [k \in Variants |-> IF screen = "edit" /\ k \in OldVariants THEN 1 ELSE 0]]
(* A new product's fields are typed in already, rightly or not. *)
InitForm ==
  /\ \/ screen = "new" /\ \E f, p \in BOOLEAN : form = markDirty([BlankForm(FALSE) EXCEPT !.filled = f, !.priced = p, !.edits = 1])
     \/ screen # "new" /\ form = BlankForm(screen = "edit")
  /\ jobs = <<>>
InitAux ==
  aux = IF screen = "video" THEN VideoStart ELSE IF screen \in {"import", "zip"} THEN ImportStart
        ELSE IF screen = "crop" THEN CropStart ELSE IF screen = "picture" THEN PictureStart ELSE [st |-> "none"]
InitHist ==
  hist = [used |-> IF screen = "new" THEN Media \ NewMedia ELSE ToSet(stage), mediaCalls |-> IF screen = "gallery" THEN 0 ELSE MaxMediaCalls,
          revived |-> {}, dropped |-> {}, saves |-> 0, saved |-> 0, trouble |-> 0,
          overlap |-> FALSE, during |-> FALSE, asked |-> FALSE, published |-> FALSE, lost |-> FALSE]
Init == screen \in Screens /\ InitDesk /\ InitForm /\ InitAux /\ InitHist

Next ==
  \/ screen \in {"stage", "new"} /\ ~form.left /\ DeskNext /\ UNCHANGED <<form, jobs, aux>>
  \/ screen = "gallery" /\ (DeskNext \/ GalleryNext) /\ UNCHANGED <<form, jobs, aux>>
  \/ screen \in FormScreens /\ FormNext /\ UNCHANGED aux
  \/ /\ \/ screen = "video" /\ uploadVideoDirect
        \/ screen = "import" /\ ImportNext
        \/ screen = "zip" /\ MediaImportNext
        \/ screen = "crop" /\ CropNext
        \/ screen = "picture" /\ PictureNext
     /\ UNCHANGED <<screen, stage, media, server, hist, form, jobs>>

Spec == Init /\ [][Next]_vars

(* One new product: until it is published, and while no two submissions overlap
   and no answer of a create is lost, however many attempts fail, the form creates
   one product and no empty ones beside it. *)
RetryReusesProduct == screen = "new" /\ ~hist.overlap /\ ~hist.lost /\ ~hist.published => server.spus <= 1

(* An attempt after one that failed uploads what is missing only: no file goes up
   twice, unless submissions overlap, an answer is lost, or a drag wrote files that
   were uploaded already back to the staging database. *)
FileOnce == \A m \in Media : ~hist.overlap /\ ~hist.lost /\ m \notin hist.revived => server.files[m] <= 1

(* Clearing the staging database after a save drops no file that the save had read
   and could not upload. *)
ClearedIsUploaded == hist.dropped \subseteq hist.revived

(* A variant that was taken out of the form is gone from the server when the form
   says that it is saved. *)
RemovedIsGone == screen = "edit" /\ form.said = "saved" /\ hist.saved = form.edits =>
  \A k \in Removed : server.skus[k] = 0

(* A form is left silently only when all that was edited has been saved, edits made
   while a submission ran apart. *)
LeavesAsked == form.left => hist.asked \/ hist.saved = form.edits \/ hist.during

(* The chunks of a completed upload are the file, in order and without a gap,
   whatever was lost and sent again on the way. *)
VideoWhole == screen = "video" /\ aux.st = "complete" =>
  /\ aux.parts # <<>> /\ aux.held[aux.parts[1]][1] = 0
  /\ \A i \in 2..Len(aux.parts) : aux.held[aux.parts[i]][1] = aux.held[aux.parts[i - 1]][2]
  /\ aux.held[Last(aux.parts)][2] = FileSize
==============================================================================
