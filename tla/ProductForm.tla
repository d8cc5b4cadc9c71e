----------------------------- MODULE ProductForm -----------------------------
(***************************************************************************)
(* The product form of the administration console                          *)
(* (src/web/react/src/pages/Admin/AdminProductForm.tsx): a submission is a *)
(* chain of calls, and the user goes on editing between two of them.       *)
(***************************************************************************)
EXTENDS MediaDesk

CONSTANTS Variants,    \* the SKUs that may be in the form
          OldVariants, \* those an existing product has
          MaxJobs,     \* bound: submissions under way, by screen
          MaxSaves,    \* bound: submissions begun
          MaxEdits,    \* bound: edits of the fields, by screen
          Toggles,     \* bound: the conditions of a submission that an edit may turn, by screen
          MaxTrouble   \* bound: calls that fail

ASSUME FormAssumption == Variants # {} /\ IsFiniteSet(Variants) /\ OldVariants \subseteq Variants

VARIABLES form,  \* the form's fields and flags
          jobs   \* the submissions under way

(* The form: number of edits, whether the required fields are given and every
   variant priced, a category that only shows work, a schedule, the variants in
   the form and those the product came with, the product a submission created, the
   flags of the page and of its two buttons, a translation and the product's
   details under way. *)
BlankForm(edit) ==
  [edits |-> 0, filled |-> FALSE, priced |-> TRUE, showcase |-> FALSE, scheduled |-> FALSE,
   skus |-> {CHOOSE k \in Variants : TRUE}, original |-> {},
   created |-> 0, dirty |-> FALSE, leave |-> FALSE, left |-> FALSE, said |-> "nothing",
   pending |-> {}, translating |-> FALSE, loading |-> edit]

markDirty(f) == [f EXCEPT !.dirty = TRUE]
Editing == ~form.left /\ ~form.leave /\ screen \in {"new", "edit"}

(* An existing product's details replace what was typed before they came. *)
Loaded ==
  /\ form.loading /\ ~form.left
  /\ \/ form' = [form EXCEPT !.loading = FALSE, !.filled = TRUE, !.showcase = FALSE, !.skus = OldVariants, !.original = OldVariants]
     \/ form' = [form EXCEPT !.loading = FALSE, !.said = "error"]
  /\ UNCHANGED <<screen, stage, media, server, hist, jobs>>

(* The controls of the form's sections, by the condition of a submission that they
   may turn: the names, brand and category, the variants' prices, the schedule. *)
BasicSection == {"filled"}
OrgSection == {"filled", "showcase"}
VariantSection == {"priced"}
ScheduleSection == {"scheduled"}
Controls == BasicSection \cup OrgSection \cup (IF form.showcase THEN {} ELSE VariantSection) \cup ScheduleSection

(* An edit of a field turns one of the conditions, or none of them. *)
Edit ==
  /\ Editing /\ form.edits < MaxEdits[screen]
  /\ \/ \E f \in Toggles[screen] \cap Controls : form' = markDirty([form EXCEPT ![f] = ~@, !.edits = @ + 1])
     \/ form' = markDirty([form EXCEPT !.edits = @ + 1])
  /\ hist' = [hist EXCEPT !.during = @ \/ jobs # <<>>]
  /\ UNCHANGED <<screen, stage, media, server, jobs>>
addSKU ==
  /\ Editing /\ form.edits < MaxEdits[screen]
  /\ \E k \in Variants \ (form.skus \cup form.original) :
       form' = markDirty([form EXCEPT !.edits = @ + 1, !.skus = @ \cup {k}, !.priced = FALSE])
  /\ hist' = [hist EXCEPT !.during = @ \/ jobs # <<>>]
  /\ UNCHANGED <<screen, stage, media, server, jobs>>
removeSKU ==
  /\ Editing /\ form.edits < MaxEdits[screen] /\ Cardinality(form.skus) > 1
  /\ \E k \in form.skus : form' = markDirty([form EXCEPT !.edits = @ + 1, !.skus = @ \ {k}])
  /\ hist' = [hist EXCEPT !.during = @ \/ jobs # <<>>]
  /\ UNCHANGED <<screen, stage, media, server, jobs>>

(* One language is translated to the others; what comes back is an edit. *)
handleSyncTranslate ==
  /\ Editing /\ form.filled /\ ~form.translating /\ form.edits < MaxEdits[screen] /\ form' = [form EXCEPT !.translating = TRUE]
  /\ UNCHANGED <<screen, stage, media, server, hist, jobs>>
Translated ==
  /\ form.translating /\ ~form.left
  /\ \/ /\ form.edits < MaxEdits[screen]
        /\ form' = markDirty([form EXCEPT !.translating = FALSE, !.edits = @ + 1])
        /\ hist' = [hist EXCEPT !.during = @ \/ jobs # <<>>]
     \/ form' = [form EXCEPT !.translating = FALSE] /\ UNCHANGED hist
  /\ UNCHANGED <<screen, stage, media, server, jobs>>

(***************************************************************************)
(* Leaving: the router asks while there are changes; the answer to the     *)
(* question proceeds or stays.                                             *)
(***************************************************************************)
Navigated(f) == IF f.dirty THEN [f EXCEPT !.leave = TRUE] ELSE [f EXCEPT !.left = TRUE]
Navigate ==
  /\ Editing /\ form' = Navigated(form) /\ UNCHANGED <<screen, stage, media, server, hist, jobs>>
handleConfirmLeave ==
  /\ form.leave /\ form' = [form EXCEPT !.leave = FALSE, !.left = TRUE]
  /\ hist' = [hist EXCEPT !.asked = TRUE] /\ UNCHANGED <<screen, stage, media, server, jobs>>
handleCancelLeave ==
  /\ form.leave /\ form' = [form EXCEPT !.leave = FALSE] /\ UNCHANGED <<screen, stage, media, server, hist, jobs>>

(***************************************************************************)
(* A submission: the calls it still makes, and what it read when it began. *)
(***************************************************************************)
If(c, s) == IF c THEN s ELSE <<>>
Tail4(publish) == <<"clear", "tags">> \o If(form.scheduled, <<"schedule">>) \o If(publish, <<"shelf">>) \o <<"done">>
EditOps(publish) ==
  <<"update", "delete">> \o If(~form.showcase, <<"sync">>) \o <<"stage", "upload", "settle">> \o Tail4(publish)
NewOps(publish) ==
  <<"stage", "spu", "upload", "settle">> \o If(~form.showcase, <<"batch">>) \o Tail4(publish)

Editable == screen = "edit"
Removed == form.original \ form.skus
Submission(publish) ==
  [ops |-> IF Editable THEN EditOps(publish) ELSE NewOps(publish), publish |-> publish,
   spu |-> IF Editable THEN 1 ELSE 0, dels |-> SetToSeq(Removed), skus |-> form.skus,
   syncs |-> SetToSeq(form.skus), items |-> <<>>, read |-> {}, failed |-> FALSE, edits |-> form.edits]

Button(publish) == IF publish THEN "publish" ELSE "save"
(* Required fields, and for a new product the price of every variant, before the
   first call; both buttons go dead while one of them is pending. *)
Refused == ~form.filled \/ (~Editable /\ ~form.priced /\ ~form.showcase)
doSubmit ==
  /\ Editing /\ form.pending = {} /\ Len(jobs) < MaxJobs[screen] /\ hist.saves < MaxSaves
  /\ \E publish \in BOOLEAN :
       IF Refused THEN form' = [form EXCEPT !.said = "error"] /\ UNCHANGED <<jobs, hist>>
       ELSE /\ form' = [form EXCEPT !.said = "nothing", !.pending = {Button(publish)}]
            /\ jobs' = Append(jobs, Submission(publish))
            /\ hist' = [hist EXCEPT !.saves = @ + 1, !.overlap = @ \/ jobs # <<>>]
  /\ UNCHANGED <<screen, stage, media, server>>

(* The buttons' lock is forced open while a submission runs (useDebounceSubmit). *)
ForcedUnlock ==
  /\ form.pending # {} /\ hist.saves < MaxSaves /\ Len(jobs) < MaxJobs[screen]
  /\ form' = [form EXCEPT !.pending = {}]
  /\ UNCHANGED <<screen, stage, media, server, hist, jobs>>

Rest(job) == [job EXCEPT !.ops = Tail(@)]
Put(i, job) == [jobs EXCEPT ![i] = job]
Ended(i) == RemoveAt(jobs, i)
Stopped(f, job) == [f EXCEPT !.pending = @ \ {Button(job.publish)}]

\* Mutant of Throw: a submission that failed takes the form for saved.
ThrowClean(i) == /\ form' = Stopped([form EXCEPT !.said = "error", !.dirty = FALSE], jobs[i]) /\ jobs' = Ended(i)
                 /\ UNCHANGED <<stage, media>>
(* A call that failed ends the submission with a message. *)
Throw(i) == /\ form' = Stopped([form EXCEPT !.said = "error"], jobs[i]) /\ jobs' = Ended(i)
            /\ UNCHANGED <<stage, media>>

\* What is uploaded: any staged item of a new product, the images of an existing one.
Uploadable(items) == IF Editable THEN OnlyImages(items) ELSE items
ReadStage(i) ==
  /\ jobs' = Put(i, [Rest(jobs[i]) EXCEPT !.items = Uploadable(stage), !.read = ToSet(Uploadable(stage))])
  /\ UNCHANGED <<stage, form, server, media, hist>>

\* Mutant of Settle: files that could not be uploaded do not stop the submission.
SettleAnyway(i) == jobs' = Put(i, Rest(jobs[i])) /\ UNCHANGED <<stage, form, media, server, hist>>
(* Files that could not be uploaded stop the submission; they stay staged. *)
Settle(i) ==
  IF jobs[i].failed THEN Throw(i) /\ UNCHANGED <<server, hist>>
  ELSE jobs' = Put(i, Rest(jobs[i])) /\ UNCHANGED <<stage, form, media, server, hist>>
clearAllStaged(i) ==
  /\ stage' = <<>> /\ jobs' = Put(i, Rest(jobs[i]))
  /\ hist' = [hist EXCEPT !.dropped = @ \cup (ToSet(stage) \cap jobs[i].read)]
  /\ UNCHANGED <<form, media, server>>

(* Publishing ends with the list page, saving with a message on this one. *)
Finish(i) ==
  LET job == jobs[i]
      f == Stopped(form, job)
  IN  /\ form' = IF job.publish THEN Navigated([f EXCEPT !.created = 0])
                 ELSE [f EXCEPT !.said = "saved", !.dirty = FALSE]
      /\ jobs' = Ended(i)
      /\ hist' = [hist EXCEPT !.saved = IF job.edits > @ THEN job.edits ELSE @,
                                !.published = @ \/ job.publish]
      /\ UNCHANGED <<stage, media, server>>

(* The variants on the server, as a number of records each. *)
Plus(bag, ks) == [k \in Variants |-> IF k \in ks THEN bag[k] + 1 ELSE bag[k]]
Cap(n) == IF n > 2 THEN 2 ELSE n

\* Mutant of Create: what was created is not remembered.
CreateForgetful(i) ==
  /\ server' = [server EXCEPT !.spus = Cap(@ + 1)] /\ form' = form
  /\ jobs' = Put(i, [Rest(jobs[i]) EXCEPT !.spu = server.spus + 1])
(* The product is created once: a later attempt finds what was created. *)
Create(i) ==
  IF form.created # 0
    THEN jobs' = Put(i, [Rest(jobs[i]) EXCEPT !.spu = form.created]) /\ UNCHANGED <<server, form>>
    ELSE /\ server' = [server EXCEPT !.spus = Cap(@ + 1)] /\ form' = [form EXCEPT !.created = server.spus + 1]
         /\ jobs' = Put(i, [Rest(jobs[i]) EXCEPT !.spu = server.spus + 1])

\* Mutant of Uploaded: an uploaded file stays staged.
UploadedKept(i, m) ==
  /\ server' = [server EXCEPT !.files[m] = Cap(@ + 1)] /\ stage' = stage
  /\ jobs' = Put(i, [jobs[i] EXCEPT !.items = Tail(@)])
(* A file is taken out of the staging database as soon as it is uploaded. *)
Uploaded(i, m) ==
  /\ server' = [server EXCEPT !.files[m] = Cap(@ + 1)] /\ stage' = deleteStagedItem(stage, m)
  /\ jobs' = Put(i, [jobs[i] EXCEPT !.items = Tail(@)])

Trouble == [hist EXCEPT !.trouble = @ + 1]
CanFail == hist.trouble < MaxTrouble

(* A call succeeds, fails, or succeeds while its answer is lost. *)
CallSpu(i) ==
  \/ Create(i) /\ UNCHANGED <<stage, media, hist>>
  \/ CanFail /\ Throw(i) /\ hist' = Trouble /\ UNCHANGED server
  \/ /\ CanFail /\ form.created = 0 /\ Throw(i) /\ hist' = [Trouble EXCEPT !.lost = TRUE]
     /\ server' = [server EXCEPT !.spus = Cap(@ + 1)]
CallPlain(i) ==
  \/ jobs' = Put(i, Rest(jobs[i])) /\ UNCHANGED <<stage, media, form, hist, server>>
  \/ CanFail /\ Throw(i) /\ hist' = Trouble /\ UNCHANGED server
\* Mutant of CallDelete: a variant that could not be deleted is passed over.
CallDeletePassed(i) ==
  LET k == Head(jobs[i].dels)
      next == Put(i, [jobs[i] EXCEPT !.dels = Tail(@)])
  IN  \/ /\ server' = [server EXCEPT !.skus[k] = 0] /\ jobs' = next
         /\ UNCHANGED <<stage, media, form, hist>>
      \/ CanFail /\ jobs' = next /\ hist' = Trouble /\ UNCHANGED <<server, stage, media, form>>
(* A variant that is not there any more is refused. *)
CallDelete(i) ==
  LET k == Head(jobs[i].dels) IN
  \/ /\ server.skus[k] > 0
     /\ server' = [server EXCEPT !.skus[k] = 0]
     /\ jobs' = Put(i, [jobs[i] EXCEPT !.dels = Tail(@)])
     /\ UNCHANGED <<stage, media, form, hist>>
  \/ server.skus[k] = 0 /\ Throw(i) /\ UNCHANGED <<server, hist>>
  \/ CanFail /\ Throw(i) /\ hist' = Trouble /\ UNCHANGED server
(* A variant with an id is updated, one without is created. *)
CallSync(i) ==
  LET k == Head(jobs[i].syncs) IN
  \/ /\ k \in form.original => server.skus[k] > 0
     /\ server' = IF k \in form.original THEN server ELSE [server EXCEPT !.skus[k] = Cap(@ + 1)]
     /\ jobs' = Put(i, [jobs[i] EXCEPT !.syncs = Tail(@)]) /\ UNCHANGED <<stage, media, form, hist>>
  \/ k \in form.original /\ server.skus[k] = 0 /\ Throw(i) /\ UNCHANGED <<server, hist>>
  \/ CanFail /\ Throw(i) /\ hist' = Trouble /\ UNCHANGED server
(* A file that fails is noted and the next one is tried. *)
CallUpload(i) ==
  LET m == Head(jobs[i].items)
      missed == Put(i, [jobs[i] EXCEPT !.items = Tail(@), !.failed = TRUE])
  IN  \/ Uploaded(i, m) /\ UNCHANGED <<media, form, hist>>
      \/ CanFail /\ jobs' = missed /\ hist' = Trouble /\ UNCHANGED <<server, stage, media, form>>
      \/ /\ CanFail /\ jobs' = missed /\ hist' = [Trouble EXCEPT !.lost = TRUE]
         /\ server' = [server EXCEPT !.files[m] = Cap(@ + 1)] /\ UNCHANGED <<stage, media, form>>
CallBatch(i) ==
  \/ /\ server' = [server EXCEPT !.skus = [k \in Variants |-> Cap(Plus(@, jobs[i].skus)[k])]]
     /\ jobs' = Put(i, Rest(jobs[i])) /\ UNCHANGED <<stage, media, form, hist>>
  \/ CanFail /\ Throw(i) /\ hist' = Trouble /\ UNCHANGED server
(* That a product could not be put on sale is not said. *)
CallShelf(i) ==
  \/ server' = [server EXCEPT !.sale = @ \cup {jobs[i].spu}] /\ jobs' = Put(i, Rest(jobs[i]))
     /\ UNCHANGED <<stage, media, form, hist>>
  \/ CanFail /\ jobs' = Put(i, Rest(jobs[i])) /\ hist' = Trouble /\ UNCHANGED <<server, stage, media, form>>

Run(i) ==
  LET op == Head(jobs[i].ops)
      skip == jobs' = Put(i, Rest(jobs[i])) /\ UNCHANGED <<stage, media, form, hist, server>>
  IN  \/ op = "stage" /\ ReadStage(i)
      \/ op = "settle" /\ Settle(i)
      \/ op = "clear" /\ clearAllStaged(i)
      \/ op = "done" /\ Finish(i)
      \/ op = "spu" /\ CallSpu(i)
      \/ op \in {"update", "tags", "schedule"} /\ CallPlain(i)
      \/ op = "delete" /\ IF jobs[i].dels = <<>> THEN skip ELSE CallDelete(i)
      \/ op = "sync" /\ IF jobs[i].syncs = <<>> THEN skip ELSE CallSync(i)
      \/ op = "upload" /\ IF jobs[i].items = <<>> THEN skip ELSE CallUpload(i)
      \/ op = "batch" /\ CallBatch(i)
      \/ op = "shelf" /\ CallShelf(i)

(* Bound: a submission is not followed any further once its page is left. *)
FormNext ==
  \/ Loaded \/ Edit \/ addSKU \/ removeSKU \/ handleSyncTranslate \/ Translated
  \/ Navigate \/ handleConfirmLeave \/ handleCancelLeave
  \/ doSubmit \/ ForcedUnlock
  \/ ~form.left /\ \E i \in DOMAIN jobs : Run(i) /\ UNCHANGED screen
==============================================================================
