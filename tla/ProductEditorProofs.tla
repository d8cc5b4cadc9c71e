-------------------------- MODULE ProductEditorProofs --------------------------
(***************************************************************************)
(* Theorems about the screens that edit a product, its media or an import, *)
(* for any number of files, variants, submissions, edits and failures.     *)
(***************************************************************************)
EXTENDS ProductEditor, DataTheorems

\* The screens: one stays open, and each has its own steps.
LEMMA DeskKeepsScreen == DeskNext => screen' = screen
BY DEF DeskNext, Drop, Prepare, handleCropConfirm, handleSkip, CloseImageDialog, OpenVideoDialog, CloseVideoDialog,
   handleExtractFrames, ConfirmVideo, handleRemove, handleConfirmDeleteActive, CancelDelete, handleDragEnd

LEMMA GalleryKeepsScreen == GalleryNext => screen' = screen /\ stage' = stage
BY DEF GalleryNext, OpenRecrop, ConfirmRecrop, OpenEditPanel, CloseEditPanel, handleEditSave,
   MediaWritten, MediaServed, MediaRead, MediaExpires

LEMMA FormKeepsScreen == FormNext => screen' = screen
BY DEF FormNext, Loaded, Edit, addSKU, removeSKU, handleSyncTranslate, Translated, Navigate, handleConfirmLeave,
   handleCancelLeave, doSubmit, ForcedUnlock

LEMMA ScreenStays == [Next]_vars => screen' = screen
BY DeskKeepsScreen, GalleryKeepsScreen, FormKeepsScreen DEF Next, vars

-----------------------------------------------------------------------------
(***************************************************************************)
(* A video in chunks.                                                      *)
(***************************************************************************)
\* The parts are numbered in the order they were acknowledged, each begins where
\* the one before ended, and the next one begins where the last ended; a part the
\* server holds beyond them is one whose answer was lost.
Chain ==
  /\ aux.st \in {"sending", "complete", "failed"}
  /\ aux.offset \in 0..FileSize /\ aux.size \in Nat
  /\ aux.parts \in Seq(Nat) /\ aux.part = Len(aux.parts) + 1
  /\ \A i \in 1..Len(aux.parts) : aux.parts[i] = i
  /\ DOMAIN aux.held \subseteq 1..aux.part
  /\ \A i \in 1..Len(aux.parts) : i \in DOMAIN aux.held
  /\ Len(aux.parts) = 0 => aux.offset = 0
  /\ Len(aux.parts) > 0 => aux.held[1][1] = 0 /\ aux.held[Len(aux.parts)][2] = aux.offset
  /\ \A i \in 2..Len(aux.parts) : aux.held[i][1] = aux.held[i - 1][2]
  /\ aux.st = "complete" => aux.offset = FileSize
  /\ DOMAIN aux = DOMAIN VideoStart
VideoChain == screen = "video" => Chain

LEMMA VideoInit == Init => VideoChain
<1> SUFFICES ASSUME Init, screen = "video" PROVE Chain
  BY DEF VideoChain
<1>1. aux = VideoStart
  BY DEF Init, InitAux
<1>2. aux.parts = <<>> /\ aux.offset = 0 /\ aux.part = 1 /\ aux.st = "sending" /\ aux.size = ChunkSize /\ aux.held = [p \in {} |-> <<0, 0>>]
  BY <1>1 DEF VideoStart
<1>3. FileSize \in Nat /\ ChunkSize \in Nat
  BY UploadsAssumption
<1>4. <<>> \in Seq(Nat) /\ Len(<<>>) = 0 /\ DOMAIN [p \in {} |-> <<0, 0>>] = {}
  OBVIOUS
<1>5. QED BY <1>1, <1>2, <1>3, <1>4 DEF Chain

LEMMA ChunkAckedKeeps == ASSUME Chain, ChunkAcked PROVE Chain'
<1> DEFINE n == Len(aux.parts)
<1>1. FileSize \in Nat /\ SliceEnd \in 0..FileSize
  BY UploadsAssumption DEF Chain, SliceEnd, Least
<1>2. /\ aux'.held = Held /\ aux'.parts = Append(aux.parts, aux.part) /\ aux'.offset = SliceEnd
      /\ aux'.part = aux.part + 1 /\ aux'.size = ChunkSize /\ aux'.st = aux.st /\ DOMAIN aux' = DOMAIN aux
  BY DEF ChunkAcked, Chain, VideoStart
<1>3. n \in Nat /\ aux.part = n + 1 /\ aux.parts \in Seq(Nat)
  BY DEF Chain
<1>4. /\ aux'.parts \in Seq(Nat) /\ Len(aux'.parts) = n + 1 /\ aux'.parts[n + 1] = n + 1
      /\ \A i \in 1..n : aux'.parts[i] = aux.parts[i]
  BY <1>2, <1>3
<1>5. /\ DOMAIN Held = DOMAIN aux.held \cup {n + 1}
      /\ Held[n + 1] = <<aux.offset, SliceEnd>>
      /\ \A p \in DOMAIN aux.held : p # n + 1 => Held[p] = aux.held[p]
  BY <1>3 DEF Held
<1>6. \A i \in 1..n : i \in DOMAIN aux.held /\ i # n + 1 /\ Held[i] = aux.held[i]
  BY <1>3, <1>5 DEF Chain
<1>7. Held[1][1] = 0
  <2>1. CASE n = 0
    BY <2>1, <1>5 DEF Chain
  <2>2. CASE n # 0
    BY <2>2, <1>3, <1>6 DEF Chain
  <2>3. QED BY <2>1, <2>2
<1>8. ASSUME NEW i \in 2..(n + 1) PROVE Held[i][1] = Held[i - 1][2]
  <2>1. CASE i = n + 1
    <3>1. n \in 1..n /\ n > 0
      BY <2>1, <1>3
    <3>2. Held[n] = aux.held[n] /\ aux.held[n][2] = aux.offset
      BY <3>1, <1>6 DEF Chain
    <3>3. QED BY <2>1, <3>2, <1>5, <1>3
  <2>2. CASE i # n + 1
    <3>1. i \in 2..n /\ i \in 1..n /\ i - 1 \in 1..n
      BY <2>2, <1>3
    <3>2. QED BY <3>1, <1>6 DEF Chain
  <2>3. QED BY <2>1, <2>2
<1>9. \A i \in 1..(n + 1) : aux'.parts[i] = i /\ i \in DOMAIN Held
  <2>1. \A i \in 1..n : aux.parts[i] = i
    BY <1>3 DEF Chain
  <2>2. \A i \in 1..(n + 1) : i \in 1..n \/ i = n + 1
    BY <1>3
  <2> HIDE DEF n
  <2>3. QED BY <2>1, <2>2, <1>4, <1>5, <1>6
<1>10. aux'.st = "sending" /\ ChunkSize \in Nat
  BY <1>2, UploadsAssumption DEF ChunkAcked
<1>11. DOMAIN Held \subseteq 1..(n + 2)
  BY <1>3, <1>5 DEF Chain
<1> HIDE DEF n
<1>12. n + 1 > 0 /\ (n + 1) + 1 = n + 2 /\ n + 1 # 0 /\ (n + 1) - 1 = n
  BY <1>3
<1>13. DOMAIN aux' = DOMAIN VideoStart
  BY <1>2 DEF Chain
<1>14. Held[n + 1][2] = SliceEnd
  BY <1>5
<1>15. QED BY <1>1, <1>2, <1>3, <1>4, <1>7, <1>8, <1>9, <1>10, <1>11, <1>12, <1>13, <1>14 DEF Chain

LEMMA ChunkFailedKeeps == ASSUME Chain, ChunkFailed PROVE Chain'
<1> DEFINE n == Len(aux.parts)
<1>1. PICK held \in {aux.held, Held} :
        LET a == [aux EXCEPT !.held = held, !.retries = @ + 1]
        IN  aux' = IF aux.size > MinChunk THEN Halved(a) ELSE [a EXCEPT !.st = "failed"]
  BY DEF ChunkFailed
<1>2. /\ aux'.held = held /\ aux'.parts = aux.parts /\ aux'.offset = aux.offset /\ aux'.part = aux.part
      /\ aux'.size \in {aux.size, Most(aux.size \div 2, MinChunk)} /\ aux'.st \in {"sending", "failed"}
      /\ DOMAIN aux' = DOMAIN aux
  BY <1>1 DEF ChunkFailed, Chain, VideoStart, Halved
<1>3. aux'.size \in Nat
  <2>1. MinChunk \in Nat /\ aux.size \in Nat
    BY UploadsAssumption DEF Chain
  <2>2. aux.size \div 2 \in Nat
    BY <2>1
  <2>3. QED BY <1>2, <2>1, <2>2 DEF Most
<1>4. n \in Nat /\ aux.part = n + 1
  BY DEF Chain
<1>5. /\ DOMAIN held \subseteq 1..(n + 1)
      /\ \A i \in 1..n : i \in DOMAIN held /\ held[i] = aux.held[i]
  BY <1>1, <1>4 DEF Chain, Held
<1> HIDE DEF n
<1>6. /\ n > 0 => held[1][1] = 0 /\ held[n][2] = aux.offset
      /\ \A i \in 2..n : held[i][1] = held[i - 1][2]
  <2>1. n > 0 => 1 \in 1..n /\ n \in 1..n
    BY <1>4
  <2>2. \A i \in 2..n : i \in 1..n /\ i - 1 \in 1..n
    BY <1>4
  <2>3. QED BY <2>1, <2>2, <1>5 DEF Chain, n
<1>7. QED BY <1>2, <1>3, <1>4, <1>5, <1>6 DEF Chain, n

LEMMA VideoNext == VideoChain /\ [Next]_vars => VideoChain'
<1> SUFFICES ASSUME VideoChain, [Next]_vars, screen' = "video" PROVE Chain'
  BY DEF VideoChain
<1>1. CASE UNCHANGED vars
  BY <1>1 DEF vars, VideoChain, Chain
<1>2. CASE screen = "video" /\ uploadVideoDirect
  <2>1. CASE ChunkAcked
    BY <1>2, <2>1, ChunkAckedKeeps DEF VideoChain
  <2>2. CASE ChunkFailed
    BY <1>2, <2>2, ChunkFailedKeeps DEF VideoChain
  <2>3. CASE ChunkComplete
    <3>1. Chain /\ FileSize \in Nat
      BY <1>2, UploadsAssumption DEF VideoChain
    <3>2. PICK st \in {"complete", "failed"} : aux' = [aux EXCEPT !.st = st]
      BY <2>3 DEF ChunkComplete
    <3>3. /\ aux'.held = aux.held /\ aux'.parts = aux.parts /\ aux'.offset = aux.offset /\ aux'.part = aux.part
          /\ aux'.size = aux.size /\ aux'.st = st /\ DOMAIN aux' = DOMAIN aux
      BY <3>1, <3>2 DEF Chain, VideoStart
    <3>4. aux.offset = FileSize
      BY <3>1, <2>3 DEF Chain, ChunkComplete
    <3>5. QED BY <3>1, <3>3, <3>4 DEF Chain
  <2>4. QED BY <1>2, <2>1, <2>2, <2>3 DEF uploadVideoDirect
<1>3. CASE screen # "video" /\ Next
  BY <1>3, ScreenStays
<1>4. CASE screen = "video" /\ Next /\ ~ uploadVideoDirect
  BY <1>4 DEF Next, FormScreens
<1>5. QED BY <1>1, <1>2, <1>3, <1>4 DEF Next

\* The chunks of a completed upload are the file, in order and without a gap, for
\* any sizes of a file that is not empty and any number of lost answers
\* (uploadVideoDirect in api/admin.ts).
THEOREM VideoArrivesWhole == ASSUME FileSize > 0 PROVE Spec => []VideoWhole
<1>1. VideoChain => VideoWhole
  <2> SUFFICES ASSUME VideoChain, screen = "video", aux.st = "complete"
               PROVE  /\ aux.parts # <<>> /\ aux.held[aux.parts[1]][1] = 0
                      /\ \A i \in 2..Len(aux.parts) : aux.held[aux.parts[i]][1] = aux.held[aux.parts[i - 1]][2]
                      /\ aux.held[Last(aux.parts)][2] = FileSize
    BY DEF VideoWhole
  <2>1. Chain /\ FileSize \in Nat /\ Len(aux.parts) \in Nat
    BY UploadsAssumption DEF VideoChain, Chain
  <2>2. Len(aux.parts) > 0 /\ aux.parts # <<>>
    BY <2>1 DEF Chain
  <2>3. aux.parts[1] = 1 /\ Last(aux.parts) = Len(aux.parts)
    BY <2>1, <2>2 DEF Chain, Last
  <2>4. \A i \in 2..Len(aux.parts) : aux.parts[i] = i /\ aux.parts[i - 1] = i - 1
    <3>1. \A i \in 2..Len(aux.parts) : i \in 1..Len(aux.parts) /\ i - 1 \in 1..Len(aux.parts)
      BY <2>1
    <3>2. \A i \in 1..Len(aux.parts) : aux.parts[i] = i
      BY <2>1 DEF Chain
    <3>3. QED BY <3>1, <3>2
  <2>5. QED BY <2>1, <2>2, <2>3, <2>4 DEF Chain
<1>2. QED BY <1>1, VideoInit, VideoNext, PTL DEF Spec

-----------------------------------------------------------------------------
(***************************************************************************)
(* Types.                                                                  *)
(***************************************************************************)
OpNames == {"update", "delete", "sync", "stage", "spu", "upload", "settle", "batch", "clear", "tags",
            "schedule", "shelf", "done"}
Rank == [update |-> 1, delete |-> 2, sync |-> 3, stage |-> 4, spu |-> 5, upload |-> 6, settle |-> 7,
         batch |-> 8, clear |-> 9, tags |-> 10, schedule |-> 11, shelf |-> 12, done |-> 13]
\* The calls of a submission are in one order, and what every submission does is done
\* by each from there on.
Sorted(ops) == \A a, b \in 1..Len(ops) : a < b => Rank[ops[a]] < Rank[ops[b]]
Always == {"stage", "upload", "settle", "clear", "done"}
Turns == {ops \in Seq(OpNames) :
            ops # <<>> /\ Sorted(ops) /\ \A x \in ToSet(ops), y \in Always : Rank[x] <= Rank[y] => y \in ToSet(ops)}
Job == [ops : Turns, publish : BOOLEAN, spu : Nat, dels : Seq(Variants), skus : SUBSET Variants,
        syncs : Seq(Variants), items : Seq(Media), read : SUBSET Media, failed : BOOLEAN, edits : Nat]
Fields == [edits : Nat, filled : BOOLEAN, priced : BOOLEAN, showcase : BOOLEAN, scheduled : BOOLEAN,
           skus : SUBSET Variants, original : SUBSET Variants, created : Nat, dirty : BOOLEAN, leave : BOOLEAN,
           left : BOOLEAN, said : {"nothing", "error", "saved"}, pending : SUBSET {"save", "publish"},
           translating : BOOLEAN, loading : BOOLEAN]
\* The gallery of an existing product has its own list on the server, and its own calls.
Records == [spus : Nat, gallery : {<<>>}, active : {Images}, files : [Media -> Nat],
            sale : SUBSET Nat, skus : [Variants -> Nat]]
Past == [used : SUBSET Media, mediaCalls : {MaxMediaCalls}, revived : SUBSET Media, dropped : SUBSET Media,
         saves : Nat, saved : Nat, trouble : Nat, overlap : BOOLEAN, during : BOOLEAN, asked : BOOLEAN,
         published : BOOLEAN, lost : BOOLEAN]
\* The media manager of a form: nothing is saved, and nothing is called, for a product
\* that does not exist yet.
Desk == [shown : Seq(Media), saved : {<<>>}, queue : Seq(Media), prep : Media \cup {NoMedia},
         held : Media \cup {NoMedia}, dialog : {"none", "image", "video"}, target : {NoMedia}, doomed : {NoMedia},
         calls : {{}}, cached : {TRUE}, cache : {<<>>}]

TypeOK ==
  /\ screen \in Screens
  /\ screen # "gallery" => stage \in Seq(Media) /\ media \in Desk /\ server \in Records /\ hist \in Past
  /\ form \in Fields
  /\ jobs \in Seq(Job)
  /\ screen \notin FormScreens => jobs = <<>>

LEMMA InitTyped == Init => TypeOK
<1> SUFFICES ASSUME Init PROVE TypeOK
  OBVIOUS
<1> USE MediaAssumption, FormAssumption DEF Init
<1>1. SetToSeq(Videos) \in Seq(Media)
  BY SetToSeqFacts, SeqMonotonic DEF Media
<1>2. stage \in Seq(Media)
  <2>1. <<>> \in Seq(Media) /\ \A m \in Media : <<m>> \in Seq(Media)
    OBVIOUS
  <2>2. QED BY <1>1, <2>1, Zenon DEF InitDesk
<1>3. screen # "gallery" => media \in Desk
  BY <1>2 DEF InitDesk, BlankMedia, Desk
<1>4. screen # "gallery" => server \in Records
  BY DEF InitDesk, Records
<1>5. screen # "gallery" => hist \in Past
  <2>1. ToSet(stage) \in SUBSET Media /\ Media \ NewMedia \in SUBSET Media
    BY <1>2, ToSetFacts
  <2>2. QED BY <2>1 DEF InitHist, Past
<1>6. form \in Fields
  <2>1. (CHOOSE k \in Variants : TRUE) \in Variants
    OBVIOUS
  <2>2. \A b \in BOOLEAN : BlankForm(b) \in Fields
    BY <2>1 DEF BlankForm, Fields
  <2>3. \A f, p \in BOOLEAN : markDirty([BlankForm(FALSE) EXCEPT !.filled = f, !.priced = p, !.edits = 1]) \in Fields
    BY <2>2 DEF Fields, markDirty
  <2>4. QED BY <2>2, <2>3 DEF InitForm
<1>7. jobs = <<>> /\ jobs \in Seq(Job) /\ screen \in Screens
  BY EmptySeq DEF InitForm
<1>8. QED BY <1>2, <1>3, <1>4, <1>5, <1>6, <1>7 DEF TypeOK

\* The files of a crop queue that fit, and their order.
LEMMA CutFacts ==
    ASSUME NEW files \in Seq(Media), NEW remain \in Int
    PROVE  /\ Cut(files, remain) \in Seq(Media)
           /\ ToSet(Cut(files, remain)) \subseteq ToSet(files)
           /\ Distinct(files) => Distinct(Cut(files, remain))
<1> DEFINE n == IF remain < Len(files) THEN remain ELSE Len(files)
<1>1. CASE remain <= 0
  BY <1>1 DEF Cut, ToSet, Distinct
<1>2. CASE remain > 0
  <2>1. n \in 0..Len(files) /\ Cut(files, remain) = SubSeq(files, 1, n)
    BY <1>2 DEF Cut
  <2> HIDE DEF n
  <2>2. /\ SubSeq(files, 1, n) \in Seq(Media) /\ Len(SubSeq(files, 1, n)) = n
        /\ \A i \in 1..n : SubSeq(files, 1, n)[i] = files[i] /\ i \in 1..Len(files)
    BY <2>1
  <2>3. QED BY <2>1, <2>2 DEF ToSet, Distinct
<1>3. QED BY <1>1, <1>2

\* What is picked and queued is new.
LEMMA DropFacts ==
    ASSUME Drop, media.shown \in Seq(Media), hist \in Past
    PROVE  \E queue \in Seq(Media), picked \in SUBSET Media :
             /\ queue # <<>> /\ Distinct(queue) /\ ToSet(queue) \subseteq picked /\ picked \cap hist.used = {}
             /\ media' = [media EXCEPT !.queue = queue, !.prep = Head(queue), !.dialog = "image"]
             /\ media.dialog = "none"
             /\ hist' = [hist EXCEPT !.used = @ \cup picked]
             /\ UNCHANGED <<screen, stage, server>>
<1>1. PICK f \in Images \ hist.used, g \in Images \ hist.used : startQueue(IF f = g THEN <<f>> ELSE <<f, g>>)
  BY DEF Drop
<1> DEFINE files == IF f = g THEN <<f>> ELSE <<f, g>>
<1>2. files \in Seq(Media) /\ ToSet(files) \cap hist.used = {}
  <2>1. CASE f = g
    BY <2>1 DEF Media, ToSet
  <2>2. CASE f # g
    <3>1. files = <<f, g>> /\ <<f, g>> \in Seq(Media)
      BY <2>2 DEF Media
    <3>2. ToSet(<<f, g>>) = {f, g}
      BY DEF ToSet
    <3>3. QED BY <3>1, <3>2
  <2>3. QED BY <2>1, <2>2
<1>3. Distinct(files)
  BY DEF Distinct
<1> HIDE DEF files
<1> DEFINE remain == MaxImages - Cardinality(ToSet(media.shown) \cap Images)
           queue == IF Creating THEN Cut(files, remain) ELSE files
<1>4. remain \in Int
  <2>1. IsFiniteSet(ToSet(media.shown) \cap Images)
    BY ToSetFacts, FS_Subset
  <2>2. QED BY <2>1, FS_CardinalityType, MediaAssumption
<1>5. /\ queue # <<>> /\ media' = [media EXCEPT !.queue = queue, !.prep = Head(queue), !.dialog = "image"]
      /\ hist' = [hist EXCEPT !.used = @ \cup ToSet(files)] /\ media.dialog = "none"
  <2>1. startQueue(files)
    BY <1>1 DEF files
  <2>2. QED BY <2>1 DEF startQueue, DeskOffers
<1> HIDE DEF remain
<1>6. queue \in Seq(Media) /\ Distinct(queue) /\ ToSet(queue) \subseteq ToSet(files)
  BY <1>2, <1>3, <1>4, CutFacts
<1> HIDE DEF queue
<1>7. ToSet(files) \in SUBSET Media
  BY <1>2, ToSetFacts
<1>8. QED BY <1>2, <1>5, <1>6, <1>7 DEF Drop

LEMMA AdvanceTyped ==
    ASSUME NEW s \in Desk
    PROVE  advanceQueue(s) \in Desk
<1> DEFINE rest == IF s.queue = <<>> THEN <<>> ELSE Tail(s.queue)
<1> USE DEF Desk
<1>1. rest \in Seq(Media) /\ (rest # <<>> => Head(rest) \in Media)
  <2>1. CASE s.queue = <<>>
    BY <2>1
  <2>2. CASE s.queue # <<>>
    <3>1. rest \in Seq(Media)
      BY <2>2
    <3> HIDE DEF rest
    <3>2. QED BY <3>1
  <2>3. QED BY <2>1, <2>2
<1> HIDE DEF rest
<1>2. advanceQueue(s) = [s EXCEPT !.queue = rest, !.prep = IF rest = <<>> THEN NoMedia ELSE Head(rest),
              !.dialog = IF rest = <<>> THEN "none" ELSE @]
  BY DEF advanceQueue, rest
<1>3. QED BY <1>1, <1>2

LEMMA DeskTyped ==
    ASSUME TypeOK, DeskNext, screen \in {"stage", "new"}
    PROVE  stage' \in Seq(Media) /\ media' \in Desk
<1> USE DEF Desk, Creating
<1>1. stage \in Seq(Media) /\ media \in Desk /\ hist \in Past /\ Creating /\ NoMedia \notin Media
  BY MediaAssumption DEF TypeOK
<1>2. CASE Drop
  <2>1. media.shown \in Seq(Media)
    BY <1>1
  <2>2. PICK queue \in Seq(Media), picked \in SUBSET Media :
             /\ queue # <<>> /\ media' = [media EXCEPT !.queue = queue, !.prep = Head(queue), !.dialog = "image"]
             /\ UNCHANGED <<screen, stage, server>>
    BY <1>1, <1>2, <2>1, DropFacts
  <2>3. Head(queue) \in Media
    BY <2>2
  <2>4. QED BY <1>1, <2>2, <2>3
<1>3. advanceQueue(media) \in Desk
  BY <1>1, AdvanceTyped
<1> HIDE DEF Creating
<1>4. CASE Prepare
  BY <1>1, <1>3, <1>4 DEF Prepare
<1>5. CASE handleCropConfirm
  <2>1. media.held \in Media
    BY <1>1, <1>5 DEF handleCropConfirm
  <2> DEFINE s == [advanceQueue(media) EXCEPT !.held = NoMedia]
  <2>2. s \in Desk
    BY <1>1, <1>3
  <2>3. \/ stage' = Append(stage, media.held) /\ media' = [s EXCEPT !.shown = Append(@, media.held)]
        \/ stage' = stage /\ media' = s
    BY <1>5, Zenon DEF handleCropConfirm, addStagedItem
  <2> HIDE DEF s
  <2>4. Append(stage, media.held) \in Seq(Media) /\ Append(s.shown, media.held) \in Seq(Media)
    BY <1>1, <2>1, <2>2, AppendFacts
  <2>5. QED BY <1>1, <2>2, <2>3, <2>4
<1>6. CASE handleSkip
  BY <1>1, <1>3, <1>6 DEF handleSkip
<1>7. CASE CloseImageDialog
  BY <1>1, <1>7 DEF CloseImageDialog
<1>8. CASE OpenVideoDialog
  BY <1>1, <1>8 DEF OpenVideoDialog
<1>9. CASE CloseVideoDialog
  BY <1>1, <1>9 DEF CloseVideoDialog
<1>10. CASE handleExtractFrames
  BY <1>1, <1>10 DEF handleExtractFrames, Media
<1>11. CASE ConfirmVideo
  <2>1. media.held \in Media
    BY <1>1, <1>11 DEF ConfirmVideo
  <2>2. /\ stage' = Append(stage, media.held)
        /\ media' = [[media EXCEPT !.dialog = "none", !.held = NoMedia] EXCEPT !.shown = <<media.held>> \o @]
    BY <1>1, <1>11 DEF ConfirmVideo, addStagedItem
  <2>3. <<media.held>> \in Seq(Media) /\ media.shown \in Seq(Media)
    BY <1>1, <2>1
  <2> DEFINE shown == <<media.held>> \o media.shown
  <2>5. shown \in Seq(Media)
    BY <2>3, ConcatFacts
  <2>6. media' = [[media EXCEPT !.dialog = "none", !.held = NoMedia] EXCEPT !.shown = shown]
    BY <1>1, <2>2
  <2>7. Append(stage, media.held) \in Seq(Media)
    BY <1>1, <2>1
  <2> HIDE DEF shown
  <2>8. QED BY <1>1, <2>2, <2>5, <2>6, <2>7
<1>12. CASE handleRemove
  <2>1. PICK m \in ToSet(media.shown) : stage' = deleteStagedItem(stage, m) /\ media' = [media EXCEPT !.shown = Without(@, m)]
    BY <1>1, <1>12 DEF handleRemove, ToSet
  <2>2. Without(stage, m) \in Seq(Media) /\ Without(media.shown, m) \in Seq(Media)
    BY <1>1, KeptFacts DEF Without
  <2>3. QED BY <1>1, <2>1, <2>2 DEF deleteStagedItem
<1>13. CASE handleConfirmDeleteActive
  BY <1>1, <1>13 DEF handleConfirmDeleteActive
<1>14. CASE CancelDelete
  BY <1>1, <1>14 DEF CancelDelete
<1>15. CASE handleDragEnd
  <2>1. PICK i \in DOMAIN media.shown, j \in DOMAIN media.shown :
           /\ media' = [media EXCEPT !.shown = Swapped(media.shown, i, j)]
           /\ stage' = reorderStagedItems(stage, Swapped(media.shown, i, j))
    BY <1>1, <1>15 DEF handleDragEnd
  <2>2. Swapped(media.shown, i, j) \in Seq(Media)
    BY <1>1 DEF Swapped
  <2>3. reorderStagedItems(stage, Swapped(media.shown, i, j)) \in Seq(Media)
    BY <1>1, <2>2, KeptFacts, ConcatFacts DEF reorderStagedItems
  <2>4. QED BY <1>1, <2>1, <2>2, <2>3
<1>16. QED BY <1>2, <1>4, <1>5, <1>6, <1>7, <1>8, <1>9, <1>10, <1>11, <1>12, <1>13, <1>14, <1>15 DEF DeskNext

LEMMA DeskKeepsRest ==
    ASSUME TypeOK, DeskNext, screen \in {"stage", "new"}
    PROVE  hist' \in Past /\ server' = server
<1> USE DEF Past
<1>1. hist \in Past /\ media \in Desk /\ Creating
  BY DEF TypeOK, Creating
<1>2. server' = server
  BY DEF DeskNext, Drop, Prepare, handleCropConfirm, handleSkip, CloseImageDialog, OpenVideoDialog, CloseVideoDialog,
     handleExtractFrames, ConfirmVideo, handleRemove, handleConfirmDeleteActive, CancelDelete, handleDragEnd
<1>3. CASE Drop
  <2>1. \E picked \in SUBSET Media : hist' = [hist EXCEPT !.used = @ \cup picked]
    BY <1>1, <1>3, DropFacts DEF Desk
  <2>2. QED BY <1>1, <1>2, <2>1
<1>4. CASE handleExtractFrames
  BY <1>1, <1>2, <1>4 DEF handleExtractFrames, Media
<1>5. CASE handleDragEnd
  <2>1. ToSet(media.shown) \in SUBSET Media
    BY <1>1, ToSetFacts DEF Desk
  <2>2. QED BY <1>1, <1>2, <1>5, <2>1 DEF handleDragEnd
<1>6. CASE handleRemove
  <2>1. ToSet(media.saved) = {}
    BY <1>1 DEF Desk, ToSet
  <2>2. QED BY <1>1, <1>2, <1>6, <2>1 DEF handleRemove
<1>7. CASE handleConfirmDeleteActive
  BY <1>1, <1>7 DEF handleConfirmDeleteActive, Desk
<1>8. CASE Prepare \/ handleCropConfirm \/ handleSkip \/ CloseImageDialog \/ OpenVideoDialog \/ CloseVideoDialog
           \/ ConfirmVideo \/ CancelDelete
  BY <1>1, <1>2, <1>8 DEF Prepare, handleCropConfirm, handleSkip, CloseImageDialog, OpenVideoDialog, CloseVideoDialog,
     ConfirmVideo, CancelDelete
<1>9. QED BY <1>3, <1>4, <1>5, <1>6, <1>7, <1>8 DEF DeskNext

-----------------------------------------------------------------------------
\* The order of a submission's calls.
LEMMA RankValues ==
    /\ Rank["update"] = 1 /\ Rank["delete"] = 2 /\ Rank["sync"] = 3 /\ Rank["stage"] = 4 /\ Rank["spu"] = 5
    /\ Rank["upload"] = 6 /\ Rank["settle"] = 7 /\ Rank["batch"] = 8 /\ Rank["clear"] = 9 /\ Rank["tags"] = 10
    /\ Rank["schedule"] = 11 /\ Rank["shelf"] = 12 /\ Rank["done"] = 13
BY DEF Rank

LEMMA Ranks == /\ \A x \in OpNames : Rank[x] \in 1..13
               /\ \A x, y \in OpNames : Rank[x] = Rank[y] => x = y
               /\ \A x \in OpNames : x # "done" => Rank[x] < Rank["done"]
BY RankValues DEF OpNames

LEMMA TurnFacts ==
    ASSUME NEW ops \in Turns
    PROVE  /\ Head(ops) \in OpNames /\ Head(ops) \in ToSet(ops)
           /\ Head(ops) # "done" => Tail(ops) \in Turns
           /\ ToSet(Tail(ops)) = ToSet(ops) \ {Head(ops)}
           /\ \A x \in ToSet(Tail(ops)) : x \in OpNames /\ Rank[Head(ops)] < Rank[x]
           /\ \A y \in Always : Rank[Head(ops)] < Rank[y] => y \in ToSet(Tail(ops))
           /\ Head(ops) = "done" => ToSet(ops) = {"done"}
<1> DEFINE h == Head(ops)  T == Tail(ops)
<1>1. ops \in Seq(OpNames) /\ ops # <<>> /\ Sorted(ops)
  BY DEF Turns
<1>2. /\ h \in OpNames /\ T \in Seq(OpNames) /\ Len(ops) \in Nat \ {0} /\ Len(T) = Len(ops) - 1
      /\ h = ops[1] /\ \A i \in 1..Len(T) : T[i] = ops[i + 1]
  BY <1>1
<1>3. ToSet(ops) = {h} \cup ToSet(T)
  BY <1>1, TailFacts
<1> HIDE DEF h, T
<1>4. \A x : x \in ToSet(T) <=> \E i \in 1..Len(T) : T[i] = x
  BY <1>2, ToSetFacts
<1>5. ToSet(ops) \subseteq OpNames
  BY <1>1, ToSetFacts
<1>6. ASSUME NEW x \in ToSet(T) PROVE x \in OpNames /\ Rank[h] < Rank[x]
  <2>1. PICK i \in 1..Len(T) : T[i] = x
    BY <1>4
  <2>2. i + 1 \in 1..Len(ops) /\ 1 \in 1..Len(ops) /\ 1 < i + 1 /\ x = ops[i + 1]
    BY <2>1, <1>2
  <2>3. QED BY <2>2, <1>1, <1>2, <1>3, <1>5 DEF Sorted
<1>7. ToSet(T) = ToSet(ops) \ {h}
  BY <1>2, <1>3, <1>6, Ranks
<1>8. \A x \in ToSet(ops), y \in Always : Rank[x] <= Rank[y] => y \in ToSet(ops)
  BY DEF Turns
<1>9. Always \subseteq OpNames
  BY DEF Always, OpNames
<1>10. \A y \in Always : Rank[h] < Rank[y] => y \in ToSet(T)
  <2> SUFFICES ASSUME NEW y \in Always, Rank[h] < Rank[y] PROVE y \in ToSet(T)
    OBVIOUS
  <2>1. Rank[h] \in Int /\ Rank[y] \in Int
    BY <1>2, <1>9, Ranks
  <2>2. y # h /\ y \in ToSet(ops)
    BY <2>1, <1>3, <1>8
  <2>3. QED BY <2>2, <1>7
<1>11. h = "done" => ToSet(ops) = {"done"}
  <2>1. ASSUME h = "done", NEW x \in ToSet(T) PROVE FALSE
    <3>1. Rank["done"] < Rank[x] /\ x \in OpNames /\ "done" \in OpNames
      BY <2>1, <1>6 DEF OpNames
    <3>2. Rank[x] <= Rank["done"] /\ Rank[x] \in Int /\ Rank["done"] \in Int
      BY <3>1, Ranks
    <3>3. QED BY <3>1, <3>2
  <2>2. QED BY <2>1, <1>3
<1>12. h # "done" => T \in Turns
  <2> SUFFICES ASSUME h # "done" PROVE T \in Turns
    OBVIOUS
  <2>1. "done" \in ToSet(T)
    BY <1>2, <1>10, Ranks DEF Always
  <2>2. T # <<>>
    BY <2>1, <1>2, <1>4
  <2>3. Sorted(T)
    <3> SUFFICES ASSUME NEW a \in 1..Len(T), NEW b \in 1..Len(T), a < b PROVE Rank[T[a]] < Rank[T[b]]
      BY DEF Sorted
    <3>1. a + 1 \in 1..Len(ops) /\ b + 1 \in 1..Len(ops) /\ a + 1 < b + 1
      BY <1>2
    <3>2. QED BY <3>1, <1>1, <1>2 DEF Sorted
  <2>4. ASSUME NEW x \in ToSet(T), NEW y \in Always, Rank[x] <= Rank[y] PROVE y \in ToSet(T)
    <3>0. x \in OpNames /\ y \in OpNames /\ h \in OpNames /\ Rank[h] < Rank[x]
      BY <1>2, <1>6, <1>9
    <3>1. Rank[h] \in Int /\ Rank[y] \in Int /\ Rank[x] \in Int /\ Rank[h] < Rank[x]
      BY <3>0, Ranks
    <3>2. Rank[h] < Rank[y]
      BY <3>1, <2>4
    <3>3. QED BY <3>2, <1>10
  <2>5. QED BY <1>2, <2>2, <2>3, <2>4 DEF Turns
<1>13. QED BY <1>2, <1>3, <1>6, <1>7, <1>10, <1>11, <1>12 DEF h, T

\* A list of calls within two ranks.
Span(ops, lo, hi) ==
  ops \in Seq(OpNames) /\ Sorted(ops) /\ \A x \in ToSet(ops) : lo <= Rank[x] /\ Rank[x] <= hi

LEMMA SpanConcat ==
    ASSUME NEW s, NEW t, NEW a \in Nat, NEW b \in Nat, NEW c \in Nat, NEW d \in Nat, a <= c, b < c, b <= d,
           Span(s, a, b), Span(t, c, d)
    PROVE  Span(s \o t, a, d) /\ ToSet(s \o t) = ToSet(s) \cup ToSet(t)
<1> DEFINE u == s \o t
<1>1. s \in Seq(OpNames) /\ t \in Seq(OpNames)
  BY DEF Span
<1>2. /\ u \in Seq(OpNames) /\ Len(u) = Len(s) + Len(t) /\ Len(s) \in Nat /\ Len(t) \in Nat
      /\ \A i \in 1..Len(s) : u[i] = s[i]
      /\ \A i \in 1..(Len(s) + Len(t)) : i > Len(s) => u[i] = t[i - Len(s)]
  BY <1>1
<1>3. ToSet(u) = ToSet(s) \cup ToSet(t)
  BY <1>1, ConcatFacts
<1>4. /\ \A i \in 1..Len(s) : s[i] \in ToSet(s) /\ s[i] \in OpNames
      /\ \A i \in 1..Len(t) : t[i] \in ToSet(t) /\ t[i] \in OpNames
  BY <1>1, ToSetFacts
<1>5. \A x \in ToSet(s) \cup ToSet(t) : x \in OpNames /\ Rank[x] \in Int
  <2>1. ToSet(s) \subseteq OpNames /\ ToSet(t) \subseteq OpNames
    BY <1>1, ToSetFacts
  <2>2. QED BY <2>1, Ranks
<1>6. \A x \in ToSet(s), y \in ToSet(t) : Rank[x] < Rank[y]
  BY <1>5 DEF Span
<1>7. \A x \in ToSet(u) : a <= Rank[x] /\ Rank[x] <= d
  BY <1>3, <1>5 DEF Span
<1> HIDE DEF u
<1>8. Sorted(u)
  <2> SUFFICES ASSUME NEW i \in 1..Len(u), NEW j \in 1..Len(u), i < j PROVE Rank[u[i]] < Rank[u[j]]
    BY DEF Sorted
  <2>1. CASE j <= Len(s)
    <3>1. i \in 1..Len(s) /\ j \in 1..Len(s)
      BY <2>1, <1>2
    <3>2. QED BY <3>1, <1>2 DEF Span, Sorted
  <2>2. CASE i > Len(s)
    <3>1. i - Len(s) \in 1..Len(t) /\ j - Len(s) \in 1..Len(t) /\ i - Len(s) < j - Len(s)
      BY <2>2, <1>2
    <3>2. u[i] = t[i - Len(s)] /\ u[j] = t[j - Len(s)]
      BY <2>2, <1>2
    <3>3. QED BY <3>1, <3>2 DEF Span, Sorted
  <2>3. CASE i <= Len(s) /\ j > Len(s)
    <3>1. i \in 1..Len(s) /\ j - Len(s) \in 1..Len(t) /\ u[i] = s[i] /\ u[j] = t[j - Len(s)]
      BY <2>3, <1>2
    <3>2. QED BY <3>1, <1>4, <1>6
  <2>4. QED BY <2>1, <2>2, <2>3, <1>2
<1>9. QED BY <1>2, <1>3, <1>7, <1>8 DEF Span, u

LEMMA SpanOne == \A x \in OpNames : Span(<<x>>, Rank[x], Rank[x]) /\ ToSet(<<x>>) = {x}
BY Ranks DEF Span, Sorted, ToSet

LEMMA SpanIf == ASSUME NEW c, NEW x \in OpNames
                PROVE  Span(If(c, <<x>>), Rank[x], Rank[x]) /\ ToSet(If(c, <<x>>)) \subseteq {x}
<1>1. Span(<<>>, Rank[x], Rank[x]) /\ ToSet(<<>>) = {}
  BY DEF Span, Sorted, ToSet
<1>2. CASE c
  BY <1>2, SpanOne DEF If
<1>3. CASE ~ c
  BY <1>1, <1>3 DEF If
<1>4. QED BY <1>2, <1>3
LEMMA SpanTwo == Span(<<"update", "delete">>, 1, 2) /\ ToSet(<<"update", "delete">>) = {"update", "delete"}
                 /\ Span(<<"clear", "tags">>, 9, 10) /\ ToSet(<<"clear", "tags">>) = {"clear", "tags"}
BY RankValues DEF Span, Sorted, ToSet, OpNames

LEMMA SpanStage == /\ Span(<<"stage", "upload", "settle">>, 4, 7)
                   /\ ToSet(<<"stage", "upload", "settle">>) = {"stage", "upload", "settle"}
                   /\ Span(<<"stage", "spu", "upload", "settle">>, 4, 7)
                   /\ ToSet(<<"stage", "spu", "upload", "settle">>) = {"stage", "spu", "upload", "settle"}
BY RankValues DEF Span, Sorted, ToSet, OpNames

LEMMA OpsFacts ==
    ASSUME NEW publish \in BOOLEAN
    PROVE  /\ EditOps(publish) \in Turns /\ "delete" \in ToSet(EditOps(publish)) /\ "batch" \notin ToSet(EditOps(publish))
           /\ "stage" \in ToSet(EditOps(publish))
           /\ NewOps(publish) \in Turns /\ "stage" \in ToSet(NewOps(publish))
<1> DEFINE clear == <<"clear", "tags">>
           schedule == clear \o If(form.scheduled, <<"schedule">>)
           shelf == schedule \o If(publish, <<"shelf">>)
           tail == shelf \o <<"done">>
<1>1. {"schedule", "shelf", "done", "sync", "batch"} \subseteq OpNames
  BY DEF OpNames
<1>2. Span(schedule, 9, 11) /\ ToSet(schedule) \subseteq {"clear", "tags", "schedule"} /\ "clear" \in ToSet(schedule)
  <2>1. Span(If(form.scheduled, <<"schedule">>), 11, 11) /\ ToSet(If(form.scheduled, <<"schedule">>)) \subseteq {"schedule"}
    BY <1>1, SpanIf, RankValues
  <2> HIDE DEF schedule
  <2>2. Span(clear \o If(form.scheduled, <<"schedule">>), 9, 11)
        /\ ToSet(clear \o If(form.scheduled, <<"schedule">>)) = ToSet(clear) \cup ToSet(If(form.scheduled, <<"schedule">>))
    <3> HIDE DEF clear
    <3>1. Span(clear, 9, 10)
      BY SpanTwo DEF clear
    <3>2. QED BY <2>1, <3>1, SpanConcat
  <2>3. QED BY <2>1, <2>2, SpanTwo DEF schedule
<1> HIDE DEF schedule
<1>3. Span(shelf, 9, 12) /\ ToSet(shelf) \subseteq {"clear", "tags", "schedule", "shelf"} /\ "clear" \in ToSet(shelf)
  <2>1. Span(If(publish, <<"shelf">>), 12, 12) /\ ToSet(If(publish, <<"shelf">>)) \subseteq {"shelf"}
    BY <1>1, SpanIf, RankValues
  <2>2. QED BY <1>2, <2>1, SpanConcat
<1> HIDE DEF shelf
<1>4. Span(tail, 9, 13) /\ ToSet(tail) \subseteq {"clear", "tags", "schedule", "shelf", "done"} /\ {"clear", "done"} \subseteq ToSet(tail)
  <2>1. Span(<<"done">>, 13, 13) /\ ToSet(<<"done">>) = {"done"}
    BY <1>1, SpanOne, RankValues
  <2>2. QED BY <1>3, <2>1, SpanConcat
<1>5. Tail4(publish) = tail
  BY DEF Tail4, tail, shelf, schedule
<1> HIDE DEF tail
<1>6. ASSUME NEW s, NEW lo, NEW hi, Span(s, lo, hi), Always \subseteq ToSet(s) PROVE s \in Turns
  <2>1. s # <<>>
    BY <1>6 DEF Always, ToSet
  <2>2. QED BY <1>6, <2>1 DEF Span, Turns
<1>7. LET s == <<"update", "delete">> \o If(~form.showcase, <<"sync">>) \o <<"stage", "upload", "settle">> \o tail
      IN  s \in Turns /\ "delete" \in ToSet(s) /\ "batch" \notin ToSet(s) /\ "stage" \in ToSet(s)
  <2> DEFINE a == <<"update", "delete">>
             b == If(~form.showcase, <<"sync">>)
             c == <<"stage", "upload", "settle">>
  <2>1. Span(a, 1, 2) /\ ToSet(a) = {"update", "delete"} /\ Span(c, 4, 7) /\ ToSet(c) = {"stage", "upload", "settle"}
    BY SpanTwo, SpanStage
  <2>2. Span(b, 3, 3) /\ ToSet(b) \subseteq {"sync"}
    BY <1>1, SpanIf, RankValues
  <2> HIDE DEF a, b, c
  <2>3. Span(a \o b, 1, 3) /\ ToSet(a \o b) = ToSet(a) \cup ToSet(b)
    BY <2>1, <2>2, SpanConcat
  <2>4. Span(a \o b \o c, 1, 7) /\ ToSet(a \o b \o c) = ToSet(a \o b) \cup ToSet(c)
    BY <2>1, <2>3, SpanConcat
  <2>5. Span(a \o b \o c \o tail, 1, 13) /\ ToSet(a \o b \o c \o tail) = ToSet(a \o b \o c) \cup ToSet(tail)
    BY <1>4, <2>4, SpanConcat
  <2>6. Always \subseteq ToSet(a \o b \o c \o tail)
    BY <1>4, <2>1, <2>3, <2>4, <2>5 DEF Always
  <2>7. a \o b \o c \o tail \in Turns
    BY <1>6, <2>5, <2>6
  <2>8. QED BY <1>4, <2>1, <2>2, <2>3, <2>4, <2>5, <2>7 DEF a, b, c
<1>8. LET s == <<"stage", "spu", "upload", "settle">> \o If(~form.showcase, <<"batch">>) \o tail
      IN  s \in Turns /\ "stage" \in ToSet(s)
  <2> DEFINE a == <<"stage", "spu", "upload", "settle">>
             b == If(~form.showcase, <<"batch">>)
  <2>1. Span(a, 4, 7) /\ ToSet(a) = {"stage", "spu", "upload", "settle"}
    BY SpanStage
  <2>2. Span(b, 8, 8) /\ ToSet(b) \subseteq {"batch"}
    BY <1>1, SpanIf, RankValues
  <2> HIDE DEF a, b
  <2>3. Span(a \o b, 4, 8) /\ ToSet(a \o b) = ToSet(a) \cup ToSet(b)
    BY <2>1, <2>2, SpanConcat
  <2>4. Span(a \o b \o tail, 4, 13) /\ ToSet(a \o b \o tail) = ToSet(a \o b) \cup ToSet(tail)
    BY <1>4, <2>3, SpanConcat
  <2>5. Always \subseteq ToSet(a \o b \o tail)
    BY <1>4, <2>1, <2>3, <2>4 DEF Always
  <2>6. a \o b \o tail \in Turns
    BY <1>6, <2>4, <2>5
  <2>7. QED BY <2>1, <2>3, <2>4, <2>6 DEF a, b
<1>9. QED BY <1>5, <1>7, <1>8 DEF EditOps, NewOps

\* A submission that begins, and one that goes on to its next call.
LEMMA SubmissionTyped ==
    ASSUME TypeOK, NEW publish \in BOOLEAN
    PROVE  Submission(publish) \in Job
<1>1. form \in Fields /\ EditOps(publish) \in Turns /\ NewOps(publish) \in Turns
  BY OpsFacts DEF TypeOK
<1>2. IsFiniteSet(Removed) /\ IsFiniteSet(form.skus) /\ Removed \subseteq Variants /\ form.skus \subseteq Variants
  BY <1>1, FormAssumption, FS_Subset DEF Removed, Fields
<1>3. SetToSeq(Removed) \in Seq(Variants) /\ SetToSeq(form.skus) \in Seq(Variants)
  BY <1>2, SetToSeqFacts, SeqMonotonic
<1>4. <<>> \in Seq(Media) /\ {} \in SUBSET Media
  OBVIOUS
<1>5. QED BY <1>1, <1>2, <1>3, <1>4 DEF Submission, Job, Fields

LEMMA RestTyped ==
    ASSUME NEW job \in Job, Head(job.ops) # "done"
    PROVE  Rest(job) \in Job /\ Rest(job).ops = Tail(job.ops)
<1>1. job.ops \in Turns
  BY DEF Job
<1>2. Tail(job.ops) \in Turns
  BY <1>1, TurnFacts
<1>3. QED BY <1>2 DEF Rest, Job

LEMMA PutFacts ==
    ASSUME jobs \in Seq(Job), NEW i \in DOMAIN jobs, NEW job \in Job
    PROVE  /\ Put(i, job) \in Seq(Job) /\ Len(Put(i, job)) = Len(jobs)
           /\ ToSet(Put(i, job)) \subseteq ToSet(jobs) \cup {job}
           /\ jobs[i] \in Job /\ jobs[i] \in ToSet(jobs)
<1>1. Put(i, job) \in Seq(Job) /\ Len(Put(i, job)) = Len(jobs) /\ jobs[i] \in Job
  BY DEF Put
<1>2. \A n \in 1..Len(jobs) : Put(i, job)[n] \in {jobs[n], job}
  BY DEF Put
<1>3. \A n \in 1..Len(jobs) : jobs[n] \in ToSet(jobs)
  BY ToSetFacts
<1>4. \A x \in ToSet(Put(i, job)) : \E n \in 1..Len(jobs) : Put(i, job)[n] = x
  BY <1>1, ToSetFacts
<1>5. QED BY <1>1, <1>2, <1>3, <1>4

LEMMA EndedFacts ==
    ASSUME jobs \in Seq(Job), NEW i \in DOMAIN jobs
    PROVE  /\ Ended(i) \in Seq(Job) /\ Len(Ended(i)) = Len(jobs) - 1
           /\ ToSet(Ended(i)) \subseteq ToSet(jobs)
           /\ jobs[i] \in Job /\ jobs[i] \in ToSet(jobs)
<1>1. i \in 1..Len(jobs) /\ Len(jobs) \in Nat
  OBVIOUS
<1>2. /\ Ended(i) \in Seq(Job) /\ Len(Ended(i)) = Len(jobs) - 1
      /\ \A n \in 1..Len(Ended(i)) : Ended(i)[n] = jobs[IF n < i THEN n ELSE n + 1]
  BY <1>1, RemoveAtFacts DEF Ended
<1>3. \A n \in 1..Len(jobs) : jobs[n] \in ToSet(jobs)
  BY ToSetFacts
<1>4. \A x \in ToSet(Ended(i)) : \E n \in 1..Len(Ended(i)) : Ended(i)[n] = x
  BY <1>2, ToSetFacts
<1>5. \A n \in 1..Len(Ended(i)) : (IF n < i THEN n ELSE n + 1) \in 1..Len(jobs)
  BY <1>1, <1>2
<1>6. QED BY <1>1, <1>2, <1>3, <1>4, <1>5
-----------------------------------------------------------------------------
\* A step of the form keeps the types.
FormTypes ==
  stage \in Seq(Media) /\ media \in Desk /\ server \in Records /\ hist \in Past /\ form \in Fields /\ jobs \in Seq(Job)

\* What the form's steps write in its record.
LEMMA FieldsWritten ==
    ASSUME NEW f \in Fields, NEW n \in Nat, NEW b \in BOOLEAN, NEW S \in SUBSET Variants
    PROVE  /\ markDirty([f EXCEPT !.edits = n]) \in Fields
           /\ markDirty([f EXCEPT !.filled = b, !.edits = n]) \in Fields
           /\ markDirty([f EXCEPT !.showcase = b, !.edits = n]) \in Fields
           /\ markDirty([f EXCEPT !.priced = b, !.edits = n]) \in Fields
           /\ markDirty([f EXCEPT !.scheduled = b, !.edits = n]) \in Fields
           /\ markDirty([f EXCEPT !.edits = n, !.skus = S, !.priced = FALSE]) \in Fields
           /\ markDirty([f EXCEPT !.edits = n, !.skus = S]) \in Fields
           /\ markDirty([f EXCEPT !.translating = FALSE, !.edits = n]) \in Fields
           /\ [f EXCEPT !.loading = FALSE, !.filled = TRUE, !.showcase = FALSE, !.skus = OldVariants, !.original = OldVariants] \in Fields
           /\ [f EXCEPT !.loading = FALSE, !.said = "error"] \in Fields
           /\ [f EXCEPT !.translating = b] \in Fields
           /\ [f EXCEPT !.leave = b] \in Fields /\ [f EXCEPT !.left = b] \in Fields
           /\ [f EXCEPT !.leave = FALSE, !.left = TRUE] \in Fields
           /\ [f EXCEPT !.pending = {}] \in Fields /\ [f EXCEPT !.said = "error"] \in Fields
<1> USE DEF Fields, markDirty
<1>1. markDirty([f EXCEPT !.edits = n]) \in Fields
  OBVIOUS
<1>2. markDirty([f EXCEPT !.filled = b, !.edits = n]) \in Fields
  OBVIOUS
<1>3. markDirty([f EXCEPT !.showcase = b, !.edits = n]) \in Fields
  OBVIOUS
<1>4. markDirty([f EXCEPT !.priced = b, !.edits = n]) \in Fields
  OBVIOUS
<1>5. markDirty([f EXCEPT !.scheduled = b, !.edits = n]) \in Fields
  OBVIOUS
<1>6. markDirty([f EXCEPT !.edits = n, !.skus = S, !.priced = FALSE]) \in Fields
  OBVIOUS
<1>7. markDirty([f EXCEPT !.edits = n, !.skus = S]) \in Fields
  OBVIOUS
<1>8. markDirty([f EXCEPT !.translating = FALSE, !.edits = n]) \in Fields
  OBVIOUS
<1>9. [f EXCEPT !.loading = FALSE, !.filled = TRUE, !.showcase = FALSE, !.skus = OldVariants, !.original = OldVariants] \in Fields
  BY FormAssumption
<1>10. [f EXCEPT !.loading = FALSE, !.said = "error"] \in Fields
  OBVIOUS
<1>11. [f EXCEPT !.translating = b] \in Fields /\ [f EXCEPT !.leave = b] \in Fields /\ [f EXCEPT !.left = b] \in Fields
  OBVIOUS
<1>12. [f EXCEPT !.leave = FALSE, !.left = TRUE] \in Fields
  OBVIOUS
<1>13. [f EXCEPT !.pending = {}] \in Fields /\ [f EXCEPT !.said = "error"] \in Fields
  OBVIOUS
<1> HIDE DEF Fields, markDirty
<1>14. QED BY <1>1, <1>2, <1>3, <1>4, <1>5, <1>6, <1>7, <1>8, <1>9, <1>10, <1>11, <1>12, <1>13

LEMMA EditTyped ==
    ASSUME FormTypes, Edit
    PROVE  FormTypes'
<1> DEFINE n == form.edits + 1
<1>1. form \in Fields /\ hist \in Past /\ n \in Nat
  BY DEF FormTypes, Fields
<1>2. hist' \in Past /\ UNCHANGED <<stage, media, server, jobs>>
  BY <1>1 DEF Edit, Past
<1>3. form' \in Fields
  <2>1. CASE form' = markDirty([form EXCEPT !.edits = @ + 1])
    <3>1. form' = markDirty([form EXCEPT !.edits = n])
      BY <2>1
    <3> HIDE DEF n
    <3>2. QED BY <3>1, <1>1, FieldsWritten
  <2>2. ASSUME NEW f \in Controls, form' = markDirty([form EXCEPT ![f] = ~@, !.edits = @ + 1]) PROVE form' \in Fields
    <3> DEFINE b == ~ form[f]
    <3>1. f \in {"filled", "showcase", "priced", "scheduled"} /\ b \in BOOLEAN
      BY DEF Controls, BasicSection, OrgSection, VariantSection, ScheduleSection
    <3>2. form' = markDirty([form EXCEPT ![f] = b, !.edits = n])
      BY <2>2, <3>1, <1>1 DEF markDirty, Fields
    <3> HIDE DEF n, b
    <3>3. CASE f = "filled"
      BY <1>1, <3>1, <3>2, <3>3, FieldsWritten
    <3>4. CASE f = "showcase"
      BY <1>1, <3>1, <3>2, <3>4, FieldsWritten
    <3>5. CASE f = "priced"
      BY <1>1, <3>1, <3>2, <3>5, FieldsWritten
    <3>6. CASE f = "scheduled"
      BY <1>1, <3>1, <3>2, <3>6, FieldsWritten
    <3>7. QED BY <3>1, <3>3, <3>4, <3>5, <3>6
  <2>3. QED BY <2>1, <2>2 DEF Edit
<1>4. QED BY <1>2, <1>3 DEF FormTypes, Desk, Records

LEMMA FieldsTyped ==
    ASSUME FormTypes,
           Loaded \/ addSKU \/ removeSKU \/ handleSyncTranslate \/ Translated
           \/ Navigate \/ handleConfirmLeave \/ handleCancelLeave \/ ForcedUnlock
    PROVE  FormTypes'
<1> DEFINE n == form.edits + 1
<1>1. form \in Fields /\ hist \in Past /\ n \in Nat
  BY DEF FormTypes, Fields
<1>2. UNCHANGED <<stage, media, server, jobs>>
  BY DEF Loaded, addSKU, removeSKU, handleSyncTranslate, Translated, Navigate, handleConfirmLeave, handleCancelLeave, ForcedUnlock
<1>3. hist' \in Past
  BY <1>1 DEF Loaded, addSKU, removeSKU, handleSyncTranslate, Translated, Navigate, handleConfirmLeave, handleCancelLeave,
     ForcedUnlock, Past
<1>4. form' \in Fields
  <2>1. CASE Loaded
    BY <1>1, <2>1, FieldsWritten DEF Loaded
  <2>2. CASE addSKU
    <3>1. PICK k \in Variants : form' = markDirty([form EXCEPT !.edits = n, !.skus = form.skus \cup {k}, !.priced = FALSE])
      BY <2>2 DEF addSKU
    <3>2. form.skus \cup {k} \in SUBSET Variants
      BY <1>1 DEF Fields
    <3> HIDE DEF n
    <3>3. QED BY <1>1, <3>1, <3>2, FieldsWritten
  <2>3. CASE removeSKU
    <3>1. PICK k \in form.skus : form' = markDirty([form EXCEPT !.edits = n, !.skus = form.skus \ {k}])
      BY <2>3 DEF removeSKU
    <3>2. form.skus \ {k} \in SUBSET Variants
      BY <1>1 DEF Fields
    <3> HIDE DEF n
    <3>3. QED BY <1>1, <3>1, <3>2, FieldsWritten
  <2>4. CASE handleSyncTranslate
    BY <1>1, <2>4, FieldsWritten DEF handleSyncTranslate
  <2>5. CASE Translated
    <3>1. \/ form' = markDirty([form EXCEPT !.translating = FALSE, !.edits = n])
          \/ form' = [form EXCEPT !.translating = FALSE]
      BY <2>5 DEF Translated
    <3> HIDE DEF n
    <3>2. QED BY <1>1, <3>1, FieldsWritten
  <2>6. CASE Navigate
    BY <1>1, <2>6, FieldsWritten DEF Navigate, Navigated
  <2>7. CASE handleConfirmLeave \/ handleCancelLeave \/ ForcedUnlock
    BY <1>1, <2>7, FieldsWritten DEF handleConfirmLeave, handleCancelLeave, ForcedUnlock
  <2>8. QED BY <2>1, <2>2, <2>3, <2>4, <2>5, <2>6, <2>7
<1>5. QED BY <1>2, <1>3, <1>4 DEF FormTypes, Desk, Records

LEMMA SubmitTyped ==
    ASSUME TypeOK, FormTypes, doSubmit
    PROVE  FormTypes'
<1>1. form \in Fields /\ hist \in Past /\ jobs \in Seq(Job)
  BY DEF FormTypes
<1>2. UNCHANGED <<stage, media, server>>
  BY DEF doSubmit
<1>3. PICK publish \in BOOLEAN :
       \/ form' = [form EXCEPT !.said = "error"] /\ UNCHANGED <<jobs, hist>>
       \/ /\ form' = [form EXCEPT !.said = "nothing", !.pending = {Button(publish)}]
          /\ jobs' = Append(jobs, Submission(publish))
          /\ hist' = [hist EXCEPT !.saves = @ + 1, !.overlap = @ \/ jobs # <<>>]
  BY Zenon DEF doSubmit
<1>4. Append(jobs, Submission(publish)) \in Seq(Job)
  BY <1>1, SubmissionTyped, AppendFacts
<1>5. Button(publish) \in {"save", "publish"}
  BY DEF Button
<1>6. jobs' \in Seq(Job)
  BY <1>1, <1>3, <1>4
<1>7. [form EXCEPT !.said = "nothing", !.pending = {Button(publish)}] \in Fields /\ [form EXCEPT !.said = "error"] \in Fields
  BY <1>1, <1>5 DEF Fields
<1>8. hist' \in Past
  <2> DEFINE n == hist.saves + 1
             b == hist.overlap \/ jobs # <<>>
  <2>1. n \in Nat /\ b \in BOOLEAN
    BY <1>1 DEF Past
  <2>2. hist' = hist \/ hist' = [hist EXCEPT !.saves = n, !.overlap = b]
    BY <1>3
  <2> HIDE DEF n, b
  <2>3. [hist EXCEPT !.saves = n, !.overlap = b] \in Past
    BY <1>1, <2>1 DEF Past
  <2>4. QED BY <1>1, <2>2, <2>3
<1>9. form' \in Fields
  BY <1>3, <1>7
<1>10. QED BY <1>2, <1>6, <1>8, <1>9 DEF FormTypes, Desk, Records

\* A submission ends with a message.
LEMMA ThrowTyped ==
    ASSUME FormTypes, NEW i \in DOMAIN jobs, Throw(i)
    PROVE  /\ form' \in Fields /\ jobs' \in Seq(Job) /\ stage' = stage /\ media' = media
           /\ form' = [form EXCEPT !.pending = form'.pending, !.said = "error"] /\ jobs' = Ended(i)
<1>1. form \in Fields /\ jobs \in Seq(Job)
  BY DEF FormTypes
<1>2. /\ form' = [form EXCEPT !.said = "error", !.pending = @ \ {Button(jobs[i].publish)}]
      /\ jobs' = Ended(i) /\ stage' = stage /\ media' = media
  BY <1>1 DEF Throw, Stopped, Fields
<1>3. QED BY <1>1, <1>2, EndedFacts DEF Fields

LEMMA CapTyped == \A n \in Nat : Cap(n) \in Nat
BY DEF Cap

\* What a submission does next, when it does not fail.
LEMMA NextJobs ==
    ASSUME NEW job \in Job
    PROVE  /\ Head(job.ops) # "done" =>
                /\ \A spu \in Nat : [Rest(job) EXCEPT !.spu = spu] \in Job
                /\ \A items \in Seq(Media), read \in SUBSET Media : [Rest(job) EXCEPT !.items = items, !.read = read] \in Job
           /\ job.dels # <<>> => [job EXCEPT !.dels = Tail(@)] \in Job /\ Head(job.dels) \in Variants
           /\ job.syncs # <<>> => [job EXCEPT !.syncs = Tail(@)] \in Job /\ Head(job.syncs) \in Variants
           /\ job.items # <<>> => /\ [job EXCEPT !.items = Tail(@)] \in Job /\ [job EXCEPT !.items = Tail(@), !.failed = TRUE] \in Job
                                 /\ Head(job.items) \in Media
<1>1. ASSUME Head(job.ops) # "done"
      PROVE  /\ \A spu \in Nat : [Rest(job) EXCEPT !.spu = spu] \in Job
             /\ \A items \in Seq(Media), read \in SUBSET Media : [Rest(job) EXCEPT !.items = items, !.read = read] \in Job
  <2>1. Rest(job) \in Job
    BY <1>1, RestTyped
  <2>2. QED BY <2>1 DEF Job
<1>2. /\ job.dels # <<>> => Tail(job.dels) \in Seq(Variants) /\ Head(job.dels) \in Variants
      /\ job.syncs # <<>> => Tail(job.syncs) \in Seq(Variants) /\ Head(job.syncs) \in Variants
      /\ job.items # <<>> => Tail(job.items) \in Seq(Media) /\ Head(job.items) \in Media
  <2>1. job.dels \in Seq(Variants) /\ job.syncs \in Seq(Variants) /\ job.items \in Seq(Media)
    BY DEF Job
  <2>2. QED BY <2>1, TailFacts
<1>3. /\ job.dels # <<>> => [job EXCEPT !.dels = Tail(@)] \in Job
      /\ job.syncs # <<>> => [job EXCEPT !.syncs = Tail(@)] \in Job
      /\ job.items # <<>> => [job EXCEPT !.items = Tail(@)] \in Job /\ [job EXCEPT !.items = Tail(@), !.failed = TRUE] \in Job
  BY <1>2 DEF Job
<1>4. QED BY <1>1, <1>2, <1>3

LEMMA ProgressTyped ==
    ASSUME FormTypes, NEW i \in DOMAIN jobs, Head(jobs[i].ops) # "done"
    PROVE  /\ Put(i, Rest(jobs[i])) \in Seq(Job)
           /\ \A spu \in Nat : Put(i, [Rest(jobs[i]) EXCEPT !.spu = spu]) \in Seq(Job)
           /\ \A items \in Seq(Media), read \in SUBSET Media :
                 Put(i, [Rest(jobs[i]) EXCEPT !.items = items, !.read = read]) \in Seq(Job)
           /\ jobs[i].dels # <<>> => /\ Put(i, [jobs[i] EXCEPT !.dels = Tail(@)]) \in Seq(Job)
                                    /\ Head(jobs[i].dels) \in Variants
           /\ jobs[i].syncs # <<>> => /\ Put(i, [jobs[i] EXCEPT !.syncs = Tail(@)]) \in Seq(Job)
                                     /\ Head(jobs[i].syncs) \in Variants
           /\ jobs[i].items # <<>> => /\ Put(i, [jobs[i] EXCEPT !.items = Tail(@)]) \in Seq(Job)
                                     /\ Put(i, [jobs[i] EXCEPT !.items = Tail(@), !.failed = TRUE]) \in Seq(Job)
                                     /\ Head(jobs[i].items) \in Media
<1> DEFINE job == jobs[i]
<1>1. jobs \in Seq(Job) /\ job \in Job
  BY DEF FormTypes
<1>2. \A j \in Job : Put(i, j) \in Seq(Job)
  BY <1>1, PutFacts
<1> HIDE DEF job
<1>3. Rest(job) \in Job
  BY <1>1, RestTyped DEF job
<1>4. QED BY <1>1, <1>2, <1>3, NextJobs DEF job

LEMMA UploadableTyped ==
    ASSUME stage \in Seq(Media)
    PROVE  /\ Uploadable(stage) \in Seq(Media) /\ ToSet(Uploadable(stage)) \in SUBSET Media
           /\ ToSet(Uploadable(stage)) \subseteq ToSet(stage)
           /\ Distinct(stage) => Distinct(Uploadable(stage))
<1>1. /\ Kept(stage, Images) \in Seq(Media) /\ ToSet(Kept(stage, Images)) \subseteq ToSet(stage)
      /\ Distinct(stage) => Distinct(Kept(stage, Images))
  BY KeptFacts
<1>2. \A s \in Seq(Media) : ToSet(s) \in SUBSET Media
  BY ToSetFacts
<1>3. QED BY <1>1, <1>2 DEF Uploadable, OnlyImages
\* What a submission writes in the records of the server and in the history.
LEMMA RecordsWritten ==
    ASSUME NEW s \in Records, NEW n \in Nat, NEW k \in Variants, NEW m \in Media, NEW bag \in [Variants -> Nat]
    PROVE  /\ [s EXCEPT !.spus = n] \in Records /\ [s EXCEPT !.files[m] = n] \in Records
           /\ [s EXCEPT !.skus[k] = n] \in Records /\ [s EXCEPT !.skus = bag] \in Records
           /\ [s EXCEPT !.sale = @ \cup {n}] \in Records
BY DEF Records

LEMMA PastWritten ==
    ASSUME NEW h \in Past, NEW n \in Nat, NEW b \in BOOLEAN, NEW S \in SUBSET Media
    PROVE  /\ [h EXCEPT !.trouble = n] \in Past /\ [h EXCEPT !.trouble = n, !.lost = TRUE] \in Past
           /\ [h EXCEPT !.dropped = S] \in Past /\ [h EXCEPT !.saved = n, !.published = b] \in Past
BY DEF Past

LEMMA TroubleTyped == ASSUME hist \in Past PROVE Trouble \in Past /\ [Trouble EXCEPT !.lost = TRUE] \in Past
<1> DEFINE n == hist.trouble + 1
<1>1. n \in Nat /\ Trouble = [hist EXCEPT !.trouble = n]
  BY DEF Past, Trouble
<1>2. [Trouble EXCEPT !.lost = TRUE] = [hist EXCEPT !.trouble = n, !.lost = TRUE]
  BY <1>1
<1> HIDE DEF n
<1>3. QED BY <1>1, <1>2, PastWritten

LEMMA FinishTyped ==
    ASSUME FormTypes, NEW i \in DOMAIN jobs, Finish(i)
    PROVE  FormTypes'
<1> DEFINE job == jobs[i]
           pending == form.pending \ {Button(job.publish)}
<1>0. form \in Fields /\ hist \in Past /\ jobs \in Seq(Job) /\ job \in Job
  BY DEF FormTypes
<1> HIDE DEF job
<1>1. form \in Fields /\ hist \in Past /\ jobs \in Seq(Job) /\ job \in Job /\ job.edits \in Nat /\ job.publish \in BOOLEAN
  BY <1>0 DEF Job
<1>2. Ended(i) \in Seq(Job)
  BY <1>1, EndedFacts
<1>3. pending \in SUBSET {"save", "publish"}
  BY <1>1 DEF Fields
<1>4. Stopped(form, job) = [form EXCEPT !.pending = pending]
  BY DEF Stopped
<1>5. hist' \in Past
  <2> DEFINE n == IF job.edits > hist.saved THEN job.edits ELSE hist.saved
             b == hist.published \/ job.publish
  <2>1. n \in Nat /\ b \in BOOLEAN
    BY <1>1 DEF Past
  <2>2. hist' = [hist EXCEPT !.saved = n, !.published = b]
    BY DEF Finish, job
  <2> HIDE DEF n, b
  <2>3. QED BY <1>1, <2>1, <2>2, PastWritten
<1>6. form' = IF job.publish THEN Navigated([[form EXCEPT !.pending = pending] EXCEPT !.created = 0])
              ELSE [[form EXCEPT !.pending = pending] EXCEPT !.said = "saved", !.dirty = FALSE]
  BY <1>4 DEF Finish, job
<1>7. jobs' = Ended(i) /\ UNCHANGED <<stage, media, server>>
  BY DEF Finish
<1> HIDE DEF pending
<1>8. /\ [[form EXCEPT !.pending = pending] EXCEPT !.created = 0] \in Fields
      /\ [[form EXCEPT !.pending = pending] EXCEPT !.said = "saved", !.dirty = FALSE] \in Fields
  BY <1>1, <1>3 DEF Fields
<1>9. form' \in Fields
  BY <1>6, <1>8, FieldsWritten DEF Navigated
<1>10. QED BY <1>2, <1>5, <1>7, <1>9 DEF FormTypes, Desk, Records

LEMMA CreateTyped ==
    ASSUME FormTypes, NEW i \in DOMAIN jobs, Head(jobs[i].ops) # "done", Create(i)
    PROVE  server' \in Records /\ form' \in Fields /\ jobs' \in Seq(Job)
<1>1. form \in Fields /\ server \in Records /\ form.created \in Nat /\ server.spus \in Nat
  BY DEF FormTypes, Fields, Records
<1> DEFINE n == server.spus + 1
<1>2. n \in Nat /\ Cap(n) \in Nat
  BY <1>1, CapTyped
<1>3. CASE form.created # 0
  BY <1>1, <1>3, ProgressTyped DEF Create
<1>4. CASE form.created = 0
  <2>1. /\ server' = [server EXCEPT !.spus = Cap(n)] /\ form' = [form EXCEPT !.created = n]
        /\ jobs' = Put(i, [Rest(jobs[i]) EXCEPT !.spu = n])
    BY <1>4 DEF Create
  <2> HIDE DEF n
  <2>2. [form EXCEPT !.created = n] \in Fields
    BY <1>1, <1>2 DEF Fields
  <2>3. [server EXCEPT !.spus = Cap(n)] \in Records
    BY <1>1, <1>2 DEF Records
  <2>4. QED BY <1>2, <2>1, <2>2, <2>3, ProgressTyped
<1>5. QED BY <1>3, <1>4

LEMMA UploadedTyped ==
    ASSUME FormTypes, NEW i \in DOMAIN jobs, Head(jobs[i].ops) # "done", jobs[i].items # <<>>, CallUpload(i)
    PROVE  FormTypes'
<1> DEFINE m == Head(jobs[i].items)
<1>1. stage \in Seq(Media) /\ server \in Records /\ m \in Media /\ hist \in Past
  BY ProgressTyped DEF FormTypes
<1> HIDE DEF m
<1>2. Cap(server.files[m] + 1) \in Nat
  <2>1. server.files[m] \in Nat
    BY <1>1 DEF Records
  <2>2. QED BY <2>1, CapTyped
<1>3. [server EXCEPT !.files[m] = Cap(server.files[m] + 1)] \in Records
  BY <1>1, <1>2 DEF Records
<1>4. Kept(stage, Media \ {m}) \in Seq(Media)
  BY <1>1, KeptFacts
<1>5. /\ stage' \in {stage, Kept(stage, Media \ {m})}
      /\ jobs' \in {Put(i, [jobs[i] EXCEPT !.items = Tail(@)]), Put(i, [jobs[i] EXCEPT !.items = Tail(@), !.failed = TRUE])}
      /\ server' \in {server, [server EXCEPT !.files[m] = Cap(server.files[m] + 1)]}
      /\ UNCHANGED <<media, form>> /\ hist' \in {hist, Trouble, [Trouble EXCEPT !.lost = TRUE]}
  BY DEF CallUpload, Uploaded, deleteStagedItem, Without, m
<1>6. stage' \in Seq(Media) /\ jobs' \in Seq(Job) /\ server' \in Records /\ hist' \in Past
  BY <1>1, <1>3, <1>4, <1>5, ProgressTyped, TroubleTyped
<1>7. media' \in Desk /\ form' \in Fields
  BY <1>5 DEF FormTypes
<1>8. QED BY <1>6, <1>7 DEF FormTypes, Desk, Fields, Records, Past

LEMMA BatchTyped ==
    ASSUME server \in Records, NEW ks
    PROVE  [server EXCEPT !.skus = [k \in Variants |-> Cap(Plus(@, ks)[k])]] \in Records
<1> DEFINE bag == [k \in Variants |-> Cap(Plus(server.skus, ks)[k])]
<1>1. server.skus \in [Variants -> Nat]
  BY DEF Records
<1>2. \A k \in Variants : Plus(server.skus, ks)[k] \in Nat
  BY <1>1 DEF Plus
<1>3. bag \in [Variants -> Nat]
  BY <1>2, CapTyped
<1> HIDE DEF bag
<1>4. [server EXCEPT !.skus = bag] \in Records
  BY <1>3 DEF Records
<1>5. QED BY <1>4 DEF bag

LEMMA RunTyped ==
    ASSUME FormTypes, NEW i \in DOMAIN jobs, Run(i)
    PROVE  FormTypes'
<1> DEFINE op == Head(jobs[i].ops)
           skip == jobs' = Put(i, Rest(jobs[i])) /\ UNCHANGED <<stage, media, form, hist, server>>
<1>1. /\ stage \in Seq(Media) /\ media \in Desk /\ server \in Records /\ hist \in Past /\ form \in Fields /\ jobs \in Seq(Job)
      /\ Trouble \in Past /\ [Trouble EXCEPT !.lost = TRUE] \in Past
  BY TroubleTyped DEF FormTypes
<1>2. ASSUME stage' \in Seq(Media), media' = media, server' \in Records, hist' \in Past, form' \in Fields, jobs' \in Seq(Job)
      PROVE  FormTypes'
  BY <1>1, <1>2 DEF FormTypes, Desk, Records, Fields, Past
<1>3. ASSUME op # "done", jobs' = Put(i, Rest(jobs[i])), UNCHANGED <<stage, media, form>>, server' \in Records, hist' \in Past
      PROVE FormTypes'
  BY <1>1, <1>2, <1>3, ProgressTyped
<1>4. ASSUME Throw(i), server' \in Records, hist' \in Past
      PROVE FormTypes'
  BY <1>1, <1>2, <1>4, ThrowTyped
<1>5. server \in Records /\ \A n \in Nat : [server EXCEPT !.spus = Cap(n)] \in Records
  BY <1>1, CapTyped, RecordsWritten, FormAssumption DEF Records
<1>6. CASE op = "stage" /\ ReadStage(i)
  BY <1>1, <1>2, <1>6, UploadableTyped, ProgressTyped DEF ReadStage
<1>7. CASE op = "settle" /\ Settle(i)
  BY <1>1, <1>3, <1>4, <1>7 DEF Settle
<1>8. CASE op = "clear" /\ clearAllStaged(i)
  <2>1. hist.dropped \cup (ToSet(stage) \cap jobs[i].read) \in SUBSET Media
    BY <1>1, ToSetFacts DEF Past
  <2>2. hist' \in Past
    BY <1>1, <1>8, <2>1, PastWritten DEF clearAllStaged
  <2>3. <<>> \in Seq(Media)
    OBVIOUS
  <2>4. QED BY <1>1, <1>2, <1>8, <2>2, <2>3, ProgressTyped DEF clearAllStaged
<1>9. CASE op = "done" /\ Finish(i)
  BY <1>9, FinishTyped
<1>10. CASE op = "spu" /\ CallSpu(i)
  <2>1. CASE Create(i) /\ UNCHANGED <<stage, media, hist>>
    BY <1>1, <1>2, <1>10, <2>1, CreateTyped
  <2>2. CASE Throw(i) /\ hist' = Trouble /\ UNCHANGED server
    BY <1>1, <1>4, <2>2
  <2>3. CASE Throw(i) /\ hist' = [Trouble EXCEPT !.lost = TRUE] /\ server' = [server EXCEPT !.spus = Cap(@ + 1)]
    <3>1. server.spus + 1 \in Nat
      BY <1>1 DEF Records
    <3>2. QED BY <1>1, <1>4, <1>5, <2>3, <3>1
  <2>4. QED BY <1>10, <2>1, <2>2, <2>3 DEF CallSpu
<1>11. CASE op \in {"update", "tags", "schedule"} /\ CallPlain(i)
  BY <1>1, <1>3, <1>4, <1>11 DEF CallPlain
<1>12. CASE op = "delete" /\ jobs[i].dels # <<>> /\ CallDelete(i)
  <2>1. CASE server' = [server EXCEPT !.skus[Head(jobs[i].dels)] = 0] /\ jobs' = Put(i, [jobs[i] EXCEPT !.dels = Tail(@)])
             /\ UNCHANGED <<stage, media, form, hist>>
    <3>1. Head(jobs[i].dels) \in Variants /\ jobs' \in Seq(Job)
      BY <1>12, <2>1, ProgressTyped
    <3>2. server' \in Records
      BY <1>1, <2>1, <3>1 DEF Records
    <3>3. QED BY <1>1, <1>2, <2>1, <3>1, <3>2
  <2>2. CASE Throw(i) /\ server' = server /\ hist' \in {hist, Trouble}
    BY <1>1, <1>4, <2>2
  <2>3. QED BY <1>12, <2>1, <2>2 DEF CallDelete
<1>13. CASE op = "sync" /\ jobs[i].syncs # <<>> /\ CallSync(i)
  <2> DEFINE k == Head(jobs[i].syncs)
             next == jobs' = Put(i, [jobs[i] EXCEPT !.syncs = Tail(@)]) /\ UNCHANGED <<stage, media, form, hist>>
  <2>1. CASE next /\ server' \in {server, [server EXCEPT !.skus[k] = Cap(@ + 1)]}
    <3>1. k \in Variants /\ jobs' \in Seq(Job)
      BY <1>13, <2>1, ProgressTyped
    <3> HIDE DEF k, next
    <3>5. server.skus[k] \in Nat
      BY <1>1, <3>1 DEF Records
    <3>2. Cap(server.skus[k] + 1) \in Nat
      BY <3>5, CapTyped
    <3>3. [server EXCEPT !.skus[k] = Cap(@ + 1)] \in Records
      BY <1>1, <3>1, <3>2 DEF Records
    <3>4. QED BY <1>1, <1>2, <2>1, <3>1, <3>3 DEF next
  <2>2. CASE Throw(i) /\ server' = server /\ hist' \in {hist, Trouble}
    BY <1>1, <1>4, <2>2
  <2>3. QED BY <1>13, <2>1, <2>2 DEF CallSync
<1>14. CASE op = "upload" /\ jobs[i].items # <<>> /\ CallUpload(i)
  BY <1>14, UploadedTyped
<1>15. CASE op = "batch" /\ CallBatch(i)
  <2>1. CASE /\ server' = [server EXCEPT !.skus = [k \in Variants |-> Cap(Plus(@, jobs[i].skus)[k])]]
             /\ jobs' = Put(i, Rest(jobs[i])) /\ UNCHANGED <<stage, media, form, hist>>
    <3>1. server' \in Records
      BY <1>1, <2>1, BatchTyped
    <3>2. QED BY <1>1, <1>3, <1>15, <2>1, <3>1
  <2>2. CASE Throw(i) /\ hist' = Trouble /\ UNCHANGED server
    BY <1>1, <1>4, <2>2
  <2>3. QED BY <1>15, <2>1, <2>2 DEF CallBatch
<1>16. CASE op = "shelf" /\ CallShelf(i)
  <2>0. jobs[i] \in Job
    BY <1>1
  <2>1. jobs[i].spu \in Nat
    BY <2>0 DEF Job
  <2>2. [server EXCEPT !.sale = @ \cup {jobs[i].spu}] \in Records
    BY <1>1, <2>1 DEF Records
  <2>3. QED BY <1>1, <1>3, <1>16, <2>2 DEF CallShelf
<1>17. CASE op \in {"delete", "sync", "upload"} /\ skip
  BY <1>1, <1>3, <1>17
<1> HIDE DEF op, skip
<1>18. QED BY <1>6, <1>7, <1>8, <1>9, <1>10, <1>11, <1>12, <1>13, <1>14, <1>15, <1>16, <1>17 DEF Run, op, skip
LEMMA FormTyped ==
    ASSUME TypeOK, FormNext, screen \in FormScreens
    PROVE  TypeOK'
<1>1. FormTypes
  BY DEF TypeOK, FormTypes, FormScreens
<1>2. FormTypes'
  <2>1. CASE \E i \in DOMAIN jobs : Run(i)
    BY <1>1, <2>1, RunTyped
  <2>2. CASE Edit
    BY <1>1, <2>2, EditTyped
  <2>3. CASE doSubmit
    BY <1>1, <2>3, SubmitTyped
  <2>4. CASE Loaded \/ addSKU \/ removeSKU \/ handleSyncTranslate \/ Translated
             \/ Navigate \/ handleConfirmLeave \/ handleCancelLeave \/ ForcedUnlock
    BY <1>1, <2>4, FieldsTyped
  <2>5. QED BY <2>1, <2>2, <2>3, <2>4 DEF FormNext
<1>3. screen' = screen /\ screen \in Screens
  BY FormKeepsScreen DEF TypeOK
<1>4. QED BY <1>2, <1>3 DEF TypeOK, FormTypes

LEMMA TypeNext == TypeOK /\ [Next]_vars => TypeOK'
<1> SUFFICES ASSUME TypeOK, [Next]_vars PROVE TypeOK'
  OBVIOUS
<1>1. screen' = screen /\ screen \in Screens
  BY ScreenStays DEF TypeOK
<1>2. CASE UNCHANGED <<screen, stage, media, server, hist, form, jobs>>
  <2>1. /\ screen # "gallery" => stage' \in Seq(Media) /\ media' \in Desk /\ server' \in Records /\ hist' \in Past
        /\ form' \in Fields /\ jobs' \in Seq(Job) /\ (screen \notin FormScreens => jobs' = <<>>)
    BY <1>2 DEF TypeOK
  <2>2. QED BY <1>1, <2>1 DEF TypeOK, Desk, Records, Past, Fields
<1>3. CASE screen \in {"stage", "new"} /\ DeskNext /\ UNCHANGED <<form, jobs, aux>>
  <2>1. stage' \in Seq(Media) /\ media' \in Desk /\ hist' \in Past /\ server' = server
    BY <1>3, DeskTyped, DeskKeepsRest
  <2>2. server' \in Records /\ form' \in Fields /\ jobs' \in Seq(Job) /\ (screen \notin FormScreens => jobs' = <<>>)
    BY <1>3, <2>1 DEF TypeOK
  <2>3. QED BY <1>1, <2>1, <2>2 DEF TypeOK, Desk, Records, Past, Fields
<1>4. CASE screen = "gallery" /\ UNCHANGED <<form, jobs, aux>>
  BY <1>1, <1>4 DEF TypeOK, Fields
<1>5. CASE screen \in FormScreens /\ FormNext /\ UNCHANGED aux
  BY <1>5, FormTyped
<1>6. QED BY <1>2, <1>3, <1>4, <1>5 DEF Next, vars

\* Every variable of the screens keeps its type, for any files and variants.
THEOREM TypesHold == Spec => []TypeOK
<1>1. QED BY InitTyped, TypeNext, PTL DEF Spec
-----------------------------------------------------------------------------
(***************************************************************************)
(* What a call of a submission changes, and what it leaves.                *)
(***************************************************************************)
\* A submission after one of its calls, when it goes on.
Successor(job, j) ==
  LET op == Head(job.ops) IN
  /\ j \in Job /\ j.edits = job.edits
  /\ \/ /\ op # "done" /\ j.ops = Tail(job.ops) /\ j.dels = job.dels /\ j.failed = job.failed
        /\ IF op = "stage" THEN j.items = Uploadable(stage) /\ j.read = ToSet(Uploadable(stage))
                           ELSE j.items = job.items /\ j.read = job.read
        /\ op = "delete" => job.dels = <<>>
        /\ op = "upload" => job.items = <<>>
        /\ op = "settle" => ~job.failed
     \/ /\ op = "delete" /\ job.dels # <<>> /\ j.dels = Tail(job.dels) /\ server'.skus[Head(job.dels)] = 0
        /\ j.ops = job.ops /\ j.items = job.items /\ j.read = job.read /\ j.failed = job.failed
     \/ /\ op = "sync" /\ j.dels = job.dels
        /\ j.ops = job.ops /\ j.items = job.items /\ j.read = job.read /\ j.failed = job.failed
     \/ /\ op = "upload" /\ job.items # <<>> /\ j.items = Tail(job.items)
        /\ j.ops = job.ops /\ j.dels = job.dels /\ j.read = job.read
        /\ j.failed \/ (j.failed = job.failed /\ stage' = Without(stage, Head(job.items)))

\* What stays of the form and of the history while a submission goes on or fails.
FormFrame ==
  /\ form'.edits = form.edits /\ form'.dirty = form.dirty /\ form'.left = form.left
  /\ form'.skus = form.skus /\ form'.original = form.original
HistFrame ==
  /\ hist'.saved = hist.saved /\ hist'.during = hist.during /\ hist'.asked = hist.asked /\ hist'.published = hist.published
HistKept ==
  hist'.used = hist.used /\ hist'.revived = hist.revived /\ hist'.overlap = hist.overlap

\* What only some of the calls change.
CallFrame(op) ==
  /\ op # "spu" => server'.spus = server.spus /\ (op # "done" => form'.created = form.created)
  /\ op \notin {"delete", "sync", "batch"} => server'.skus = server.skus
  /\ op # "upload" => server'.files = server.files
  /\ op \notin {"upload", "clear"} => stage' = stage
  /\ op # "clear" => hist'.dropped = hist.dropped
  /\ op \notin {"spu", "upload"} => hist'.lost = hist.lost

JobFrame(job) ==
  /\ Len(jobs') <= Len(jobs)
  /\ \A j \in ToSet(jobs') : (j \in ToSet(jobs) /\ Len(jobs) > 1) \/ Successor(job, j)

LEMMA PutFrame ==
    ASSUME jobs \in Seq(Job), NEW i \in DOMAIN jobs, NEW j \in Job, jobs' = Put(i, j), Successor(jobs[i], j)
    PROVE  JobFrame(jobs[i])
<1>1. Len(jobs') = Len(jobs) /\ ToSet(jobs') \subseteq ToSet(jobs) \cup {j} /\ Len(jobs) \in Nat \ {0} /\ jobs' \in Seq(Job)
  BY PutFacts
<1>2. CASE Len(jobs) > 1
  BY <1>1, <1>2 DEF JobFrame
<1>3. CASE Len(jobs) = 1
  <2>1. i = 1 /\ jobs'[1] = j
    BY <1>3 DEF Put
  <2>2. \A x \in ToSet(jobs') : \E n \in 1..Len(jobs') : jobs'[n] = x
    BY <1>1, ToSetFacts
  <2>3. \A x \in ToSet(jobs') : x = j
    BY <2>1, <2>2, <1>1, <1>3
  <2>4. QED BY <2>3, <1>1 DEF JobFrame
<1>4. QED BY <1>1, <1>2, <1>3

LEMMA EndedFrame ==
    ASSUME jobs \in Seq(Job), NEW i \in DOMAIN jobs, jobs' = Ended(i)
    PROVE  JobFrame(jobs[i])
<1>1. Len(jobs') = Len(jobs) - 1 /\ ToSet(jobs') \subseteq ToSet(jobs) /\ Len(jobs) \in Nat \ {0} /\ jobs' \in Seq(Job)
  BY EndedFacts
<1>2. CASE Len(jobs) > 1
  BY <1>1, <1>2 DEF JobFrame
<1>3. CASE Len(jobs) = 1
  <2>1. \A x \in ToSet(jobs') : \E n \in 1..Len(jobs') : jobs'[n] = x
    BY <1>1, ToSetFacts
  <2>2. ToSet(jobs') = {}
    BY <2>1, <1>1, <1>3
  <2>3. QED BY <2>2, <1>1 DEF JobFrame
<1>4. QED BY <1>1, <1>2, <1>3

\* A submission that moves on to its next call.
LEMMA RestFrame ==
    ASSUME FormTypes, NEW i \in DOMAIN jobs, jobs' = Put(i, Rest(jobs[i])), Head(jobs[i].ops) \notin {"done", "stage"},
           Head(jobs[i].ops) = "delete" => jobs[i].dels = <<>>,
           Head(jobs[i].ops) = "upload" => jobs[i].items = <<>>,
           Head(jobs[i].ops) = "settle" => ~jobs[i].failed
    PROVE  JobFrame(jobs[i])
<1> DEFINE job == jobs[i]
           j == Rest(job)
<1>1. jobs \in Seq(Job) /\ job \in Job
  BY DEF FormTypes
<1> HIDE DEF job
<1>2. j \in Job /\ j.ops = Tail(job.ops)
  BY <1>1, RestTyped DEF job
<1>3. j.edits = job.edits /\ j.dels = job.dels /\ j.failed = job.failed /\ j.items = job.items /\ j.read = job.read
  BY <1>1 DEF Rest, Job
<1> HIDE DEF j
<1>4. Successor(job, j)
  BY <1>2, <1>3 DEF Successor, job
<1>5. QED BY <1>1, <1>2, <1>4, PutFrame DEF job, j

LEMMA ThrowFrame ==
    ASSUME FormTypes, NEW i \in DOMAIN jobs, Throw(i)
    PROVE  /\ JobFrame(jobs[i]) /\ FormFrame /\ form'.created = form.created /\ stage' = stage /\ media' = media
<1>1. form \in Fields /\ jobs \in Seq(Job)
  BY DEF FormTypes
<1>2. jobs' = Ended(i) /\ form' = [form EXCEPT !.pending = form'.pending, !.said = "error"] /\ stage' = stage /\ media' = media
  BY ThrowTyped
<1>3. JobFrame(jobs[i])
  BY <1>1, <1>2, EndedFrame
<1>4. QED BY <1>1, <1>2, <1>3 DEF FormFrame, Fields

LEMMA TroubleFrame ==
    ASSUME hist \in Past
    PROVE  /\ hist' \in {hist, Trouble} => HistFrame /\ HistKept /\ hist'.dropped = hist.dropped /\ hist'.lost = hist.lost
           /\ hist' = [Trouble EXCEPT !.lost = TRUE] => HistFrame /\ HistKept /\ hist'.dropped = hist.dropped
BY DEF Past, Trouble, HistFrame, HistKept
\* Every call of a submission: it goes on or ends, and only some calls change anything else.
Framed(job) ==
  /\ JobFrame(job) /\ HistKept /\ CallFrame(Head(job.ops)) /\ media' = media
  /\ Head(job.ops) # "done" => FormFrame /\ HistFrame

LEMMA CallsFramed ==
    ASSUME FormTypes, NEW i \in DOMAIN jobs, Run(i), Head(jobs[i].ops) \notin {"done", "spu", "upload", "stage", "clear"}
    PROVE  Framed(jobs[i])
<1> DEFINE job == jobs[i]
           op == Head(job.ops)
<1>1. form \in Fields /\ jobs \in Seq(Job) /\ hist \in Past /\ server \in Records
  BY DEF FormTypes
<1>2. job \in Job
  BY <1>1
<1>3. ASSUME JobFrame(job), FormFrame, form'.created = form.created, stage' = stage, media' = media, hist' \in {hist, Trouble},
             server'.spus = server.spus, server'.files = server.files,
             op \notin {"delete", "sync", "batch"} => server'.skus = server.skus
      PROVE  Framed(job)
  BY <1>1, <1>3, TroubleFrame DEF Framed, CallFrame
<1>4. form' = form => FormFrame /\ form'.created = form.created
  BY DEF FormFrame
<1>5. CASE Throw(i) /\ hist' \in {hist, Trouble} /\ server' = server
  BY <1>1, <1>3, <1>5, ThrowFrame DEF FormTypes
<1>6. CASE jobs' = Put(i, Rest(job)) /\ UNCHANGED <<stage, media, form>> /\ hist' \in {hist, Trouble}
           /\ server'.spus = server.spus /\ server'.files = server.files
           /\ (op # "batch" => server'.skus = server.skus)
           /\ (op = "delete" => job.dels = <<>>) /\ (op = "settle" => ~job.failed)
  <2>1. JobFrame(job)
    BY <1>6, RestFrame
  <2>2. QED BY <1>3, <1>4, <1>6, <2>1
<1>7. CASE op = "settle" /\ Settle(i)
  BY <1>5, <1>6, <1>7 DEF Settle
<1>8. CASE op \in {"update", "tags", "schedule"} /\ CallPlain(i)
  BY <1>5, <1>6, <1>8 DEF CallPlain
<1>9. CASE op = "batch" /\ CallBatch(i)
  <2>1. [server EXCEPT !.skus = [k \in Variants |-> Cap(Plus(@, job.skus)[k])]].spus = server.spus
        /\ [server EXCEPT !.skus = [k \in Variants |-> Cap(Plus(@, job.skus)[k])]].files = server.files
    BY <1>1 DEF Records
  <2>2. QED BY <1>5, <1>6, <1>9, <2>1 DEF CallBatch
<1>10. CASE op = "shelf" /\ CallShelf(i)
  <2>1. [server EXCEPT !.sale = @ \cup {job.spu}].spus = server.spus /\ [server EXCEPT !.sale = @ \cup {job.spu}].files = server.files
        /\ [server EXCEPT !.sale = @ \cup {job.spu}].skus = server.skus
    BY <1>1 DEF Records
  <2>2. QED BY <1>6, <1>10, <2>1 DEF CallShelf
<1>11. CASE op = "delete" /\ job.dels # <<>> /\ CallDelete(i)
  <2> DEFINE k == Head(job.dels)
             j == [job EXCEPT !.dels = Tail(@)]
  <2>1. CASE server' = [server EXCEPT !.skus[k] = 0] /\ jobs' = Put(i, j) /\ UNCHANGED <<stage, media, form, hist>>
    <3>1. j \in Job /\ k \in Variants
      BY <1>2, <1>11, NextJobs
    <3>2. j.edits = job.edits /\ j.dels = Tail(job.dels) /\ j.ops = job.ops /\ j.items = job.items /\ j.read = job.read
          /\ j.failed = job.failed
      BY <1>2 DEF Job
    <3>3. server'.skus[k] = 0 /\ server'.spus = server.spus /\ server'.files = server.files
      BY <1>1, <2>1, <3>1 DEF Records
    <3> HIDE DEF j
    <3>4. Successor(job, j)
      BY <1>11, <3>1, <3>2, <3>3 DEF Successor
    <3>5. QED BY <1>1, <1>3, <1>4, <1>11, <2>1, <3>1, <3>3, <3>4, PutFrame
  <2>2. QED BY <1>5, <1>11, <2>1 DEF CallDelete
<1>12. CASE op = "sync" /\ job.syncs # <<>> /\ CallSync(i)
  <2> DEFINE k == Head(job.syncs)
             j == [job EXCEPT !.syncs = Tail(@)]
  <2>1. CASE server' \in {server, [server EXCEPT !.skus[k] = Cap(@ + 1)]} /\ jobs' = Put(i, j) /\ UNCHANGED <<stage, media, form, hist>>
    <3>1. j \in Job /\ k \in Variants
      BY <1>2, <1>12, NextJobs
    <3>2. j.edits = job.edits /\ j.dels = job.dels /\ j.ops = job.ops /\ j.items = job.items /\ j.read = job.read
          /\ j.failed = job.failed
      BY <1>2 DEF Job
    <3>3. server'.spus = server.spus /\ server'.files = server.files
      BY <1>1, <2>1 DEF Records
    <3> HIDE DEF j
    <3>4. Successor(job, j)
      BY <1>12, <3>1, <3>2 DEF Successor
    <3>5. QED BY <1>1, <1>3, <1>4, <1>12, <2>1, <3>1, <3>3, <3>4, PutFrame
  <2>2. QED BY <1>5, <1>12, <2>1 DEF CallSync
<1>13. CASE op \in {"delete", "sync"} /\ jobs' = Put(i, Rest(job)) /\ UNCHANGED <<stage, media, form, hist, server>>
            /\ (op = "delete" => job.dels = <<>>)
  BY <1>6, <1>13
<1> HIDE DEF op
<1>14. QED BY <1>7, <1>8, <1>9, <1>10, <1>11, <1>12, <1>13 DEF Run, op

LEMMA SpuFramed ==
    ASSUME FormTypes, NEW i \in DOMAIN jobs, Head(jobs[i].ops) = "spu", CallSpu(i)
    PROVE  Framed(jobs[i])
<1> DEFINE job == jobs[i]
<1>1. form \in Fields /\ jobs \in Seq(Job) /\ hist \in Past /\ server \in Records
  BY DEF FormTypes
<1>2. job \in Job
  BY <1>1
<1>3. ASSUME NEW n \in Nat, jobs' = Put(i, [Rest(job) EXCEPT !.spu = n]) PROVE JobFrame(job)
  <2> DEFINE j == [Rest(job) EXCEPT !.spu = n]
  <2>1. j \in Job
    BY <1>2, NextJobs
  <2>2. Rest(job) \in Job /\ Rest(job).ops = Tail(job.ops)
    BY <1>2, RestTyped
  <2>3. j.edits = job.edits /\ j.dels = job.dels /\ j.ops = Tail(job.ops) /\ j.items = job.items /\ j.read = job.read
        /\ j.failed = job.failed
    BY <1>2, <2>2 DEF Job, Rest
  <2> HIDE DEF j
  <2>4. Successor(job, j)
    BY <2>1, <2>3 DEF Successor
  <2>5. QED BY <1>1, <1>3, <2>1, <2>4, PutFrame DEF j
<1>4. CASE Create(i) /\ UNCHANGED <<stage, media, hist>>
  <2>1. JobFrame(job) /\ FormFrame /\ server'.skus = server.skus /\ server'.files = server.files
    <3>1. CASE form.created # 0
      <4>1. form.created \in Nat /\ jobs' = Put(i, [Rest(job) EXCEPT !.spu = form.created]) /\ UNCHANGED <<server, form>>
        BY <1>1, <1>4, <3>1 DEF Create, Fields
      <4>2. QED BY <1>3, <4>1 DEF FormFrame
    <3>2. CASE form.created = 0
      <4>1. server.spus + 1 \in Nat
        BY <1>1 DEF Records
      <4>2. /\ jobs' = Put(i, [Rest(job) EXCEPT !.spu = server.spus + 1])
            /\ server' = [server EXCEPT !.spus = Cap(@ + 1)] /\ form' = [form EXCEPT !.created = server.spus + 1]
        BY <1>4, <3>2 DEF Create
      <4>3. QED BY <1>1, <1>3, <4>1, <4>2 DEF FormFrame, Fields, Records
    <3>3. QED BY <3>1, <3>2
  <2>2. HistFrame /\ HistKept /\ hist'.dropped = hist.dropped
    BY <1>1, <1>4, TroubleFrame
  <2>3. QED BY <1>4, <2>1, <2>2 DEF Framed, CallFrame
<1>5. CASE Throw(i) /\ hist' \in {Trouble, [Trouble EXCEPT !.lost = TRUE]}
           /\ server' \in {server, [server EXCEPT !.spus = Cap(@ + 1)]}
  <2>1. server'.skus = server.skus /\ server'.files = server.files
    BY <1>1, <1>5 DEF Records
  <2>2. HistFrame /\ HistKept /\ hist'.dropped = hist.dropped
    BY <1>1, <1>5, TroubleFrame
  <2>3. QED BY <1>5, <2>1, <2>2, ThrowFrame DEF Framed, CallFrame
<1>6. QED BY <1>4, <1>5 DEF CallSpu

LEMMA StageFramed ==
    ASSUME FormTypes, NEW i \in DOMAIN jobs, Head(jobs[i].ops) = "stage", ReadStage(i)
    PROVE  Framed(jobs[i])
<1> DEFINE job == jobs[i]
           j == [Rest(job) EXCEPT !.items = Uploadable(stage), !.read = ToSet(Uploadable(stage))]
<1>1. jobs \in Seq(Job) /\ hist \in Past
  BY DEF FormTypes
<1>2. job \in Job
  BY <1>1
<1>3. j \in Job
  BY <1>2, NextJobs, UploadableTyped DEF FormTypes
<1>4. Rest(job) \in Job /\ Rest(job).ops = Tail(job.ops)
  BY <1>2, RestTyped
<1>5. j.edits = job.edits /\ j.dels = job.dels /\ j.ops = Tail(job.ops) /\ j.failed = job.failed
      /\ j.items = Uploadable(stage) /\ j.read = ToSet(Uploadable(stage))
  BY <1>2, <1>4 DEF Job, Rest
<1>6. jobs' = Put(i, j) /\ UNCHANGED <<stage, form, server, media, hist>>
  BY DEF ReadStage
<1> HIDE DEF j
<1>7. Successor(job, j)
  BY <1>3, <1>5 DEF Successor
<1>8. JobFrame(job)
  BY <1>1, <1>3, <1>6, <1>7, PutFrame
<1>9. HistFrame /\ HistKept /\ hist'.dropped = hist.dropped /\ hist'.lost = hist.lost
  BY <1>1, <1>6, TroubleFrame
<1>10. QED BY <1>6, <1>8, <1>9 DEF Framed, CallFrame, FormFrame

LEMMA UploadFramed ==
    ASSUME FormTypes, NEW i \in DOMAIN jobs, Head(jobs[i].ops) = "upload", jobs[i].items # <<>>, CallUpload(i)
    PROVE  Framed(jobs[i])
<1> DEFINE job == jobs[i]
           m == Head(job.items)
           up == [job EXCEPT !.items = Tail(@)]
           missed == [job EXCEPT !.items = Tail(@), !.failed = TRUE]
<1>1. jobs \in Seq(Job) /\ hist \in Past /\ server \in Records
  BY DEF FormTypes
<1>2. job \in Job
  BY <1>1
<1>3. up \in Job /\ missed \in Job
  BY <1>2, NextJobs
<1>4. /\ up.edits = job.edits /\ up.dels = job.dels /\ up.ops = job.ops /\ up.items = Tail(job.items)
      /\ up.read = job.read /\ up.failed = job.failed
      /\ missed.edits = job.edits /\ missed.dels = job.dels /\ missed.ops = job.ops /\ missed.items = Tail(job.items)
      /\ missed.read = job.read /\ missed.failed
  BY <1>2 DEF Job
<1>5. \/ jobs' = Put(i, up) /\ stage' = Without(stage, m) /\ hist' = hist
      \/ jobs' = Put(i, missed) /\ hist' \in {Trouble, [Trouble EXCEPT !.lost = TRUE]}
  BY DEF CallUpload, Uploaded, deleteStagedItem
<1>6. UNCHANGED <<media, form>> /\ server' \in {server, [server EXCEPT !.files[m] = Cap(@ + 1)]}
  BY DEF CallUpload, Uploaded
<1> HIDE DEF up, missed
<1>7. JobFrame(job)
  <2>1. CASE jobs' = Put(i, up) /\ stage' = Without(stage, m)
    <3>1. Successor(job, up)
      BY <1>3, <1>4, <2>1 DEF Successor
    <3>2. QED BY <1>1, <1>3, <2>1, <3>1, PutFrame
  <2>2. CASE jobs' = Put(i, missed)
    <3>1. Successor(job, missed)
      BY <1>3, <1>4 DEF Successor
    <3>2. QED BY <1>1, <1>3, <2>2, <3>1, PutFrame
  <2>3. QED BY <1>5, <2>1, <2>2
<1>8. HistFrame /\ HistKept /\ hist'.dropped = hist.dropped
  BY <1>1, <1>5, TroubleFrame
<1>9. server'.spus = server.spus /\ server'.skus = server.skus
  BY <1>1, <1>6 DEF Records
<1>10. QED BY <1>6, <1>7, <1>8, <1>9 DEF Framed, CallFrame, FormFrame

LEMMA ClearFramed ==
    ASSUME FormTypes, NEW i \in DOMAIN jobs, Head(jobs[i].ops) = "clear", clearAllStaged(i)
    PROVE  Framed(jobs[i])
<1>1. hist \in Past /\ jobs' = Put(i, Rest(jobs[i])) /\ UNCHANGED <<form, media, server>>
  BY DEF FormTypes, clearAllStaged
<1>2. JobFrame(jobs[i])
  BY <1>1, RestFrame
<1>3. HistFrame /\ HistKept /\ hist'.lost = hist.lost
  BY <1>1 DEF clearAllStaged, Past, HistFrame, HistKept
<1>4. QED BY <1>1, <1>2, <1>3 DEF Framed, CallFrame, FormFrame

LEMMA FinishFramed ==
    ASSUME FormTypes, NEW i \in DOMAIN jobs, Head(jobs[i].ops) = "done", Finish(i)
    PROVE  Framed(jobs[i])
<1>1. hist \in Past /\ jobs \in Seq(Job) /\ jobs' = Ended(i) /\ UNCHANGED <<stage, media, server>>
  BY DEF FormTypes, Finish
<1>2. JobFrame(jobs[i])
  BY <1>1, EndedFrame
<1>3. HistKept /\ hist'.lost = hist.lost /\ hist'.dropped = hist.dropped
  BY <1>1 DEF Finish, Past, HistKept
<1>4. QED BY <1>1, <1>2, <1>3 DEF Framed, CallFrame

LEMMA RunFramed ==
    ASSUME FormTypes, NEW i \in DOMAIN jobs, Run(i)
    PROVE  Framed(jobs[i])
<1> DEFINE op == Head(jobs[i].ops)
<1>1. CASE op \notin {"done", "spu", "upload", "stage", "clear"}
  BY <1>1, CallsFramed
<1>2. CASE op = "done"
  BY <1>2, FinishFramed DEF Run
<1>3. CASE op = "spu"
  BY <1>3, SpuFramed DEF Run
<1>4. CASE op = "stage"
  BY <1>4, StageFramed DEF Run
<1>5. CASE op = "clear"
  BY <1>5, ClearFramed DEF Run
<1>6. CASE op = "upload"
  <2>1. CASE jobs[i].items = <<>>
    <3>1. jobs' = Put(i, Rest(jobs[i])) /\ UNCHANGED <<stage, media, form, hist, server>> /\ hist \in Past
      BY <1>6, <2>1 DEF Run, FormTypes
    <3>2. JobFrame(jobs[i])
      BY <1>6, <2>1, <3>1, RestFrame
    <3>3. QED BY <3>1, <3>2, TroubleFrame DEF Framed, CallFrame, FormFrame
  <2>2. CASE jobs[i].items # <<>>
    BY <1>6, <2>2, UploadFramed DEF Run
  <2>3. QED BY <2>1, <2>2
<1>7. QED BY <1>1, <1>2, <1>3, <1>4, <1>5, <1>6
\* The steps of the form that are no call.
LEMMA FieldsFramed ==
    ASSUME FormTypes,
           Loaded \/ Edit \/ addSKU \/ removeSKU \/ handleSyncTranslate \/ Translated
           \/ Navigate \/ handleConfirmLeave \/ handleCancelLeave \/ doSubmit \/ ForcedUnlock
    PROVE  /\ UNCHANGED <<stage, media, server>>
           /\ form'.created = form.created
           /\ hist'.used = hist.used /\ hist'.revived = hist.revived /\ hist'.dropped = hist.dropped
           /\ hist'.saved = hist.saved /\ hist'.published = hist.published /\ hist'.lost = hist.lost
           /\ hist'.overlap = hist.overlap \/ doSubmit
           /\ doSubmit \/ jobs' = jobs
<1>1. form \in Fields /\ hist \in Past
  BY DEF FormTypes
<1>2. UNCHANGED <<stage, media, server>>
  BY DEF Loaded, Edit, addSKU, removeSKU, handleSyncTranslate, Translated, Navigate, handleConfirmLeave, handleCancelLeave,
     doSubmit, ForcedUnlock
<1>3. form'.created = form.created
  <2>1. CASE Edit
    <3>1. "created" \notin Controls
      BY DEF Controls, BasicSection, OrgSection, VariantSection, ScheduleSection
    <3>2. QED BY <1>1, <2>1, <3>1 DEF Edit, markDirty, Fields
  <2>2. CASE doSubmit
    BY <1>1, <2>2 DEF doSubmit, Fields
  <2>3. CASE Loaded \/ addSKU \/ removeSKU \/ handleSyncTranslate \/ Translated
    BY <1>1, <2>3 DEF Loaded, addSKU, removeSKU, handleSyncTranslate, Translated, markDirty, Fields
  <2>4. CASE Navigate \/ handleConfirmLeave \/ handleCancelLeave \/ ForcedUnlock
    BY <1>1, <2>4 DEF Navigate, Navigated, handleConfirmLeave, handleCancelLeave, ForcedUnlock, Fields
  <2>5. QED BY <2>1, <2>2, <2>3, <2>4
<1>4. /\ hist'.used = hist.used /\ hist'.revived = hist.revived /\ hist'.dropped = hist.dropped
      /\ hist'.saved = hist.saved /\ hist'.published = hist.published /\ hist'.lost = hist.lost
      /\ hist'.overlap = hist.overlap \/ doSubmit
  BY <1>1 DEF Loaded, Edit, addSKU, removeSKU, handleSyncTranslate, Translated, Navigate, handleConfirmLeave, handleCancelLeave,
     doSubmit, ForcedUnlock, Past
<1>5. doSubmit \/ jobs' = jobs
  BY DEF Loaded, Edit, addSKU, removeSKU, handleSyncTranslate, Translated, Navigate, handleConfirmLeave, handleCancelLeave,
     ForcedUnlock
<1>6. QED BY <1>2, <1>3, <1>4, <1>5

\* A step of a form is an edit, or a call of one of its submissions.
LEMMA FormSteps ==
    ASSUME TypeOK, Next, screen \in FormScreens
    PROVE  /\ FormTypes /\ screen' = screen
           /\ \/ screen = "new" /\ DeskNext /\ UNCHANGED <<form, jobs, aux>>
              \/ (\E i \in DOMAIN jobs : Run(i)) /\ ~form.left
              \/ Loaded \/ Edit \/ addSKU \/ removeSKU \/ handleSyncTranslate \/ Translated
                 \/ Navigate \/ handleConfirmLeave \/ handleCancelLeave \/ doSubmit \/ ForcedUnlock
<1>1. FormTypes /\ screen' = screen
  BY ScreenStays DEF TypeOK, FormTypes, FormScreens
<1>2. QED BY <1>1 DEF Next, FormNext, FormScreens

LEMMA DeskHist ==
    ASSUME TypeOK, DeskNext, screen \in {"stage", "new"}
    PROVE  /\ hist'.saved = hist.saved /\ hist'.during = hist.during /\ hist'.asked = hist.asked
           /\ hist'.published = hist.published /\ hist'.lost = hist.lost /\ hist'.overlap = hist.overlap
           /\ hist'.dropped = hist.dropped
<1> USE DEF Past
<1>1. hist \in Past /\ media \in Desk /\ Creating
  BY DEF TypeOK, Creating
<1>2. CASE Drop
  <2>1. \E picked \in SUBSET Media : hist' = [hist EXCEPT !.used = @ \cup picked]
    BY <1>1, <1>2, DropFacts DEF Desk
  <2>2. QED BY <1>1, <2>1
<1>3. CASE handleExtractFrames \/ handleDragEnd
  BY <1>1, <1>3 DEF handleExtractFrames, handleDragEnd
<1>4. CASE handleRemove \/ handleConfirmDeleteActive
  <2>1. ToSet(media.saved) = {} /\ media.doomed = NoMedia
    BY <1>1 DEF Desk, ToSet
  <2>2. QED BY <1>1, <1>4, <2>1 DEF handleRemove, handleConfirmDeleteActive
<1>5. CASE Prepare \/ handleCropConfirm \/ handleSkip \/ CloseImageDialog \/ OpenVideoDialog \/ CloseVideoDialog
           \/ ConfirmVideo \/ CancelDelete
  BY <1>1, <1>5 DEF Prepare, handleCropConfirm, handleSkip, CloseImageDialog, OpenVideoDialog, CloseVideoDialog,
     ConfirmVideo, CancelDelete
<1>6. QED BY <1>2, <1>3, <1>4, <1>5 DEF DeskNext

-----------------------------------------------------------------------------
\* Until it is published, and while no answer of a create is lost, a product that
\* the form has created is remembered.
OneProduct == screen = "new" /\ ~hist.lost /\ ~hist.published =>
  server.spus <= 1 /\ (form.created = 0 => server.spus = 0)

LEMMA OneProductNext == TypeOK /\ OneProduct /\ [Next]_vars => OneProduct'
<1> SUFFICES ASSUME TypeOK, OneProduct, [Next]_vars, screen' = "new", ~hist'.lost, ~hist'.published
             PROVE  server'.spus <= 1 /\ (form'.created = 0 => server'.spus = 0)
  BY DEF OneProduct
<1>1. CASE UNCHANGED vars
  BY <1>1 DEF vars, OneProduct
<1>2. ASSUME Next
      PROVE  server'.spus <= 1 /\ (form'.created = 0 => server'.spus = 0)
  <2>0. screen = "new" /\ screen \in FormScreens
    BY ScreenStays DEF FormScreens
  <2>1. FormTypes
    BY <1>2, <2>0, FormSteps
  <2>2. CASE DeskNext /\ UNCHANGED <<form, jobs, aux>>
    BY <2>0, <2>2, DeskHist, DeskKeepsRest DEF OneProduct
  <2>3. ASSUME NEW i \in DOMAIN jobs, Run(i) PROVE server'.spus <= 1 /\ (form'.created = 0 => server'.spus = 0)
    <3> DEFINE op == Head(jobs[i].ops)
    <3>1. Framed(jobs[i])
      BY <2>1, <2>3, RunFramed
    <3>2. CASE op = "spu"
      <4>1. CallSpu(i) /\ server \in Records /\ form \in Fields /\ hist \in Past
        BY <2>1, <2>3, <3>2 DEF Run, FormTypes
      <4>2. CASE Create(i) /\ UNCHANGED <<stage, media, hist>>
        <5>1. OneProduct /\ ~hist.lost /\ ~hist.published /\ server.spus <= 1 /\ (form.created = 0 => server.spus = 0)
          BY <2>0, <4>2 DEF OneProduct
        <5>2. CASE form.created # 0
          BY <5>1, <5>2, <4>2 DEF Create
        <5>3. CASE form.created = 0
          BY <4>1, <5>1, <5>3, <4>2 DEF Create, Cap, Records, Fields
        <5>4. QED BY <5>2, <5>3
      <4>3. CASE Throw(i) /\ hist' = Trouble /\ UNCHANGED server
        <5>1. form'.created = form.created
          BY <2>1, <4>3, ThrowFrame
        <5>2. hist'.lost = hist.lost /\ hist'.published = hist.published
          BY <4>1, <4>3 DEF Trouble, Past
        <5>3. QED BY <2>0, <4>3, <5>1, <5>2 DEF OneProduct
      <4>4. CASE hist' = [Trouble EXCEPT !.lost = TRUE]
        BY <4>1, <4>4 DEF Trouble, Past
      <4>5. QED BY <4>1, <4>2, <4>3, <4>4 DEF CallSpu
    <3>3. CASE op = "done"
      <4>1. Finish(i) /\ hist \in Past /\ form \in Fields
        BY <2>1, <2>3, <3>3 DEF Run, FormTypes
      <4>2. ~jobs[i].publish /\ ~hist.published
        BY <4>1 DEF Finish, Past
      <4>3. form'.created = form.created
        BY <4>1, <4>2 DEF Finish, Stopped, Fields
      <4>4. server' = server /\ hist'.lost = hist.lost
        BY <4>1, <3>1, <3>3 DEF Finish, Framed, CallFrame
      <4>5. QED BY <2>0, <4>2, <4>3, <4>4 DEF OneProduct
    <3>4. CASE op \notin {"spu", "done"}
      <4>1. server'.spus = server.spus /\ form'.created = form.created /\ hist'.published = hist.published
        BY <3>1, <3>4 DEF Framed, CallFrame, HistFrame
      <4>2. ~hist.lost
        <5>1. CASE op # "upload"
          BY <3>1, <3>4, <5>1 DEF Framed, CallFrame
        <5>2. CASE op = "upload"
          <6>1. hist' = hist \/ hist' = Trouble \/ hist' = [Trouble EXCEPT !.lost = TRUE]
            BY <2>3, <5>2 DEF Run, CallUpload
          <6>2. hist \in Past
            BY <2>1 DEF FormTypes
          <6>3. QED BY <6>1, <6>2 DEF Trouble, Past
        <5>3. QED BY <5>1, <5>2
      <4>3. QED BY <2>0, <4>1, <4>2 DEF OneProduct
    <3>5. QED BY <3>2, <3>3, <3>4
  <2>4. CASE Loaded \/ Edit \/ addSKU \/ removeSKU \/ handleSyncTranslate \/ Translated
             \/ Navigate \/ handleConfirmLeave \/ handleCancelLeave \/ doSubmit \/ ForcedUnlock
    BY <2>0, <2>1, <2>4, FieldsFramed DEF OneProduct
  <2>5. QED BY <1>2, <2>0, <2>2, <2>3, <2>4, FormSteps
<1>3. QED BY <1>1, <1>2

\* A new product is created once, however many attempts to save it fail, for any
\* number of submissions, files and variants (createdSpuIdRef in AdminProductForm.tsx).
THEOREM OneProductPerForm == Spec => []RetryReusesProduct
<1>1. Init => OneProduct
  BY DEF Init, InitDesk, OneProduct, Creating
<1>2. OneProduct => RetryReusesProduct
  BY DEF OneProduct, RetryReusesProduct
<1>3. TypeOK /\ OneProduct /\ [Next]_vars => OneProduct'
  BY OneProductNext
<1>4. QED BY <1>1, <1>2, <1>3, TypesHold, PTL DEF Spec
-----------------------------------------------------------------------------
\* An edit is counted and marks the form; no other step of the form does.
Edited ==
  /\ form'.edits = form.edits + 1 /\ form'.dirty /\ ~form'.left /\ jobs' = jobs
  /\ hist'.during = (hist.during \/ jobs # <<>>)
Unedited ==
  /\ form'.edits = form.edits /\ form'.dirty = form.dirty /\ hist'.during = hist.during
  /\ hist.asked => hist'.asked
  /\ form'.left => form.left \/ ~form.dirty \/ hist'.asked
  /\ Removed' \in {{}, Removed}

LEMMA EditMarks ==
    ASSUME FormTypes,
           Loaded \/ Edit \/ addSKU \/ removeSKU \/ handleSyncTranslate \/ Translated
           \/ Navigate \/ handleConfirmLeave \/ handleCancelLeave \/ doSubmit \/ ForcedUnlock
    PROVE  Edited \/ Unedited
<1>1. form \in Fields /\ hist \in Past
  BY DEF FormTypes
<1>2. CASE Edit
  <2>1. "edits" \notin Controls /\ "dirty" \notin Controls /\ "left" \notin Controls
    BY DEF Controls, BasicSection, OrgSection, VariantSection, ScheduleSection
  <2>2. ~form.left /\ jobs' = jobs /\ hist'.during = (hist.during \/ jobs # <<>>)
    BY <1>1, <1>2 DEF Edit, Editing, Past
  <2>3. CASE form' = markDirty([form EXCEPT !.edits = @ + 1])
    BY <1>1, <2>2, <2>3 DEF markDirty, Fields, Edited
  <2>4. ASSUME NEW f \in Controls, form' = markDirty([form EXCEPT ![f] = ~@, !.edits = @ + 1]) PROVE Edited
    <3>1. f # "edits" /\ f # "dirty" /\ f # "left"
      BY <2>1
    <3>2. form'.edits = form.edits + 1 /\ form'.dirty /\ ~form'.left
      BY <1>1, <2>2, <2>4, <3>1 DEF markDirty, Fields
    <3>3. QED BY <2>2, <3>2 DEF Edited
  <2>5. QED BY <1>2, <2>3, <2>4 DEF Edit
<1>3. CASE addSKU \/ removeSKU
  BY <1>1, <1>3 DEF addSKU, removeSKU, Editing, markDirty, Fields, Past, Edited
<1>4. CASE Translated
  <2>1. CASE form' = markDirty([form EXCEPT !.translating = FALSE, !.edits = @ + 1])
             /\ hist' = [hist EXCEPT !.during = @ \/ jobs # <<>>]
    BY <1>1, <1>4, <2>1 DEF Translated, markDirty, Fields, Past, Edited
  <2>2. CASE form' = [form EXCEPT !.translating = FALSE] /\ UNCHANGED hist
    BY <1>1, <1>4, <2>2 DEF Translated, Fields, Unedited, Removed
  <2>3. QED BY <1>4, <2>1, <2>2 DEF Translated
<1>5. CASE Loaded
  <2>1. hist' = hist /\ ~form.left
    BY <1>5 DEF Loaded
  <2>2. CASE form' = [form EXCEPT !.loading = FALSE, !.filled = TRUE, !.showcase = FALSE, !.skus = OldVariants, !.original = OldVariants]
    <3>1. form'.skus = OldVariants /\ form'.original = OldVariants
      BY <1>1, <2>2 DEF Fields
    <3>2. form'.edits = form.edits /\ form'.dirty = form.dirty /\ form'.left = form.left
      BY <1>1, <2>2 DEF Fields
    <3>3. QED BY <2>1, <3>1, <3>2 DEF Unedited, Removed
  <2>3. CASE form' = [form EXCEPT !.loading = FALSE, !.said = "error"]
    BY <1>1, <2>1, <2>3 DEF Fields, Unedited, Removed
  <2>4. QED BY <1>5, <2>2, <2>3 DEF Loaded
<1>6. CASE handleSyncTranslate \/ handleCancelLeave \/ ForcedUnlock
  BY <1>1, <1>6 DEF handleSyncTranslate, handleCancelLeave, ForcedUnlock, Fields, Unedited, Removed
<1>7. CASE Navigate
  BY <1>1, <1>7 DEF Navigate, Navigated, Fields, Unedited, Removed
<1>8. CASE handleConfirmLeave
  BY <1>1, <1>8 DEF handleConfirmLeave, Fields, Past, Unedited, Removed
<1>9. CASE doSubmit
  <2>1. \/ form' = [form EXCEPT !.said = "error"] /\ UNCHANGED hist
        \/ /\ \E publish \in BOOLEAN : form' = [form EXCEPT !.said = "nothing", !.pending = {Button(publish)}]
           /\ hist' = [hist EXCEPT !.saves = @ + 1, !.overlap = @ \/ jobs # <<>>]
    BY <1>9 DEF doSubmit
  <2>2. hist'.during = hist.during /\ hist'.asked = hist.asked
    BY <1>1, <2>1 DEF Past
  <2>3. /\ form'.edits = form.edits /\ form'.dirty = form.dirty /\ form'.left = form.left
        /\ form'.skus = form.skus /\ form'.original = form.original
    BY <1>1, <2>1 DEF Fields
  <2>4. QED BY <2>2, <2>3 DEF Unedited, Removed
<1>10. QED BY <1>2, <1>3, <1>4, <1>5, <1>6, <1>7, <1>8, <1>9

LEMMA SubmitAdds ==
    ASSUME TypeOK, FormTypes, doSubmit
    PROVE  /\ form'.edits = form.edits /\ form'.skus = form.skus /\ form'.original = form.original
           /\ \/ jobs' = jobs /\ hist'.overlap = hist.overlap
              \/ /\ \E publish \in BOOLEAN : ToSet(jobs') = ToSet(jobs) \cup {Submission(publish)}
                 /\ Len(jobs') = Len(jobs) + 1 /\ hist'.overlap = (hist.overlap \/ jobs # <<>>)
<1>1. form \in Fields /\ hist \in Past /\ jobs \in Seq(Job)
  BY DEF FormTypes
<1>2. PICK publish \in BOOLEAN :
       \/ form' = [form EXCEPT !.said = "error"] /\ UNCHANGED <<jobs, hist>>
       \/ /\ form' = [form EXCEPT !.said = "nothing", !.pending = {Button(publish)}]
          /\ jobs' = Append(jobs, Submission(publish))
          /\ hist' = [hist EXCEPT !.saves = @ + 1, !.overlap = @ \/ jobs # <<>>]
  BY Zenon DEF doSubmit
<1>3. ToSet(Append(jobs, Submission(publish))) = ToSet(jobs) \cup {Submission(publish)}
      /\ Len(Append(jobs, Submission(publish))) = Len(jobs) + 1
  BY <1>1, SubmissionTyped, AppendFacts
<1>4. form'.edits = form.edits /\ form'.skus = form.skus /\ form'.original = form.original
  BY <1>1, <1>2 DEF Fields
<1>5. (jobs' = jobs /\ hist' = hist) \/ hist'.overlap = (hist.overlap \/ jobs # <<>>)
  BY <1>1, <1>2 DEF Past
<1>6. QED BY <1>2, <1>3, <1>4, <1>5

LEMMA NoJobs == ToSet(<<>>) = {}
BY DEF ToSet

\* What is saved or being saved is an earlier state of the form, or this one; a form
\* that is not marked has been saved.
EditsKept ==
  /\ screen \notin FormScreens => ~form.left
  /\ screen \in FormScreens =>
       /\ hist.saved <= form.edits
       /\ \A job \in ToSet(jobs) : job.edits <= form.edits /\ (job.edits = form.edits \/ hist.during)
       /\ form.dirty \/ hist.saved = form.edits \/ hist.during
       /\ form.left => hist.asked \/ hist.saved = form.edits \/ hist.during

LEMMA EditsKeptInit == Init => EditsKept
<1> SUFFICES ASSUME Init PROVE EditsKept
  OBVIOUS
<1>1. jobs = <<>> /\ ToSet(jobs) = {} /\ hist.saved = 0
  BY NoJobs DEF Init, InitForm, InitHist
<1>2. CASE screen = "new" /\ \E f, p \in BOOLEAN : form = markDirty([BlankForm(FALSE) EXCEPT !.filled = f, !.priced = p, !.edits = 1])
  <2>1. form.edits = 1 /\ form.dirty /\ ~form.left
    BY <1>2 DEF markDirty, BlankForm
  <2>2. QED BY <1>1, <1>2, <2>1 DEF EditsKept
<1>3. CASE screen # "new" /\ form = BlankForm(screen = "edit")
  BY <1>1, <1>3 DEF EditsKept, BlankForm
<1>4. QED BY <1>2, <1>3 DEF Init, InitForm

LEMMA EditsKeptNext == TypeOK /\ EditsKept /\ [Next]_vars => EditsKept'
<1> SUFFICES ASSUME TypeOK, EditsKept, [Next]_vars PROVE EditsKept'
  OBVIOUS
<1>1. CASE UNCHANGED <<screen, hist, form, jobs>>
  BY <1>1 DEF EditsKept
<1>2. CASE screen \notin FormScreens /\ Next
  BY <1>2, ScreenStays DEF EditsKept, Next, FormScreens
<1>3. ASSUME screen \in FormScreens, Next PROVE EditsKept'
  <2>1. FormTypes /\ screen' = screen
    BY <1>3, FormSteps
  <2>2. /\ hist.saved \in Nat /\ form.edits \in Nat /\ \A job \in ToSet(jobs) : job \in Job /\ job.edits \in Nat
        /\ jobs \in Seq(Job) /\ form \in Fields /\ hist \in Past
    <3>1. jobs \in Seq(Job) /\ form \in Fields /\ hist \in Past
      BY <2>1 DEF FormTypes
    <3>2. \A job \in ToSet(jobs) : job \in Job
      BY <3>1, ToSetFacts
    <3>3. QED BY <3>1, <3>2 DEF Fields, Past, Job
  <2>3. CASE DeskNext /\ UNCHANGED <<form, jobs, aux>> /\ screen = "new"
    BY <1>3, <2>1, <2>3, DeskHist DEF EditsKept
  <2>4. ASSUME NEW i \in DOMAIN jobs, Run(i), ~form.left PROVE EditsKept'
    <3> DEFINE op == Head(jobs[i].ops)
    <3>1. Framed(jobs[i]) /\ jobs[i] \in ToSet(jobs)
      BY <2>1, <2>4, <2>2, RunFramed, ToSetFacts
    <3>2. \A j \in ToSet(jobs') : \E job \in ToSet(jobs) : j.edits = job.edits
      BY <3>1 DEF Framed, JobFrame, Successor
    <3>3. CASE op # "done"
      BY <1>3, <2>1, <2>4, <3>1, <3>2, <3>3 DEF EditsKept, Framed, FormFrame, HistFrame
    <3>4. CASE op = "done"
      <4>1. Finish(i) /\ jobs[i].edits \in Nat /\ hist.saved \in Nat
        BY <2>2, <2>4, <3>1, <3>4 DEF Run
      <4>2. hist'.saved = (IF jobs[i].edits > hist.saved THEN jobs[i].edits ELSE hist.saved)
            /\ hist'.during = hist.during /\ hist'.asked = hist.asked
        BY <2>2, <4>1 DEF Finish, Past
      <4>3. form'.edits = form.edits /\ (form'.left => ~form.dirty)
        BY <2>2, <2>4, <4>1 DEF Finish, Stopped, Navigated, Fields
      <4>4. /\ hist.saved <= form.edits /\ jobs[i].edits <= form.edits
            /\ jobs[i].edits = form.edits \/ hist.during
            /\ form.dirty \/ hist.saved = form.edits \/ hist.during
            /\ \A job \in ToSet(jobs) : job.edits <= form.edits /\ (job.edits = form.edits \/ hist.during)
        BY <1>3, <3>1 DEF EditsKept
      <4>5. hist'.saved <= form.edits /\ (hist'.saved = form.edits \/ hist.during)
        BY <2>2, <4>1, <4>2, <4>4
      <4>6. \A j \in ToSet(jobs') : j.edits <= form.edits /\ (j.edits = form.edits \/ hist.during)
        BY <3>2, <4>4
      <4>7. QED BY <1>3, <2>1, <4>2, <4>3, <4>5, <4>6 DEF EditsKept
    <3>5. QED BY <3>3, <3>4
  <2>5. CASE \/ Loaded \/ Edit \/ addSKU \/ removeSKU \/ handleSyncTranslate \/ Translated
             \/ Navigate \/ handleConfirmLeave \/ handleCancelLeave \/ doSubmit \/ ForcedUnlock
    <3>1. hist'.saved = hist.saved
      BY <2>1, <2>5, FieldsFramed
    <3>2. CASE Edited
      <4>1. ToSet(jobs') = ToSet(jobs) /\ (hist'.during \/ ToSet(jobs) = {})
        BY <3>2, NoJobs DEF Edited
      <4>2. /\ hist.saved <= form.edits /\ \A job \in ToSet(jobs) : job.edits <= form.edits
        BY <1>3 DEF EditsKept
      <4>3. /\ hist'.saved <= form'.edits /\ \A job \in ToSet(jobs') : job.edits <= form'.edits
        BY <2>2, <3>1, <3>2, <4>1, <4>2 DEF Edited
      <4>4. QED BY <1>3, <2>1, <3>2, <4>1, <4>3 DEF EditsKept, Edited
    <3>3. CASE Unedited
      <4>1. \A j \in ToSet(jobs') : j \in ToSet(jobs) \/ j.edits = form.edits
        <5>1. CASE doSubmit
          BY <2>1, <5>1, SubmitAdds DEF Submission
        <5>2. CASE ~doSubmit
          BY <2>1, <2>5, <5>2, FieldsFramed
        <5>3. QED BY <5>1, <5>2
      <4>2. \A j \in ToSet(jobs') : j.edits <= form'.edits /\ (j.edits = form'.edits \/ hist'.during)
        BY <1>3, <2>2, <3>3, <4>1 DEF EditsKept, Unedited
      <4>3. QED BY <1>3, <2>1, <3>1, <3>3, <4>2 DEF EditsKept, Unedited
    <3>4. QED BY <2>1, <2>5, <3>2, <3>3, EditMarks
  <2>6. QED BY <1>3, <2>3, <2>4, <2>5, FormSteps
<1>4. QED BY <1>1, <1>2, <1>3 DEF vars

\* A form is left silently only when all that was edited is saved, whatever fails and
\* for any number of edits (useBlocker and isDirty in AdminProductForm.tsx).
THEOREM LeavingAsks == Spec => []LeavesAsked
<1>1. EditsKept => LeavesAsked
  BY DEF EditsKept, LeavesAsked
<1>2. Init => EditsKept
  BY EditsKeptInit
<1>3. TypeOK /\ EditsKept /\ [Next]_vars => EditsKept'
  BY EditsKeptNext
<1>4. QED BY <1>1, <1>2, <1>3, TypesHold, PTL DEF Spec
-----------------------------------------------------------------------------
\* A removed variant is gone, or a submission of this state of the form has yet to
\* delete it; no submission of an existing product creates variants wholesale.
Going(job, k) == "delete" \in ToSet(job.ops) /\ k \in ToSet(job.dels)
DeletesDone == screen = "edit" =>
  /\ hist.saved = form.edits => \A k \in Removed : server.skus[k] = 0
  /\ \A job \in ToSet(jobs) :
       /\ "batch" \notin ToSet(job.ops)
       /\ job.edits = form.edits => \A k \in Removed : server.skus[k] = 0 \/ Going(job, k)

LEMMA SubmissionDeletes ==
    ASSUME TypeOK, screen = "edit", NEW publish \in BOOLEAN
    PROVE  /\ "batch" \notin ToSet(Submission(publish).ops)
           /\ \A k \in Removed : Going(Submission(publish), k)
<1>1. Submission(publish).ops = EditOps(publish) /\ Submission(publish).dels = SetToSeq(Removed)
  BY DEF Submission, Editable
<1>2. IsFiniteSet(Removed)
  <2>1. form.original \subseteq Variants
    BY DEF TypeOK, Fields
  <2>2. QED BY <2>1, FormAssumption, FS_Subset DEF Removed
<1>3. ToSet(SetToSeq(Removed)) = Removed
  BY <1>2, SetToSeqFacts
<1>4. QED BY <1>1, <1>3, OpsFacts DEF Going

\* No call brings a removed variant back.
LEMMA RemovedStay ==
    ASSUME FormTypes, NEW i \in DOMAIN jobs, Run(i), Head(jobs[i].ops) # "batch",
           NEW k \in form.original, server.skus[k] = 0
    PROVE  server'.skus[k] = 0
<1> DEFINE op == Head(jobs[i].ops)
<1>1. Framed(jobs[i]) /\ server \in Records /\ k \in Variants /\ jobs[i] \in Job
  BY RunFramed DEF FormTypes, Fields
<1>2. CASE op \notin {"delete", "sync"}
  BY <1>1, <1>2 DEF Framed, CallFrame
<1>3. CASE op = "delete"
  <2>1. server' = server \/ server' = [server EXCEPT !.skus[Head(jobs[i].dels)] = 0]
    BY <1>3 DEF Run, CallDelete
  <2>2. QED BY <1>1, <2>1 DEF Records
<1>4. CASE op = "sync"
  <2>1. \/ server' = server
        \/ /\ server' = [server EXCEPT !.skus[Head(jobs[i].syncs)] = Cap(@ + 1)]
           /\ Head(jobs[i].syncs) \notin form.original
    BY <1>4 DEF Run, CallSync
  <2>2. QED BY <1>1, <2>1 DEF Records
<1>5. QED BY <1>2, <1>3, <1>4

\* A submission that goes on still deletes what it did not delete yet.
LEMMA GoingOn ==
    ASSUME NEW job \in Job, NEW j, Successor(job, j), NEW k, Going(job, k)
    PROVE  Going(j, k) \/ server'.skus[k] = 0
<1> DEFINE op == Head(job.ops)
<1>1. job.ops \in Turns /\ job.dels \in Seq(Variants)
  BY DEF Job
<1>2. ToSet(Tail(job.ops)) = ToSet(job.ops) \ {op}
  BY <1>1, TurnFacts
<1>3. job.dels # <<>> => ToSet(job.dels) = {Head(job.dels)} \cup ToSet(Tail(job.dels))
  BY <1>1, TailFacts
<1>4. job.dels # <<>>
  BY NoJobs DEF Going
<1>5. QED BY <1>2, <1>3, <1>4, NoJobs DEF Successor, Going

LEMMA DeletesDoneNext == TypeOK /\ EditsKept /\ DeletesDone /\ [Next]_vars => DeletesDone'
<1> SUFFICES ASSUME TypeOK, EditsKept, DeletesDone, [Next]_vars, screen' = "edit" PROVE DeletesDone'
  BY DEF DeletesDone
<1>1. CASE UNCHANGED <<screen, hist, form, jobs, server>>
  BY <1>1 DEF DeletesDone, Removed
<1>2. ASSUME Next PROVE DeletesDone'
  <2>0. screen = "edit" /\ screen \in FormScreens
    BY <1>2, ScreenStays DEF FormScreens
  <2>1. FormTypes /\ form \in Fields /\ jobs \in Seq(Job) /\ hist \in Past
    BY <1>2, <2>0, FormSteps DEF FormTypes
  <2>2. /\ hist.saved = form.edits => \A k \in Removed : server.skus[k] = 0
        /\ \A job \in ToSet(jobs) : "batch" \notin ToSet(job.ops) /\ job \in Job
        /\ \A job \in ToSet(jobs) : job.edits = form.edits => \A k \in Removed : server.skus[k] = 0 \/ Going(job, k)
    BY <2>0, <2>1, ToSetFacts DEF DeletesDone
  <2>3. ASSUME NEW i \in DOMAIN jobs, Run(i) PROVE DeletesDone'
    <3> DEFINE job == jobs[i]
               op == Head(job.ops)
    <3>1. Framed(job) /\ job \in ToSet(jobs) /\ job \in Job
      BY <2>1, <2>3, RunFramed, ToSetFacts
    <3>2. job.ops \in Turns /\ op \in ToSet(job.ops) /\ ToSet(Tail(job.ops)) \subseteq ToSet(job.ops)
          /\ (op = "done" => ToSet(job.ops) = {"done"})
      <4>1. job.ops \in Turns
        BY <3>1 DEF Job
      <4>2. QED BY <4>1, TurnFacts
    <3>3. op # "batch"
      BY <2>2, <3>1, <3>2
    <3>4. \A k \in Removed : server.skus[k] = 0 => server'.skus[k] = 0
      BY <2>1, <2>3, <3>3, RemovedStay DEF Removed
    <3>5. form'.edits = form.edits /\ Removed' = Removed
      <4>1. CASE op # "done"
        BY <3>1, <4>1 DEF Framed, FormFrame, Removed
      <4>2. CASE op = "done"
        <5>1. Finish(i)
          BY <2>3, <4>2 DEF Run
        <5>2. form'.edits = form.edits /\ form'.skus = form.skus /\ form'.original = form.original
          BY <2>1, <5>1 DEF Finish, Stopped, Navigated, Fields
        <5>3. QED BY <5>2 DEF Removed
      <4>3. QED BY <4>1, <4>2
    <3>6. \A j \in ToSet(jobs') : j \in ToSet(jobs) \/ Successor(job, j)
      BY <3>1 DEF Framed, JobFrame
    <3>7. ASSUME NEW j \in ToSet(jobs')
          PROVE  /\ "batch" \notin ToSet(j.ops)
                 /\ j.edits = form.edits => \A k \in Removed : server'.skus[k] = 0 \/ Going(j, k)
      <4>1. CASE j \in ToSet(jobs)
        BY <2>2, <3>4, <4>1
      <4>2. CASE Successor(job, j)
        <5>1. j.edits = job.edits /\ (j.ops = job.ops \/ j.ops = Tail(job.ops))
          BY <4>2 DEF Successor
        <5>2. \A k \in Removed : Going(job, k) => Going(j, k) \/ server'.skus[k] = 0
          BY <3>1, <4>2, GoingOn
        <5>3. QED BY <2>2, <3>1, <3>2, <3>4, <5>1, <5>2
      <4>3. QED BY <3>6, <4>1, <4>2
    <3>8. hist'.saved = form.edits => \A k \in Removed : server'.skus[k] = 0
      <4>1. CASE op # "done"
        BY <2>2, <3>1, <3>4, <4>1 DEF Framed, HistFrame
      <4>2. CASE op = "done"
        <5>1. hist'.saved \in {hist.saved, job.edits}
          BY <2>1, <2>3, <4>2 DEF Run, Finish, Past
        <5>2. job.edits = form.edits => \A k \in Removed : server.skus[k] = 0
          BY <2>2, <3>1, <3>2, <4>2 DEF Going
        <5>3. QED BY <2>2, <3>4, <5>1, <5>2
      <4>3. QED BY <4>1, <4>2
    <3>9. QED BY <3>5, <3>7, <3>8 DEF DeletesDone, Going
  <2>4. CASE \/ Loaded \/ Edit \/ addSKU \/ removeSKU \/ handleSyncTranslate \/ Translated
             \/ Navigate \/ handleConfirmLeave \/ handleCancelLeave \/ doSubmit \/ ForcedUnlock
    <3>1. hist'.saved = hist.saved /\ server' = server /\ (doSubmit \/ jobs' = jobs)
      BY <2>1, <2>4, FieldsFramed
    <3>2. CASE Edited
      <4>1. hist.saved <= form.edits /\ \A job \in ToSet(jobs) : job.edits <= form.edits
        BY <2>0 DEF EditsKept
      <4>2. hist.saved \in Nat /\ form.edits \in Nat /\ \A job \in ToSet(jobs) : job.edits \in Nat
        BY <2>1, <2>2 DEF Fields, Past, Job
      <4>3. hist'.saved # form'.edits /\ \A job \in ToSet(jobs) : job.edits # form'.edits
        BY <3>1, <3>2, <4>1, <4>2 DEF Edited
      <4>4. QED BY <2>2, <3>2, <4>3 DEF DeletesDone, Edited
    <3>3. CASE Unedited /\ ~doSubmit
      BY <2>2, <3>1, <3>3 DEF DeletesDone, Unedited, Going
    <3>4. CASE doSubmit
      <4>1. PICK publish \in BOOLEAN : ToSet(jobs') \subseteq ToSet(jobs) \cup {Submission(publish)}
        BY <2>1, <3>4, SubmitAdds
      <4>2. form'.edits = form.edits /\ Removed' = Removed
        BY <2>1, <3>4, SubmitAdds DEF Removed
      <4>3. "batch" \notin ToSet(Submission(publish).ops) /\ \A k \in Removed : Going(Submission(publish), k)
        BY <2>0, SubmissionDeletes
      <4>4. QED BY <2>2, <3>1, <4>1, <4>2, <4>3 DEF DeletesDone, Going
    <3>5. QED BY <2>1, <2>4, <3>2, <3>3, <3>4, EditMarks
  <2>5. QED BY <1>2, <2>0, <2>3, <2>4, FormSteps
<1>3. QED BY <1>1, <1>2 DEF vars

\* When an existing product is said to be saved, the variants that were taken out of
\* the form are gone from the server, whatever overlaps and whatever fails
\* (doSubmit in AdminProductForm.tsx).
THEOREM RemovedVariantsGo == Spec => []RemovedIsGone
<1>1. Init => DeletesDone
  <2> SUFFICES ASSUME Init, screen = "edit" PROVE DeletesDone
    BY DEF DeletesDone
  <2>1. form.original = {} /\ ToSet(jobs) = {}
    BY NoJobs DEF Init, InitForm, BlankForm
  <2>2. QED BY <2>1 DEF DeletesDone, Removed
<1>2. DeletesDone => RemovedIsGone
  BY DEF DeletesDone, RemovedIsGone
<1>3. Init => EditsKept
  BY EditsKeptInit
<1>4. TypeOK /\ EditsKept /\ [Next]_vars => EditsKept'
  BY EditsKeptNext
<1>5. TypeOK /\ EditsKept /\ DeletesDone /\ [Next]_vars => DeletesDone'
  BY DeletesDoneNext
<1>6. QED BY <1>1, <1>2, <1>3, <1>4, <1>5, TypesHold, PTL DEF Spec
-----------------------------------------------------------------------------
(***************************************************************************)
(* Where a file is: on its way through the dialogs, or staged and beyond.  *)
(***************************************************************************)
\* The crop queue still gives files while its dialog is open or one is prepared; a
\* closed dialog leaves a queue that no step reads again.
Live(s) == s.prep # NoMedia \/ s.dialog = "image"
Ahead(s) == IF Live(s) THEN ToSet(Tail(s.queue)) ELSE {}
\* The files that may still be staged.
Usable(s) == ({s.prep, s.held} \ {NoMedia}) \cup Ahead(s)
Queued(s) ==
  /\ Distinct(s.queue)
  /\ Live(s) => s.queue # <<>>
  /\ s.prep # NoMedia => s.prep = Head(s.queue) /\ s.prep # s.held
  /\ s.held \notin Ahead(s)

LEMMA UsableTyped ==
    ASSUME NEW s \in Desk, Queued(s)
    PROVE  Usable(s) \in SUBSET Media /\ Ahead(s) \in SUBSET Media
<1>1. s.queue \in Seq(Media) /\ s.prep \in Media \cup {NoMedia} /\ s.held \in Media \cup {NoMedia}
  BY DEF Desk
<1>2. Ahead(s) \in SUBSET Media
  <2>1. CASE Live(s)
    <3>1. Tail(s.queue) \in Seq(Media)
      BY <1>1, <2>1 DEF Queued
    <3>2. QED BY <2>1, <3>1, ToSetFacts DEF Ahead
  <2>2. CASE ~Live(s)
    BY <2>2 DEF Ahead
  <2>3. QED BY <2>1, <2>2
<1>3. QED BY <1>1, <1>2 DEF Usable

\* The queue's next file.
LEMMA AdvanceFacts ==
    ASSUME NEW s \in Desk, Queued(s), Live(s)
    PROVE  /\ Queued(advanceQueue(s)) /\ Usable(advanceQueue(s)) \subseteq Usable(s)
           /\ Queued([advanceQueue(s) EXCEPT !.held = NoMedia])
           /\ Usable([advanceQueue(s) EXCEPT !.held = NoMedia]) \subseteq Ahead(s)
           /\ advanceQueue(s).shown = s.shown
<1> DEFINE rest == Tail(s.queue)
           a == advanceQueue(s)
           b == [a EXCEPT !.held = NoMedia]
<1>1. /\ s.queue \in Seq(Media) /\ s.queue # <<>> /\ NoMedia \notin Media
      /\ s.prep \in Media \cup {NoMedia} /\ s.held \in Media \cup {NoMedia}
  BY MediaAssumption DEF Desk, Queued
<1>2. rest \in Seq(Media) /\ Distinct(rest) /\ ToSet(rest) \in SUBSET Media
  BY <1>1, TailFacts, ToSetFacts DEF Queued
<1>3. rest # <<>> => /\ Head(rest) \in Media /\ ToSet(rest) = {Head(rest)} \cup ToSet(Tail(rest))
                     /\ Head(rest) \notin ToSet(Tail(rest))
  BY <1>2, TailFacts
<1>4. Ahead(s) = ToSet(rest)
  BY DEF Ahead
<1>5. /\ a = [s EXCEPT !.queue = rest, !.prep = IF rest = <<>> THEN NoMedia ELSE Head(rest),
                !.dialog = IF rest = <<>> THEN "none" ELSE @]
  BY <1>1 DEF advanceQueue
<1> HIDE DEF rest, a
<1>6. /\ a.queue = rest /\ a.prep = (IF rest = <<>> THEN NoMedia ELSE Head(rest)) /\ a.held = s.held /\ a.shown = s.shown
      /\ a.dialog = (IF rest = <<>> THEN "none" ELSE s.dialog)
      /\ b.queue = a.queue /\ b.prep = a.prep /\ b.held = NoMedia /\ b.dialog = a.dialog
  BY <1>5 DEF Desk
<1> HIDE DEF b
<1>7. s.held \notin ToSet(rest)
  BY <1>4 DEF Queued
<1>8. CASE rest = <<>>
  <2>1. Ahead(a) = {} /\ Ahead(b) = {} /\ ~Live(a) /\ ~Live(b)
    BY <1>6, <1>8 DEF Ahead, Live
  <2>2. Queued(a) /\ Queued(b)
    BY <1>2, <1>6, <1>8, <2>1 DEF Queued
  <2>3. Usable(a) \subseteq Usable(s) /\ Usable(b) = {}
    BY <1>6, <1>8, <2>1 DEF Usable
  <2>4. QED BY <1>6, <2>2, <2>3 DEF a, b
<1>9. CASE rest # <<>>
  <2>1. Ahead(a) = ToSet(Tail(rest)) /\ Ahead(b) = ToSet(Tail(rest)) /\ Live(a) /\ Live(b)
    BY <1>1, <1>3, <1>6, <1>9 DEF Ahead, Live
  <2>2. Queued(a) /\ Queued(b)
    BY <1>1, <1>2, <1>3, <1>6, <1>7, <1>9, <2>1 DEF Queued
  <2>3. Usable(a) \subseteq Usable(s) /\ Usable(b) \subseteq Ahead(s)
    BY <1>3, <1>4, <1>6, <1>9, <2>1 DEF Usable
  <2>4. QED BY <1>6, <2>2, <2>3 DEF a, b
<1>10. QED BY <1>8, <1>9

\* A dialog that closes, or another one that opens, leaves the queue alone.
LEMMA DialogFacts ==
    ASSUME NEW s \in Desk, Queued(s), NEW u, u.queue = s.queue, u.prep = s.prep, u.dialog # "image",
           NEW x, u.held = x, x = NoMedia \/ x \notin Usable(s)
    PROVE  Queued(u) /\ Usable(u) \subseteq Usable(s) \cup ({x} \ {NoMedia})
<1>1. Live(u) => Live(s)
  BY DEF Live
<1>2. Ahead(u) \subseteq Ahead(s)
  BY <1>1 DEF Ahead
<1>3. NoMedia \notin Ahead(s)
  BY UsableTyped, MediaAssumption
<1>4. x \notin Ahead(s) /\ (s.prep # NoMedia => s.prep # x)
  BY <1>3 DEF Usable
<1>5. Queued(u)
  BY <1>1, <1>2, <1>4 DEF Queued
<1>6. QED BY <1>2, <1>5 DEF Usable

\* A step of the desk: new files come in, and files that were on their way are staged.
Moves(picked, staged) ==
  /\ Queued(media')
  /\ picked \cap hist.used = {} /\ hist'.used = hist.used \cup picked
  /\ Usable(media') \subseteq Usable(media) \cup picked
  /\ staged \subseteq Usable(media) \ Usable(media')
  /\ ToSet(media'.shown) \subseteq ToSet(media.shown) \cup staged
  /\ ToSet(stage') \subseteq ToSet(stage) \cup ToSet(media.shown) \cup staged
  /\ hist.revived \subseteq hist'.revived
  /\ ToSet(stage') \ hist'.revived \subseteq ToSet(stage) \cup staged
  /\ Distinct(stage) /\ Distinct(media.shown) /\ (ToSet(stage) \cup ToSet(media.shown)) \cap staged = {} =>
       Distinct(stage') /\ Distinct(media'.shown)

\* Nothing is staged or dropped.
LEMMA QuietMoves ==
    ASSUME NEW picked, Queued(media'), picked \cap hist.used = {}, hist'.used = hist.used \cup picked,
           hist'.revived = hist.revived, Usable(media') \subseteq Usable(media) \cup picked,
           media'.shown = media.shown, stage' = stage
    PROVE  Moves(picked, {})
BY DEF Moves

LEMMA SwappedFacts ==
    ASSUME NEW D, NEW s \in Seq(D), NEW i \in DOMAIN s, NEW j \in DOMAIN s
    PROVE  /\ Swapped(s, i, j) \in Seq(D) /\ ToSet(Swapped(s, i, j)) \subseteq ToSet(s)
           /\ Distinct(s) => Distinct(Swapped(s, i, j))
<1> DEFINE u == Swapped(s, i, j)
           p(n) == IF n = j THEN i ELSE IF n = i THEN j ELSE n
<1>1. u \in Seq(D) /\ Len(u) = Len(s) /\ \A n \in 1..Len(s) : p(n) \in 1..Len(s) /\ u[n] = s[p(n)]
  BY DEF Swapped
<1>2. \A x, y \in 1..Len(s) : p(x) = p(y) => x = y
  OBVIOUS
<1> HIDE DEF u, p
<1>3. \A n \in 1..Len(s) : s[n] \in ToSet(s)
  BY ToSetFacts
<1>4. \A x \in ToSet(u) : \E n \in 1..Len(u) : u[n] = x
  BY <1>1, ToSetFacts
<1>5. ToSet(u) \subseteq ToSet(s)
  BY <1>1, <1>3, <1>4
<1>6. Distinct(s) => Distinct(u)
  <2> SUFFICES ASSUME Distinct(s), NEW x \in 1..Len(s), NEW y \in 1..Len(s), u[x] = u[y] PROVE x = y
    BY <1>1 DEF Distinct
  <2>1. p(x) \in 1..Len(s) /\ p(y) \in 1..Len(s) /\ s[p(x)] = s[p(y)]
    BY <1>1
  <2>2. p(x) = p(y)
    BY <2>1 DEF Distinct
  <2>3. QED BY <1>2, <2>2
<1>7. QED BY <1>1, <1>5, <1>6 DEF u
LEMMA DeskMoves ==
    ASSUME TypeOK, DeskNext, screen \in {"stage", "new"}, Queued(media), Usable(media) \subseteq hist.used
    PROVE  \E picked, staged \in SUBSET Media : Moves(picked, staged)
<1>1. /\ stage \in Seq(Media) /\ media \in Desk /\ hist \in Past /\ Creating /\ NoMedia \notin Media
      /\ media.shown \in Seq(Media) /\ media.held \in Media \cup {NoMedia} /\ media.prep \in Media \cup {NoMedia}
      /\ media.queue \in Seq(Media)
  BY MediaAssumption DEF TypeOK, Creating, Desk
<1>2. Usable(media) \in SUBSET Media /\ Ahead(media) \in SUBSET Media
  BY <1>1, UsableTyped
<1>4. CASE Drop
  <2>1. PICK queue \in Seq(Media), picked \in SUBSET Media :
             /\ queue # <<>> /\ Distinct(queue) /\ ToSet(queue) \subseteq picked /\ picked \cap hist.used = {}
             /\ media' = [media EXCEPT !.queue = queue, !.prep = Head(queue), !.dialog = "image"]
             /\ hist' = [hist EXCEPT !.used = @ \cup picked]
             /\ UNCHANGED <<screen, stage, server>>
    BY <1>1, <1>4, DropFacts
  <2>2. Head(queue) \in Media /\ ToSet(queue) = {Head(queue)} \cup ToSet(Tail(queue)) /\ Head(queue) \notin ToSet(Tail(queue))
    BY <2>1, TailFacts
  <2>3. /\ media'.queue = queue /\ media'.prep = Head(queue) /\ media'.dialog = "image" /\ media'.held = media.held
        /\ media'.shown = media.shown
    BY <1>1, <2>1 DEF Desk
  <2>4. hist'.used = hist.used \cup picked /\ hist'.revived = hist.revived
    BY <1>1, <2>1 DEF Past
  <2>5. Ahead(media') = ToSet(Tail(queue)) /\ Live(media')
    BY <2>3 DEF Ahead, Live
  <2>6. media.held # NoMedia => media.held \in hist.used
    BY DEF Usable
  <2>7. NoMedia \notin ToSet(queue)
    BY <1>1, <2>1
  <2>8. Queued(media')
    BY <1>1, <2>1, <2>2, <2>3, <2>5, <2>6, <2>7 DEF Queued
  <2>9. Usable(media') \subseteq Usable(media) \cup picked
    BY <2>1, <2>2, <2>3, <2>5 DEF Usable
  <2>10. Moves(picked, {})
    BY <2>1, <2>3, <2>4, <2>8, <2>9, QuietMoves
  <2>11. QED BY <2>1, <2>10
<1>5. ASSUME hist' = hist, stage' = stage, media'.shown = media.shown, Queued(media'), Usable(media') \subseteq Usable(media)
      PROVE  Moves({}, {})
  BY <1>5, QuietMoves
<1>6. CASE Prepare
  <2>1. media.prep # NoMedia /\ Live(media) /\ hist' = hist /\ stage' = stage
    BY <1>6 DEF Prepare, Live
  <2>2. media.queue # <<>> /\ media.prep = Head(media.queue)
    BY <2>1 DEF Queued
  <2>3. CASE media' = [media EXCEPT !.prep = NoMedia, !.held = media.prep]
    <3>1. /\ media'.prep = NoMedia /\ media'.held = media.prep /\ media'.queue = media.queue /\ media'.dialog = media.dialog
          /\ media'.shown = media.shown
      BY <1>1, <2>3 DEF Desk
    <3>2. Ahead(media') \subseteq Ahead(media) /\ (Live(media') => Live(media))
      BY <2>1, <3>1 DEF Ahead, Live
    <3>3. Head(media.queue) \notin ToSet(Tail(media.queue))
      BY <1>1, <2>2, TailFacts DEF Queued
    <3>4. media.prep \notin Ahead(media')
      BY <2>2, <3>1, <3>3 DEF Ahead
    <3>5. Queued(media')
      BY <3>1, <3>2, <3>4 DEF Queued
    <3>6. Usable(media') \subseteq Usable(media)
      BY <2>1, <3>1, <3>2 DEF Usable
    <3>7. QED BY <1>5, <2>1, <3>1, <3>5, <3>6
  <2>4. CASE media' = advanceQueue(media)
    BY <1>1, <1>5, <2>1, <2>4, AdvanceFacts
  <2>5. QED BY <1>6, <2>2, <2>3, <2>4 DEF Prepare
<1>7. CASE handleCropConfirm
  <2> DEFINE m == media.held
             s == [advanceQueue(media) EXCEPT !.held = NoMedia]
  <2>1. media.dialog = "image" /\ m \in Media /\ m # NoMedia /\ hist' = hist /\ Live(media)
    BY <1>1, <1>7 DEF handleCropConfirm, Live
  <2>2. Queued(s) /\ Usable(s) \subseteq Ahead(media) /\ s.shown = media.shown /\ s \in Desk
    <3>1. advanceQueue(media).shown = media.shown /\ Queued(s) /\ Usable(s) \subseteq Ahead(media)
      BY <1>1, <2>1, AdvanceFacts
    <3>2. advanceQueue(media) \in Desk
      BY <1>1, <2>1, AdvanceTyped DEF Queued
    <3> HIDE DEF s
    <3>3. s.shown = advanceQueue(media).shown /\ s \in Desk
      BY <3>2, <1>1 DEF s, Desk
    <3>4. QED BY <3>1, <3>3
  <2>3. m \in Usable(media) /\ m \notin Ahead(media) /\ Ahead(media) \subseteq Usable(media)
    BY <2>1 DEF Usable, Queued
  <2>4. \/ stage' = Append(stage, m) /\ media' = [s EXCEPT !.shown = Append(@, m)]
        \/ stage' = stage /\ media' = s
    BY <1>7, Zenon DEF handleCropConfirm, addStagedItem
  <2> HIDE DEF m, s
  <2>5. CASE stage' = stage /\ media' = s
    BY <1>5, <2>1, <2>2, <2>3, <2>5
  <2>6. CASE stage' = Append(stage, m) /\ media' = [s EXCEPT !.shown = Append(@, m)]
    <3>1. /\ media'.shown = Append(media.shown, m) /\ media'.prep = s.prep /\ media'.held = s.held /\ media'.queue = s.queue
          /\ media'.dialog = s.dialog
      BY <2>2, <2>6 DEF Desk
    <3>2. Queued(media') /\ Usable(media') = Usable(s)
      BY <2>2, <3>1 DEF Queued, Usable, Ahead, Live
    <3>3. /\ ToSet(stage') = ToSet(stage) \cup {m} /\ ToSet(media'.shown) = ToSet(media.shown) \cup {m}
          /\ Distinct(stage) /\ m \notin ToSet(stage) => Distinct(stage')
          /\ Distinct(media.shown) /\ m \notin ToSet(media.shown) => Distinct(media'.shown)
      <4>1. ToSet(Append(stage, m)) = ToSet(stage) \cup {m} /\ (Distinct(stage) /\ m \notin ToSet(stage) => Distinct(Append(stage, m)))
        BY <1>1, <2>1, AppendFacts
      <4>2. /\ ToSet(Append(media.shown, m)) = ToSet(media.shown) \cup {m}
            /\ Distinct(media.shown) /\ m \notin ToSet(media.shown) => Distinct(Append(media.shown, m))
        BY <1>1, <2>1, AppendFacts
      <4>3. QED BY <2>6, <3>1, <4>1, <4>2
    <3>4. Moves({}, {m})
      BY <2>1, <2>2, <2>3, <3>2, <3>3 DEF Moves
    <3>5. QED BY <2>1, <3>4
  <2>7. QED BY <2>4, <2>5, <2>6
<1>8. CASE handleSkip
  <2>1. media' = [advanceQueue(media) EXCEPT !.held = NoMedia] /\ hist' = hist /\ stage' = stage /\ Live(media)
    BY <1>8 DEF handleSkip, Live
  <2>2. advanceQueue(media) \in Desk /\ advanceQueue(media).shown = media.shown
    BY <1>1, <2>1, AdvanceFacts, AdvanceTyped DEF Queued
  <2>3. media'.shown = media.shown
    BY <2>1, <2>2 DEF Desk
  <2>4. Queued(media') /\ Usable(media') \subseteq Usable(media)
    BY <1>1, <2>1, AdvanceFacts DEF Usable
  <2>5. QED BY <1>5, <2>1, <2>3, <2>4
<1>9. CASE CloseImageDialog \/ OpenVideoDialog \/ CloseVideoDialog \/ CancelDelete
  <2>1. hist' = hist /\ stage' = stage
    BY <1>9 DEF CloseImageDialog, OpenVideoDialog, CloseVideoDialog, CancelDelete
  <2>2. /\ media'.shown = media.shown /\ media'.queue = media.queue /\ media'.prep = media.prep
        /\ media'.dialog # "image" /\ media'.held = NoMedia
    <3>1. CASE CloseImageDialog
      BY <1>1, <3>1 DEF CloseImageDialog, Desk
    <3>2. CASE OpenVideoDialog
      BY <1>1, <3>2 DEF OpenVideoDialog, Desk
    <3>3. CASE CloseVideoDialog
      BY <1>1, <3>3 DEF CloseVideoDialog, Desk
    <3>4. CASE CancelDelete
      BY <1>1, <3>4 DEF CancelDelete, Desk
    <3>5. QED BY <1>9, <3>1, <3>2, <3>3, <3>4
  <2>3. Queued(media') /\ Usable(media') \subseteq Usable(media)
    BY <1>1, <2>2, DialogFacts
  <2>4. QED BY <1>5, <2>1, <2>2, <2>3
<1>10. CASE handleExtractFrames
  <2>1. PICK v \in Videos \ hist.used : media' = [media EXCEPT !.held = v] /\ hist' = [hist EXCEPT !.used = @ \cup {v}]
    BY <1>10 DEF handleExtractFrames
  <2>2. stage' = stage /\ v \in Media /\ v # NoMedia /\ media.dialog = "video"
    BY <1>1, <1>10 DEF handleExtractFrames, Media
  <2>3. /\ media'.shown = media.shown /\ media'.queue = media.queue /\ media'.prep = media.prep
        /\ media'.dialog # "image" /\ media'.held = v /\ hist'.used = hist.used \cup {v} /\ hist'.revived = hist.revived
    BY <1>1, <2>1, <2>2 DEF Desk, Past
  <2>4. Queued(media') /\ Usable(media') \subseteq Usable(media) \cup {v}
    BY <1>1, <2>1, <2>3, DialogFacts
  <2>5. Moves({v}, {})
    BY <2>1, <2>2, <2>3, <2>4, QuietMoves
  <2>6. QED BY <2>2, <2>5
<1>11. CASE ConfirmVideo
  <2> DEFINE v == media.held
  <2>1. /\ v \in Media /\ v # NoMedia /\ hist' = hist /\ stage' = Append(stage, v)
        /\ media' = [[media EXCEPT !.dialog = "none", !.held = NoMedia] EXCEPT !.shown = <<v>> \o @]
    BY <1>1, <1>11 DEF ConfirmVideo, addStagedItem
  <2>2. v \in Usable(media) /\ v \notin Ahead(media) /\ (media.prep # NoMedia => v # media.prep)
    BY <2>1 DEF Usable, Queued
  <2> HIDE DEF v
  <2>3. /\ media'.shown = <<v>> \o media.shown /\ media'.queue = media.queue /\ media'.prep = media.prep
        /\ media'.dialog = "none" /\ media'.held = NoMedia
    BY <1>1, <2>1 DEF Desk
  <2>4. Queued(media') /\ Usable(media') \subseteq Usable(media)
    BY <1>1, <2>3, DialogFacts
  <2>5. v \notin Usable(media')
    BY <2>1, <2>2, <2>3 DEF Usable, Ahead, Live
  <2>6. <<v>> \in Seq(Media) /\ ToSet(<<v>>) = {v} /\ Distinct(<<v>>)
    BY <2>1 DEF ToSet, Distinct
  <2>7. /\ ToSet(stage') = ToSet(stage) \cup {v} /\ ToSet(media'.shown) = ToSet(media.shown) \cup {v}
        /\ Distinct(stage) /\ v \notin ToSet(stage) => Distinct(stage')
        /\ Distinct(media.shown) /\ v \notin ToSet(media.shown) => Distinct(media'.shown)
    <3>1. ToSet(Append(stage, v)) = ToSet(stage) \cup {v} /\ (Distinct(stage) /\ v \notin ToSet(stage) => Distinct(Append(stage, v)))
      BY <1>1, <2>1, AppendFacts
    <3>2. /\ ToSet(<<v>> \o media.shown) = {v} \cup ToSet(media.shown)
          /\ Distinct(media.shown) /\ v \notin ToSet(media.shown) => Distinct(<<v>> \o media.shown)
      <4> DEFINE w == <<v>>
      <4>1. w \in Seq(Media) /\ ToSet(w) = {v} /\ Distinct(w)
        BY <2>6
      <4> HIDE DEF w
      <4>2. /\ ToSet(w \o media.shown) = ToSet(w) \cup ToSet(media.shown)
            /\ Distinct(w) /\ Distinct(media.shown) /\ ToSet(w) \cap ToSet(media.shown) = {} => Distinct(w \o media.shown)
        BY <1>1, <4>1, ConcatFacts
      <4>3. QED BY <4>1, <4>2 DEF w
    <3>3. QED BY <2>1, <2>3, <3>1, <3>2
  <2>8. Moves({}, {v})
    BY <2>1, <2>2, <2>4, <2>5, <2>7 DEF Moves
  <2>9. QED BY <2>1, <2>8
<1>12. CASE handleRemove
  <2>1. PICK m \in ToSet(media.shown) : stage' = deleteStagedItem(stage, m) /\ media' = [media EXCEPT !.shown = Without(@, m)]
                                       /\ hist' = hist
    BY <1>1, <1>12, NoJobs DEF handleRemove, Desk
  <2>2. /\ media'.shown = Without(media.shown, m) /\ media'.queue = media.queue /\ media'.prep = media.prep
        /\ media'.dialog = media.dialog /\ media'.held = media.held
    BY <1>1, <2>1 DEF Desk
  <2>3. Queued(media') /\ Usable(media') = Usable(media)
    BY <2>2 DEF Queued, Usable, Ahead, Live
  <2>4. /\ ToSet(stage') \subseteq ToSet(stage) /\ ToSet(media'.shown) \subseteq ToSet(media.shown)
        /\ Distinct(stage) => Distinct(stage')
        /\ Distinct(media.shown) => Distinct(media'.shown)
    BY <1>1, <2>1, <2>2, KeptFacts DEF deleteStagedItem, Without
  <2>5. Moves({}, {})
    BY <2>1, <2>3, <2>4 DEF Moves
  <2>6. QED BY <2>5
<1>13. CASE handleConfirmDeleteActive
  BY <1>1, <1>13 DEF handleConfirmDeleteActive, Desk
<1>14. CASE handleDragEnd
  <2>1. PICK i \in DOMAIN media.shown, j \in DOMAIN media.shown :
           /\ media' = [media EXCEPT !.shown = Swapped(media.shown, i, j)]
           /\ stage' = reorderStagedItems(stage, Swapped(media.shown, i, j))
    BY <1>1, <1>14 DEF handleDragEnd
  <2> DEFINE order == Swapped(media.shown, i, j)
             kept == Kept(stage, Media \ ToSet(order))
  <2>2. order \in Seq(Media) /\ ToSet(order) \subseteq ToSet(media.shown) /\ (Distinct(media.shown) => Distinct(order))
    BY <1>1, SwappedFacts
  <2>3. /\ media'.shown = order /\ media'.queue = media.queue /\ media'.prep = media.prep
        /\ media'.dialog = media.dialog /\ media'.held = media.held
    BY <1>1, <2>1 DEF Desk
  <2>4. hist'.used = hist.used /\ hist'.revived = hist.revived \cup (ToSet(media.shown) \ ToSet(stage))
    BY <1>1, <1>14 DEF handleDragEnd, Past
  <2> HIDE DEF order
  <2>5. Queued(media') /\ Usable(media') = Usable(media)
    BY <2>3 DEF Queued, Usable, Ahead, Live
  <2>6. kept \in Seq(Media) /\ ToSet(kept) = ToSet(stage) \cap (Media \ ToSet(order)) /\ (Distinct(stage) => Distinct(kept))
    BY <1>1, KeptFacts
  <2>7. stage' = kept \o order
    BY <2>1 DEF reorderStagedItems, order
  <2> HIDE DEF kept
  <2>8. ToSet(stage') = ToSet(kept) \cup ToSet(order) /\ (Distinct(kept) /\ Distinct(order) => Distinct(stage'))
    <3>1. ToSet(kept) \cap ToSet(order) = {}
      BY <2>6
    <3>2. QED BY <2>2, <2>6, <2>7, <3>1, ConcatFacts
  <2>9. Moves({}, {})
    BY <2>2, <2>3, <2>4, <2>5, <2>6, <2>8 DEF Moves
  <2>10. QED BY <2>9
<1>15. QED BY <1>4, <1>6, <1>7, <1>8, <1>9, <1>10, <1>11, <1>12, <1>13, <1>14 DEF DeskNext
-----------------------------------------------------------------------------
(***************************************************************************)
(* The files of a form: what is staged or uploaded is not picked again.    *)
(***************************************************************************)
DeskScreens == {"stage"} \cup FormScreens
Taken == ToSet(stage) \cup ToSet(media.shown) \cup {m \in Media : server.files[m] > 0} \cup UNION {job.read : job \in ToSet(jobs)}
Fresh == screen \in DeskScreens =>
  /\ Queued(media) /\ Usable(media) \subseteq hist.used
  /\ Taken \subseteq hist.used \ Usable(media)
  /\ Distinct(stage) /\ Distinct(media.shown)
  /\ \A job \in ToSet(jobs) : ToSet(job.items) \subseteq job.read /\ Distinct(job.items)

LEMMA FreshInit == Init => Fresh
<1> SUFFICES ASSUME Init, screen \in DeskScreens PROVE Fresh
  BY DEF Fresh
<1> DEFINE videos == SetToSeq(Videos)
<1>1. screen # "gallery" /\ media = BlankMedia(stage, <<>>) /\ jobs = <<>>
  BY DEF Init, InitDesk, InitForm, DeskScreens, FormScreens
<1>2. server.files = [m \in Media |-> 0]
  BY DEF Init, InitDesk
<1>3. Taken = ToSet(stage)
  BY <1>1, <1>2, NoJobs DEF Taken, BlankMedia
<1>4. Queued(media) /\ Usable(media) = {}
  <2>1. /\ media.queue = <<>> /\ media.prep = NoMedia /\ media.held = NoMedia /\ media.dialog = "none" /\ media.shown = stage
    BY <1>1 DEF BlankMedia
  <2>2. Distinct(<<>>)
    BY DEF Distinct
  <2>3. QED BY <2>1, <2>2 DEF Queued, Usable, Ahead, Live
<1>5. Distinct(stage) /\ ToSet(stage) \subseteq hist.used
  <2>1. videos \in Seq(Videos) /\ ToSet(videos) = Videos /\ Distinct(videos)
    BY SetToSeqFacts, MediaAssumption
  <2>2. CASE screen = "new"
    <3>1. stage = videos /\ hist.used = Media \ NewMedia
      BY <2>2 DEF Init, InitDesk, InitHist
    <3>2. Videos \subseteq Media \ NewMedia
      BY EditorAssumption, MediaAssumption DEF Media
    <3>3. QED BY <2>1, <3>1, <3>2
  <2>3. CASE screen # "new"
    <3>1. hist.used = ToSet(stage) /\ (stage = <<>> \/ \E m \in Media : stage = <<m>>)
      BY <2>3 DEF Init, InitDesk, InitHist
    <3>2. Distinct(<<>>) /\ \A m \in Media : Distinct(<<m>>)
      BY DEF Distinct
    <3>3. QED BY <3>1, <3>2
  <2>4. QED BY <2>2, <2>3
<1>6. media.shown = stage
  BY <1>1 DEF BlankMedia
<1>7. QED BY <1>1, <1>3, <1>4, <1>5, <1>6, NoJobs DEF Fresh

\* An upload that succeeds, fails, or succeeds while its answer is lost.
LEMMA UploadEffect ==
    ASSUME FormTypes, NEW i \in DOMAIN jobs, Run(i), Head(jobs[i].ops) = "upload"
    PROVE  \/ jobs[i].items = <<>> /\ stage' = stage /\ server' = server /\ hist' = hist
           \/ /\ jobs[i].items # <<>> /\ Head(jobs[i].items) \in Media
              /\ \/ /\ stage' = Without(stage, Head(jobs[i].items)) /\ hist' = hist
                    /\ server'.files = [server.files EXCEPT ![Head(jobs[i].items)] = Cap(@ + 1)]
                 \/ stage' = stage /\ server' = server /\ hist'.lost = hist.lost
                 \/ /\ stage' = stage /\ hist'.lost
                    /\ server'.files = [server.files EXCEPT ![Head(jobs[i].items)] = Cap(@ + 1)]
<1> DEFINE m == Head(jobs[i].items)
<1>1. server \in Records /\ hist \in Past /\ jobs[i] \in Job
  BY DEF FormTypes
<1>2. CASE jobs[i].items = <<>>
  BY <1>2 DEF Run
<1>3. CASE jobs[i].items # <<>>
  <2>1. CallUpload(i)
    BY <1>3 DEF Run
  <2>2. m \in Media
    BY <1>1, <1>3, NextJobs
  <2>3. server' = [server EXCEPT !.files[m] = Cap(@ + 1)] => server'.files = [server.files EXCEPT ![m] = Cap(@ + 1)]
    BY <1>1 DEF Records
  <2>4. Trouble.lost = hist.lost /\ [Trouble EXCEPT !.lost = TRUE].lost
    BY <1>1 DEF Trouble, Past
  <2>5. QED BY <1>3, <2>1, <2>2, <2>3, <2>4 DEF CallUpload, Uploaded, deleteStagedItem
<1>4. QED BY <1>2, <1>3

\* A call takes files out of the staging database only, and uploads what it read there.
LEMMA RunTaken ==
    ASSUME FormTypes, NEW i \in DOMAIN jobs, Run(i), Fresh, screen \in FormScreens
    PROVE  /\ ToSet(stage') \subseteq ToSet(stage) /\ Distinct(stage')
           /\ \A m \in Media : server'.files[m] > 0 => m \in Taken
           /\ \A j \in ToSet(jobs') : j.read \subseteq Taken /\ ToSet(j.items) \subseteq j.read /\ Distinct(j.items)
<1> DEFINE job == jobs[i]
           op == Head(job.ops)
<1>1. /\ Framed(job) /\ job \in ToSet(jobs) /\ job \in Job /\ stage \in Seq(Media) /\ server \in Records
  BY RunFramed, ToSetFacts DEF FormTypes
<1>2. /\ Distinct(stage)
      /\ \A j \in ToSet(jobs) : ToSet(j.items) \subseteq j.read /\ Distinct(j.items) /\ j.read \subseteq Taken
      /\ ToSet(stage) \subseteq Taken /\ \A m \in Media : server.files[m] > 0 => m \in Taken
  BY DEF Fresh, DeskScreens, Taken
<1>3. ToSet(stage') \subseteq ToSet(stage) /\ Distinct(stage')
  <2>1. CASE op \notin {"upload", "clear"}
    BY <1>1, <1>2, <2>1 DEF Framed, CallFrame
  <2>2. CASE op = "clear"
    <3>1. stage' = <<>>
      BY <2>2 DEF Run, clearAllStaged
    <3>2. QED BY <3>1, NoJobs DEF Distinct
  <2>3. CASE op = "upload"
    <3>1. stage' = stage \/ \E m \in Media : stage' = Without(stage, m)
      BY <2>3, UploadEffect
    <3>2. CASE stage' = stage
      BY <1>2, <3>2
    <3>3. ASSUME NEW m \in Media, stage' = Without(stage, m) PROVE ToSet(stage') \subseteq ToSet(stage) /\ Distinct(stage')
      <4> DEFINE kept == Kept(stage, Media \ {m})
      <4>1. ToSet(kept) = ToSet(stage) \cap (Media \ {m}) /\ (Distinct(stage) => Distinct(kept))
        BY <1>1, KeptFacts
      <4>2. stage' = kept
        BY <3>3 DEF Without
      <4> HIDE DEF kept
      <4>3. QED BY <1>2, <4>1, <4>2
    <3>4. QED BY <3>1, <3>2, <3>3
  <2>4. QED BY <2>1, <2>2, <2>3
<1>4. job.items # <<>> => Head(job.items) \in Taken /\ Distinct(Tail(job.items)) /\ ToSet(Tail(job.items)) \subseteq ToSet(job.items)
  <2>1. job.items \in Seq(Media)
    BY <1>1 DEF Job
  <2>2. ASSUME job.items # <<>>
        PROVE  /\ ToSet(job.items) = {Head(job.items)} \cup ToSet(Tail(job.items))
               /\ Distinct(job.items) => Distinct(Tail(job.items))
    BY <2>1, <2>2, TailFacts
  <2>3. ToSet(job.items) \subseteq Taken /\ Distinct(job.items)
    <3>1. ToSet(job.items) \subseteq job.read /\ Distinct(job.items) /\ job.read \subseteq Taken
      BY <1>1, <1>2
    <3> HIDE DEF job
    <3>2. QED BY <3>1
  <2> HIDE DEF job
  <2>5. QED BY <2>2, <2>3
<1>5. ASSUME NEW m \in Media, server'.files[m] > 0 PROVE m \in Taken
  <2>1. CASE op # "upload"
    BY <1>1, <1>2, <1>5, <2>1 DEF Framed, CallFrame
  <2>2. CASE op = "upload"
    <3>1. \/ server' = server
          \/ job.items # <<>> /\ server'.files = [server.files EXCEPT ![Head(job.items)] = Cap(@ + 1)]
      BY <2>2, UploadEffect
    <3>2. CASE server' = server
      BY <1>2, <1>5, <3>2
    <3>3. CASE m = Head(job.items) /\ job.items # <<>>
      BY <1>4, <3>3
    <3>4. CASE m # Head(job.items) /\ server'.files = [server.files EXCEPT ![Head(job.items)] = Cap(@ + 1)]
      <4>1. server'.files[m] = server.files[m]
        BY <1>1, <3>4 DEF Records
      <4>2. QED BY <1>2, <1>5, <4>1
    <3>5. QED BY <3>1, <3>2, <3>3, <3>4
  <2>3. QED BY <2>1, <2>2
<1>6. ASSUME NEW j \in ToSet(jobs') PROVE j.read \subseteq Taken /\ ToSet(j.items) \subseteq j.read /\ Distinct(j.items)
  <2>1. CASE j \in ToSet(jobs)
    BY <1>2, <2>1
  <2>2. CASE Successor(job, j)
    <3>1. \/ j.items = job.items /\ j.read = job.read
          \/ j.items = Uploadable(stage) /\ j.read = ToSet(Uploadable(stage))
          \/ job.items # <<>> /\ j.items = Tail(job.items) /\ j.read = job.read
      BY <2>2 DEF Successor
    <3>2. ToSet(Uploadable(stage)) \subseteq ToSet(stage) /\ Distinct(Uploadable(stage))
      BY <1>1, <1>2, UploadableTyped
    <3>3. QED BY <1>1, <1>2, <1>4, <3>1, <3>2
  <2>3. QED BY <1>1, <2>1, <2>2 DEF Framed, JobFrame
<1>7. QED BY <1>3, <1>5, <1>6

LEMMA FreshNext == TypeOK /\ Fresh /\ [Next]_vars => Fresh'
<1> SUFFICES ASSUME TypeOK, Fresh, [Next]_vars, screen' \in DeskScreens PROVE Fresh'
  BY DEF Fresh
<1>0. screen' = screen /\ screen \in DeskScreens
  BY ScreenStays
<1>1. CASE UNCHANGED <<screen, stage, media, server, hist, jobs>>
  BY <1>1 DEF Fresh, Taken
<1>2. CASE DeskNext /\ screen \in {"stage", "new"} /\ UNCHANGED <<form, jobs, aux>>
  <2>1. Queued(media) /\ Usable(media) \subseteq hist.used /\ Taken \subseteq hist.used \ Usable(media)
        /\ Distinct(stage) /\ Distinct(media.shown)
    BY <1>0 DEF Fresh
  <2>2. PICK picked \in SUBSET Media, staged \in SUBSET Media : Moves(picked, staged)
    BY <1>2, <2>1, DeskMoves
  <2>3. server' = server
    BY <1>2, DeskKeepsRest
  <2>4. Taken' \subseteq Taken \cup staged
    BY <1>2, <2>2, <2>3 DEF Taken, Moves
  <2>5. (ToSet(stage) \cup ToSet(media.shown)) \cap staged = {}
    BY <2>1, <2>2 DEF Moves, Taken
  <2>6. /\ Queued(media') /\ Usable(media') \subseteq hist'.used /\ Taken' \subseteq hist'.used \ Usable(media')
        /\ Distinct(stage') /\ Distinct(media'.shown)
    BY <2>1, <2>2, <2>4, <2>5 DEF Moves
  <2>7. \A job \in ToSet(jobs') : ToSet(job.items) \subseteq job.read /\ Distinct(job.items)
    BY <1>0, <1>2 DEF Fresh
  <2>8. QED BY <2>6, <2>7 DEF Fresh, Queued, Usable, Ahead, Live
<1>3. ASSUME screen \in FormScreens, FormTypes, NEW i \in DOMAIN jobs, Run(i) PROVE Fresh'
  <2>1. media' = media /\ hist'.used = hist.used
    BY <1>3, RunFramed DEF Framed, HistKept
  <2>2. Taken' \subseteq Taken
    BY <1>3, <2>1, RunTaken DEF Taken
  <2>3. QED BY <1>0, <1>3, <2>1, <2>2, RunTaken DEF Fresh, Queued, Usable, Ahead, Live
<1>4. CASE /\ screen \in FormScreens /\ FormTypes
           /\ \/ Loaded \/ Edit \/ addSKU \/ removeSKU \/ handleSyncTranslate \/ Translated
              \/ Navigate \/ handleConfirmLeave \/ handleCancelLeave \/ doSubmit \/ ForcedUnlock
  <2>1. UNCHANGED <<stage, media, server>> /\ hist'.used = hist.used
    BY <1>4, FieldsFramed
  <2>2. \A j \in ToSet(jobs') : j \in ToSet(jobs) \/ (j.items = <<>> /\ j.read = {})
    <3>1. CASE doSubmit
      BY <1>4, <3>1, SubmitAdds DEF Submission
    <3>2. CASE ~doSubmit
      BY <1>4, <3>2, FieldsFramed
    <3>3. QED BY <3>1, <3>2
  <2>3. Taken' \subseteq Taken
    BY <2>1, <2>2 DEF Taken
  <2>4. Distinct(<<>>)
    BY DEF Distinct
  <2>5. \A j \in ToSet(jobs') : ToSet(j.items) \subseteq j.read /\ Distinct(j.items)
    BY <1>0, <2>2, <2>4, NoJobs DEF Fresh
  <2>6. QED BY <1>0, <2>1, <2>3, <2>5 DEF Fresh, Queued, Usable, Ahead, Live
<1>5. CASE Next /\ screen \in FormScreens
  BY <1>2, <1>3, <1>4, <1>5, FormSteps
<1>6. CASE Next /\ screen = "stage"
  BY <1>2, <1>6 DEF Next, FormScreens
<1>7. QED BY <1>0, <1>1, <1>5, <1>6 DEF vars, DeskScreens

-----------------------------------------------------------------------------
(***************************************************************************)
(* What a save clears, and what an attempt after a failed one uploads.     *)
(***************************************************************************)
\* A submission that has read the staging database either noted a failure, or what it
\* read is uploaded, yet to upload, or was written back by a drag.
JobClear(job) ==
  /\ "settle" \notin ToSet(job.ops) => ~job.failed
  /\ "upload" \notin ToSet(job.ops) => job.items = <<>>
  /\ "stage" \in ToSet(job.ops) => job.items = <<>> /\ job.read = {}
  /\ "stage" \notin ToSet(job.ops) /\ ~job.failed => (job.read \ ToSet(job.items)) \cap ToSet(stage) \subseteq hist.revived
Cleared == screen \in DeskScreens =>
  hist.dropped \subseteq hist.revived /\ \A job \in ToSet(jobs) : JobClear(job)

LEMMA TurnOrder ==
    ASSUME NEW ops \in Turns
    PROVE  /\ ToSet(ops) = {Head(ops)} \cup ToSet(Tail(ops)) /\ Head(ops) \notin ToSet(Tail(ops))
           /\ Head(ops) = "stage" => "upload" \in ToSet(Tail(ops))
           /\ Head(ops) = "upload" => "settle" \in ToSet(Tail(ops))
           /\ Head(ops) = "clear" => {"stage", "upload", "settle"} \cap ToSet(ops) = {}
<1>1. /\ ToSet(Tail(ops)) = ToSet(ops) \ {Head(ops)} /\ Head(ops) \in ToSet(ops)
      /\ \A x \in ToSet(Tail(ops)) : Rank[Head(ops)] < Rank[x]
      /\ \A y \in Always : Rank[Head(ops)] < Rank[y] => y \in ToSet(Tail(ops))
  BY TurnFacts
<1> DEFINE op == Head(ops)
           others == ToSet(Tail(ops))
           all == ToSet(ops)
<1> HIDE DEF op, others, all
<1>2. /\ others = all \ {op} /\ op \in all
      /\ \A x \in others : Rank[op] < Rank[x]
      /\ \A y \in Always : Rank[op] < Rank[y] => y \in others
  BY <1>1 DEF op, others, all
<1>3. all = {op} \cup others /\ op \notin others
  BY <1>2
<1>4. (op = "stage" => "upload" \in others) /\ (op = "upload" => "settle" \in others)
  BY <1>2, RankValues DEF Always
<1>5. op = "clear" => {"stage", "upload", "settle"} \cap all = {}
  BY <1>2, <1>3, RankValues
<1>6. QED BY <1>3, <1>4, <1>5 DEF op, others, all

LEMMA SuccessorClear ==
    ASSUME NEW job \in Job, NEW j, Successor(job, j), JobClear(job), ToSet(stage') \subseteq ToSet(stage),
           hist'.revived = hist.revived, stage \in Seq(Media)
    PROVE  JobClear(j)'
<1> DEFINE op == Head(job.ops)
<1>1. job.ops \in Turns /\ job.items \in Seq(Media)
  BY DEF Job
<1>2. /\ ToSet(job.ops) = {op} \cup ToSet(Tail(job.ops)) /\ op \notin ToSet(Tail(job.ops))
      /\ op = "stage" => "upload" \in ToSet(Tail(job.ops))
      /\ op = "upload" => "settle" \in ToSet(Tail(job.ops))
  BY <1>1, TurnOrder
<1> SUFFICES /\ "settle" \notin ToSet(j.ops) => ~j.failed
             /\ "upload" \notin ToSet(j.ops) => j.items = <<>>
             /\ "stage" \in ToSet(j.ops) => j.items = <<>> /\ j.read = {}
             /\ "stage" \notin ToSet(j.ops) /\ ~j.failed =>
                   (j.read \ ToSet(j.items)) \cap ToSet(stage') \subseteq hist.revived
  BY DEF JobClear
<1>3. CASE /\ op # "done" /\ j.ops = Tail(job.ops) /\ j.failed = job.failed /\ op # "stage"
           /\ j.items = job.items /\ j.read = job.read
           /\ op = "upload" => job.items = <<>>
           /\ op = "settle" => ~job.failed
  BY <1>2, <1>3 DEF JobClear
<1>4. CASE op = "stage" /\ j.ops = Tail(job.ops) /\ j.failed = job.failed /\ j.items = Uploadable(stage) /\ j.read = ToSet(Uploadable(stage))
  BY <1>2, <1>4 DEF JobClear
<1>5. CASE j.ops = job.ops /\ j.items = job.items /\ j.read = job.read /\ j.failed = job.failed
  BY <1>5 DEF JobClear
<1>6. CASE /\ op = "upload" /\ job.items # <<>> /\ j.items = Tail(job.items) /\ j.ops = job.ops /\ j.read = job.read
           /\ j.failed \/ (j.failed = job.failed /\ stage' = Without(stage, Head(job.items)))
  <2>1. "upload" \in ToSet(job.ops) /\ "settle" \in ToSet(job.ops) /\ "stage" \notin ToSet(job.ops)
    BY <1>2, <1>6 DEF JobClear
  <2>2. ToSet(job.items) = {Head(job.items)} \cup ToSet(Tail(job.items)) /\ Head(job.items) \in Media
    BY <1>1, <1>6, TailFacts
  <2>3. ASSUME ~j.failed PROVE (j.read \ ToSet(j.items)) \cap ToSet(stage') \subseteq hist.revived
    <3> DEFINE kept == Kept(stage, Media \ {Head(job.items)})
    <3>1. ToSet(kept) = ToSet(stage) \cap (Media \ {Head(job.items)})
      BY KeptFacts
    <3>2. stage' = kept /\ ~job.failed
      BY <1>6, <2>3 DEF Without
    <3> HIDE DEF kept
    <3>3. (job.read \ ToSet(job.items)) \cap ToSet(stage) \subseteq hist.revived
      BY <2>1, <3>2 DEF JobClear
    <3>4. QED BY <1>6, <2>2, <3>1, <3>2, <3>3
  <2>4. QED BY <1>6, <2>1, <2>3
<1>7. QED BY <1>3, <1>4, <1>5, <1>6 DEF Successor

\* A submission reads the staging database first, so one that begins has read nothing.
LEMMA BeginsClear == ASSUME NEW publish \in BOOLEAN PROVE JobClear(Submission(publish))
<1>1. "stage" \in ToSet(Submission(publish).ops) /\ Submission(publish).ops \in Turns
  BY OpsFacts DEF Submission
<1>2. Submission(publish).items = <<>> /\ Submission(publish).read = {} /\ ~Submission(publish).failed
  BY DEF Submission
<1>3. QED BY <1>1, <1>2 DEF JobClear

LEMMA RunClear ==
    ASSUME FormTypes, NEW i \in DOMAIN jobs, Run(i), Fresh, Cleared, screen \in FormScreens
    PROVE  hist'.dropped \subseteq hist'.revived /\ \A j \in ToSet(jobs') : JobClear(j)'
<1> DEFINE job == jobs[i]
<1>1. /\ Framed(job) /\ job \in ToSet(jobs) /\ job \in Job /\ stage \in Seq(Media) /\ hist \in Past
  BY RunFramed, ToSetFacts DEF FormTypes
<1>2. hist.dropped \subseteq hist.revived /\ \A j \in ToSet(jobs) : JobClear(j)
  BY DEF Cleared, DeskScreens
<1>3. ToSet(stage') \subseteq ToSet(stage) /\ hist'.revived = hist.revived
  BY <1>1, RunTaken DEF Framed, HistKept
<1>4. ASSUME NEW j \in ToSet(jobs') PROVE JobClear(j)'
  <2>1. CASE j \in ToSet(jobs)
    BY <1>2, <1>3, <2>1 DEF JobClear
  <2>2. CASE Successor(job, j)
    BY <1>1, <1>2, <1>3, <2>2, SuccessorClear
  <2>3. QED BY <1>1, <2>1, <2>2 DEF Framed, JobFrame
<1>5. hist'.dropped \subseteq hist'.revived
  <2>1. CASE Head(job.ops) # "clear"
    BY <1>1, <1>2, <1>3, <2>1 DEF Framed, CallFrame
  <2>2. CASE Head(job.ops) = "clear"
    <3>1. hist'.dropped = hist.dropped \cup (ToSet(stage) \cap job.read)
      BY <1>1, <2>2 DEF Run, clearAllStaged, Past
    <3>2. job.ops \in Turns
      BY <1>1 DEF Job
    <3>3. {"stage", "upload", "settle"} \cap ToSet(job.ops) = {}
      BY <2>2, <3>2, TurnOrder
    <3>4. job.items = <<>> /\ (job.read \ ToSet(job.items)) \cap ToSet(stage) \subseteq hist.revived
      BY <1>1, <1>2, <3>3 DEF JobClear
    <3>5. ToSet(job.items) = {}
      BY <3>4, NoJobs
    <3>6. QED BY <1>2, <1>3, <3>1, <3>4, <3>5
  <2>3. QED BY <2>1, <2>2
<1>6. QED BY <1>4, <1>5

LEMMA ClearedInit == Init => Cleared
<1> SUFFICES ASSUME Init PROVE Cleared
  OBVIOUS
<1>1. ToSet(jobs) = {}
  BY NoJobs DEF Init, InitForm
<1>2. hist.dropped = {}
  BY DEF Init, InitHist
<1>3. QED BY <1>1, <1>2 DEF Cleared

LEMMA ClearedNext == TypeOK /\ Fresh /\ Cleared /\ [Next]_vars => Cleared'
<1> SUFFICES ASSUME TypeOK, Fresh, Cleared, [Next]_vars, screen' \in DeskScreens PROVE Cleared'
  BY DEF Cleared
<1>0. /\ screen' = screen /\ screen \in DeskScreens
      /\ hist.dropped \subseteq hist.revived /\ \A job \in ToSet(jobs) : JobClear(job)
  BY ScreenStays DEF Cleared
<1>1. CASE UNCHANGED <<screen, stage, hist, jobs>>
  BY <1>1 DEF Cleared, JobClear
<1>2. CASE DeskNext /\ screen \in {"stage", "new"} /\ UNCHANGED <<form, jobs, aux>>
  <2>1. Queued(media) /\ Usable(media) \subseteq hist.used /\ Taken \cap Usable(media) = {}
    BY <1>0 DEF Fresh
  <2>2. PICK picked \in SUBSET Media, staged \in SUBSET Media : Moves(picked, staged)
    BY <1>2, <2>1, DeskMoves
  <2>3. /\ hist.revived \subseteq hist'.revived /\ ToSet(stage') \ hist'.revived \subseteq ToSet(stage) \cup staged
        /\ staged \subseteq Usable(media)
    BY <2>2 DEF Moves
  <2>4. hist'.dropped = hist.dropped
    BY <1>2, DeskHist
  <2>5. ASSUME NEW job \in ToSet(jobs) PROVE JobClear(job)'
    <3>1. job.read \subseteq Taken /\ JobClear(job)
      BY <1>0 DEF Taken
    <3>2. job.read \cap staged = {}
      BY <2>1, <2>3, <3>1
    <3>3. QED BY <2>3, <3>1, <3>2 DEF JobClear
  <2>6. QED BY <1>0, <1>2, <2>3, <2>4, <2>5 DEF Cleared
<1>3. ASSUME screen \in FormScreens, FormTypes, NEW i \in DOMAIN jobs, Run(i) PROVE Cleared'
  BY <1>3, RunClear DEF Cleared
<1>4. CASE /\ screen \in FormScreens /\ FormTypes
           /\ \/ Loaded \/ Edit \/ addSKU \/ removeSKU \/ handleSyncTranslate \/ Translated
              \/ Navigate \/ handleConfirmLeave \/ handleCancelLeave \/ doSubmit \/ ForcedUnlock
  <2>1. stage' = stage /\ hist'.revived = hist.revived /\ hist'.dropped = hist.dropped
    BY <1>4, FieldsFramed
  <2>2. \A j \in ToSet(jobs') : JobClear(j)
    <3>1. CASE doSubmit
      BY <1>0, <1>4, <3>1, SubmitAdds, BeginsClear
    <3>2. CASE ~doSubmit
      BY <1>0, <1>4, <3>2, FieldsFramed
    <3>3. QED BY <3>1, <3>2
  <2>3. QED BY <1>0, <2>1, <2>2 DEF Cleared, JobClear
<1>5. CASE Next /\ screen \in FormScreens
  BY <1>2, <1>3, <1>4, <1>5, FormSteps
<1>6. CASE Next /\ screen = "stage"
  BY <1>2, <1>6 DEF Next, FormScreens
<1>7. QED BY <1>0, <1>1, <1>5, <1>6 DEF vars, DeskScreens

\* The other screens upload no file of a form and clear nothing.
Idle == screen \notin DeskScreens =>
  /\ "files" \in DOMAIN server /\ server.files = [m \in Media |-> 0]
  /\ "dropped" \in DOMAIN hist /\ hist.dropped = {}

LEMMA IdleInit == Init => Idle
BY DEF Init, InitDesk, InitHist, Idle

LEMMA IdleNext == Idle /\ [Next]_vars => Idle'
<1> SUFFICES ASSUME Idle, [Next]_vars, screen \notin DeskScreens, screen' = screen PROVE Idle'
  BY ScreenStays DEF Idle
<1>1. /\ "files" \in DOMAIN server /\ server.files = [m \in Media |-> 0]
      /\ "dropped" \in DOMAIN hist /\ hist.dropped = {}
  BY DEF Idle
<1>2. CASE UNCHANGED <<server, hist>>
  BY <1>2 DEF Idle
<1>3. CASE DeskNext
  <2>1. server' = server
    BY <1>3 DEF DeskNext, Drop, startQueue, Prepare, handleCropConfirm, handleSkip, CloseImageDialog, OpenVideoDialog, CloseVideoDialog,
       handleExtractFrames, ConfirmVideo, handleRemove, handleConfirmDeleteActive, CancelDelete, handleDragEnd
  <2>2. \/ hist' = hist
        \/ \E x : hist' = [hist EXCEPT !.used = x]
        \/ \E x : hist' = [hist EXCEPT !.mediaCalls = x]
        \/ \E x : hist' = [hist EXCEPT !.revived = x]
    BY <1>3, Zenon DEF DeskNext, Drop, startQueue, Prepare, handleCropConfirm, handleSkip, CloseImageDialog, OpenVideoDialog, CloseVideoDialog,
       handleExtractFrames, ConfirmVideo, handleRemove, handleConfirmDeleteActive, CancelDelete, handleDragEnd, Counted
  <2>3. "dropped" \in DOMAIN hist' /\ hist'.dropped = {}
    BY <1>1, <2>2
  <2>4. QED BY <1>1, <2>1, <2>3 DEF Idle
<1>4. CASE GalleryNext
  <2>1. server' = server \/ \E x : server' = [server EXCEPT !.gallery = x]
    BY <1>4, Zenon DEF GalleryNext, OpenRecrop, ConfirmRecrop, OpenEditPanel, CloseEditPanel, handleEditSave,
       MediaWritten, MediaServed, MediaRead, MediaExpires
  <2>2. hist' = hist \/ \E x : hist' = [hist EXCEPT !.mediaCalls = x]
    BY <1>4, Zenon DEF GalleryNext, OpenRecrop, ConfirmRecrop, OpenEditPanel, CloseEditPanel, handleEditSave,
       MediaWritten, MediaServed, MediaRead, MediaExpires, Counted
  <2>3. "dropped" \in DOMAIN hist' /\ hist'.dropped = {}
    BY <1>1, <2>2
  <2>4. "files" \in DOMAIN server' /\ server'.files = [m \in Media |-> 0]
    BY <1>1, <2>1
  <2>5. QED BY <2>3, <2>4 DEF Idle
<1>5. QED BY <1>2, <1>3, <1>4 DEF Next, vars, DeskScreens, FormScreens

\* What is cleared after a save was uploaded by it, unless a drag wrote it back, for any
\* number of files, failures and overlapping submissions (the upload loop and
\* clearAllStaged in AdminProductForm.tsx).
THEOREM ClearingDropsNothing == Spec => []ClearedIsUploaded
<1>1. Cleared /\ Idle => ClearedIsUploaded
  BY DEF Cleared, Idle, ClearedIsUploaded
<1>2. Init => Fresh /\ Cleared /\ Idle
  BY FreshInit, ClearedInit, IdleInit
<1>3. TypeOK /\ Fresh /\ Cleared /\ Idle /\ [Next]_vars => (Fresh /\ Cleared /\ Idle)'
  BY FreshNext, ClearedNext, IdleNext
<1>4. QED BY <1>1, <1>2, <1>3, TypesHold, PTL DEF Spec

-----------------------------------------------------------------------------
\* One submission at a time uploads each file once: what is uploaded is neither staged
\* any more nor among what is left to upload.
Uploads1(m) ==
  /\ server.files[m] <= 1
  /\ server.files[m] = 1 => m \notin ToSet(stage) /\ \A job \in ToSet(jobs) : m \notin ToSet(job.items)
Once == screen \in DeskScreens /\ ~hist.overlap =>
  /\ Len(jobs) <= 1
  /\ ~hist.lost => \A m \in Media \ hist.revived : Uploads1(m)

LEMMA OnceInit == Init => Once
<1> SUFFICES ASSUME Init PROVE Once
  OBVIOUS
<1>1. jobs = <<>>
  BY DEF Init, InitForm
<1>2. \A m \in Media : server.files[m] = 0
  BY DEF Init, InitDesk
<1>3. QED BY <1>1, <1>2 DEF Once, Uploads1

LEMMA LostRemains ==
    ASSUME FormTypes, NEW i \in DOMAIN jobs, Run(i), hist.lost
    PROVE  hist'.lost
<1> DEFINE op == Head(jobs[i].ops)
<1>1. hist \in Past
  BY DEF FormTypes
<1>2. CASE op \notin {"spu", "upload"}
  BY <1>2, RunFramed DEF Framed, CallFrame
<1>3. CASE op = "spu"
  <2>1. CallSpu(i)
    BY <1>3 DEF Run
  <2>2. hist' = hist \/ hist' = Trouble \/ hist' = [Trouble EXCEPT !.lost = TRUE]
    BY <2>1 DEF CallSpu
  <2>3. QED BY <1>1, <2>2 DEF Trouble, Past
<1>4. CASE op = "upload"
  BY <1>4, UploadEffect
<1>5. QED BY <1>2, <1>3, <1>4

LEMMA RunOnce ==
    ASSUME FormTypes, NEW i \in DOMAIN jobs, Run(i), Fresh, screen \in FormScreens, Len(jobs) <= 1,
           ~hist.lost, ~hist'.lost, NEW m \in Media, Uploads1(m)
    PROVE  Uploads1(m)'
<1> DEFINE job == jobs[i]
           op == Head(job.ops)
           up == Head(job.items)
<1>1. /\ Framed(job) /\ job \in ToSet(jobs) /\ job \in Job /\ stage \in Seq(Media) /\ server \in Records
  BY RunFramed, ToSetFacts DEF FormTypes
<1>2. job.items \in Seq(Media) /\ Distinct(job.items)
  BY <1>1 DEF Job, Fresh, DeskScreens
<1>3. ToSet(stage') \subseteq ToSet(stage) /\ server.files[m] \in Nat
  BY <1>1, RunTaken DEF Records
<1>4. \A j \in ToSet(jobs') : Successor(job, j)
  BY <1>1 DEF Framed, JobFrame
<1>5. \A j \in ToSet(jobs') : ToSet(j.items) \subseteq ToSet(job.items) \cup ToSet(stage)
  <2>1. ASSUME NEW j \in ToSet(jobs')
        PROVE  \/ j.items = job.items
               \/ j.items = Uploadable(stage)
               \/ job.items # <<>> /\ j.items = Tail(job.items)
    BY <1>4, <2>1 DEF Successor
  <2>2. ToSet(Uploadable(stage)) \subseteq ToSet(stage)
    BY <1>1, UploadableTyped
  <2>3. job.items # <<>> => ToSet(Tail(job.items)) \subseteq ToSet(job.items)
    BY <1>2, TailFacts
  <2>4. QED BY <2>1, <2>2, <2>3
<1>6. server.files[m] <= 1 /\ (server.files[m] = 1 => m \notin ToSet(stage) /\ m \notin ToSet(job.items))
  BY <1>1 DEF Uploads1
<1>7. CASE server'.files[m] = server.files[m]
  BY <1>3, <1>5, <1>6, <1>7 DEF Uploads1
<1>8. CASE /\ op = "upload" /\ job.items # <<>> /\ up = m /\ stage' = Without(stage, up)
           /\ server'.files = [server.files EXCEPT ![up] = Cap(@ + 1)]
  <2>1. ToSet(job.items) = {m} \cup ToSet(Tail(job.items)) /\ m \notin ToSet(Tail(job.items))
    BY <1>2, <1>8, TailFacts
  <2>2. server.files[m] = 0
    BY <1>3, <1>6, <2>1
  <2>3. server'.files[m] = 1
    BY <1>1, <1>8, <2>2 DEF Records, Cap
  <2>4. m \notin ToSet(stage')
    <3>1. ToSet(Kept(stage, Media \ {m})) = ToSet(stage) \cap (Media \ {m})
      BY <1>1, KeptFacts
    <3>2. QED BY <1>8, <3>1 DEF Without
  <2>5. ASSUME NEW j \in ToSet(jobs') PROVE m \notin ToSet(j.items)
    <3>1. j.items = Tail(job.items)
      BY <1>4, <1>8, <2>5 DEF Successor
    <3>2. QED BY <2>1, <3>1
  <2>6. QED BY <2>3, <2>4, <2>5 DEF Uploads1
<1>9. CASE op = "upload"
  <2>1. \/ server' = server
        \/ /\ job.items # <<>> /\ stage' = Without(stage, up)
           /\ server'.files = [server.files EXCEPT ![up] = Cap(@ + 1)]
    BY <1>9, UploadEffect
  <2>2. CASE server' = server
    BY <1>7, <2>2
  <2>3. CASE up # m /\ server'.files = [server.files EXCEPT ![up] = Cap(@ + 1)]
    BY <1>1, <1>7, <2>3 DEF Records
  <2>4. QED BY <1>8, <1>9, <2>1, <2>2, <2>3
<1>10. CASE op # "upload"
  BY <1>1, <1>7, <1>10 DEF Framed, CallFrame
<1>11. QED BY <1>9, <1>10

LEMMA OnceNext == TypeOK /\ Fresh /\ Once /\ [Next]_vars => Once'
<1> SUFFICES ASSUME TypeOK, Fresh, Once, [Next]_vars, screen' \in DeskScreens, ~hist'.overlap PROVE Once'
  BY DEF Once
<1>0. screen' = screen /\ screen \in DeskScreens
  BY ScreenStays
<1>1. CASE UNCHANGED <<screen, stage, server, hist, jobs>>
  BY <1>1 DEF Once, Uploads1
<1>2. CASE DeskNext /\ screen \in {"stage", "new"} /\ UNCHANGED <<form, jobs, aux>>
  <2>1. Queued(media) /\ Usable(media) \subseteq hist.used /\ Taken \cap Usable(media) = {}
    BY <1>0 DEF Fresh
  <2>2. PICK picked \in SUBSET Media, staged \in SUBSET Media : Moves(picked, staged)
    BY <1>2, <2>1, DeskMoves
  <2>3. /\ hist.revived \subseteq hist'.revived /\ ToSet(stage') \ hist'.revived \subseteq ToSet(stage) \cup staged
        /\ staged \subseteq Usable(media)
    BY <2>2 DEF Moves
  <2>4. server' = server /\ hist'.lost = hist.lost /\ hist'.overlap = hist.overlap
    BY <1>2, DeskHist, DeskKeepsRest
  <2>5. ASSUME NEW m \in Media \ hist'.revived, Uploads1(m) PROVE Uploads1(m)'
    <3>1. server.files[m] = 1 => m \notin staged
      BY <2>1, <2>3 DEF Taken
    <3>2. QED BY <1>2, <2>3, <2>4, <2>5, <3>1 DEF Uploads1
  <2>6. QED BY <1>0, <1>2, <2>3, <2>4, <2>5 DEF Once
<1>3. ASSUME screen \in FormScreens, FormTypes, NEW i \in DOMAIN jobs, Run(i) PROVE Once'
  <2>1. hist'.revived = hist.revived /\ hist'.overlap = hist.overlap /\ Len(jobs') <= Len(jobs)
    BY <1>3, RunFramed DEF Framed, HistKept, JobFrame
  <2>2. Len(jobs) <= 1 /\ (~hist.lost => \A m \in Media \ hist.revived : Uploads1(m))
    BY <1>0, <2>1 DEF Once
  <2>3. Len(jobs) \in Nat /\ Len(jobs') <= 1
    BY <1>3, <2>1, <2>2 DEF FormTypes
  <2>4. ASSUME ~hist'.lost, NEW m \in Media \ hist'.revived PROVE Uploads1(m)'
    <3>1. ~hist.lost
      BY <1>3, <2>4, LostRemains
    <3>2. QED BY <1>3, <2>1, <2>2, <2>4, <3>1, RunOnce
  <2>5. QED BY <2>3, <2>4 DEF Once
<1>4. CASE /\ screen \in FormScreens /\ FormTypes
           /\ \/ Loaded \/ Edit \/ addSKU \/ removeSKU \/ handleSyncTranslate \/ Translated
              \/ Navigate \/ handleConfirmLeave \/ handleCancelLeave \/ doSubmit \/ ForcedUnlock
  <2>1. UNCHANGED <<stage, server>> /\ hist'.revived = hist.revived /\ hist'.lost = hist.lost
    BY <1>4, FieldsFramed
  <2>2. \/ jobs' = jobs /\ hist'.overlap = hist.overlap
        \/ /\ jobs = <<>> /\ Len(jobs') = Len(jobs) + 1
           /\ \A j \in ToSet(jobs') : j \in ToSet(jobs) \/ j.items = <<>>
    <3>1. CASE doSubmit
      <4>1. \A publish \in BOOLEAN : Submission(publish).items = <<>>
        BY DEF Submission
      <4>2. \/ jobs' = jobs /\ hist'.overlap = hist.overlap
            \/ /\ \E publish \in BOOLEAN : ToSet(jobs') = ToSet(jobs) \cup {Submission(publish)}
               /\ Len(jobs') = Len(jobs) + 1 /\ jobs = <<>>
        BY <1>4, <3>1, SubmitAdds
      <4>3. QED BY <4>1, <4>2
    <3>2. CASE ~doSubmit
      BY <1>4, <3>2, FieldsFramed
    <3>3. QED BY <3>1, <3>2
  <2>3. CASE jobs' = jobs /\ hist'.overlap = hist.overlap
    BY <1>0, <2>1, <2>3 DEF Once, Uploads1
  <2>4. CASE /\ jobs = <<>> /\ Len(jobs') = Len(jobs) + 1 /\ hist'.overlap = hist.overlap
             /\ \A j \in ToSet(jobs') : j \in ToSet(jobs) \/ j.items = <<>>
    <3>1. Len(jobs') = 1
      BY <2>4
    <3>2. \A j \in ToSet(jobs') : ToSet(j.items) = {}
      BY <2>4, NoJobs
    <3>3. QED BY <1>0, <2>1, <2>4, <3>1, <3>2 DEF Once, Uploads1
  <2>5. hist'.overlap = hist.overlap
    <3>1. CASE doSubmit
      BY <1>4, <3>1, SubmitAdds DEF FormTypes, Past
    <3>2. CASE ~doSubmit
      BY <1>4, <3>2, FieldsFramed
    <3>3. QED BY <3>1, <3>2
  <2>6. QED BY <2>2, <2>3, <2>4, <2>5
<1>5. CASE Next /\ screen \in FormScreens
  BY <1>2, <1>3, <1>4, <1>5, FormSteps
<1>6. CASE Next /\ screen = "stage"
  BY <1>2, <1>6 DEF Next, FormScreens
<1>7. QED BY <1>0, <1>1, <1>5, <1>6 DEF vars, DeskScreens

\* An attempt after one that failed uploads what is missing only, for any number of
\* files and failures (deleteStagedItem behind each upload in AdminProductForm.tsx).
THEOREM FilesUploadedOnce == Spec => []FileOnce
<1>1. Once /\ Idle => FileOnce
  BY DEF Once, Idle, FileOnce, Uploads1
<1>2. Init => Fresh /\ Once /\ Idle
  BY FreshInit, OnceInit, IdleInit
<1>3. TypeOK /\ Fresh /\ Once /\ Idle /\ [Next]_vars => (Fresh /\ Once /\ Idle)'
  BY FreshNext, OnceNext, IdleNext
<1>4. QED BY <1>1, <1>2, <1>3, TypesHold, PTL DEF Spec
==============================================================================

