------------------------------- MODULE Uploads -------------------------------
(***************************************************************************)
(* What goes to the server in one piece or in many: a video in chunks      *)
(* (uploadVideoDirect of api/admin.ts), the two import pages               *)
(* (AdminImport.tsx, AdminMediaImport.tsx), and the rectangle of the image *)
(* cropper (ImageCropper.tsx).  Each is a screen of its own with its state *)
(* in `aux`.  So has a file on its way into the gallery: what makes a      *)
(* picture fit (imageCompression.ts), its four sizes, and the frames of a  *)
(* video (videoFrameExtractor.ts).                                         *)
(***************************************************************************)
EXTENDS Integers, Sequences, FiniteSets, SequencesExt

CONSTANTS FileSize, ChunkSize, MinChunk, \* of a video, and the limits of a chunk, in one unit
          MaxRetries,                    \* bound: chunks that fail
          MaxDrags,                      \* bound: drags in the cropper
          ImageW, ImageH, MinCrop,       \* the image in the cropper, and the least side of a crop
          Pictures                       \* files: picture or not, kilobytes, sides, and whether the browser can decode them

ASSUME UploadsAssumption == {FileSize, ChunkSize, MinChunk, MaxRetries, MaxDrags, ImageW, ImageH, MinCrop} \subseteq Nat

VARIABLE aux

Least(a, b) == IF a < b THEN a ELSE b
Most(a, b) == IF a > b THEN a ELSE b

(***************************************************************************)
(* A video in chunks: the next part's number, where it starts, the size    *)
(* tried, the acknowledged parts, and the parts the server holds, as the   *)
(* stretch of the file each covers.                                        *)
(***************************************************************************)
VideoStart == [st |-> "sending", part |-> 1, offset |-> 0, size |-> ChunkSize,
               parts |-> <<>>, held |-> [p \in {} |-> <<0, 0>>], retries |-> 0]
SliceEnd == Least(aux.offset + aux.size, FileSize)
Held == [p \in DOMAIN aux.held \cup {aux.part} |-> IF p = aux.part THEN <<aux.offset, SliceEnd>> ELSE aux.held[p]]

ChunkAcked ==
  /\ aux.st = "sending" /\ aux.offset < FileSize
  /\ aux' = [aux EXCEPT !.held = Held, !.parts = Append(@, aux.part), !.offset = SliceEnd,
                        !.part = @ + 1, !.size = ChunkSize]
\* Mutant of Halved: the part that failed is not sent again.
HalvedPast(a) == [a EXCEPT !.size = Most(a.size \div 2, MinChunk), !.part = @ + 1, !.offset = SliceEnd]
(* A chunk that failed is tried again at half its size, but not below the least. *)
Halved(a) == [a EXCEPT !.size = Most(a.size \div 2, MinChunk)]
(* The server may hold a chunk whose answer was lost. *)
ChunkFailed ==
  /\ aux.st = "sending" /\ aux.offset < FileSize /\ aux.retries < MaxRetries
  /\ \E held \in {aux.held, Held} :
       LET a == [aux EXCEPT !.held = held, !.retries = @ + 1]
       IN  aux' = IF aux.size > MinChunk THEN Halved(a) ELSE [a EXCEPT !.st = "failed"]
ChunkComplete ==
  /\ aux.st = "sending" /\ aux.offset >= FileSize
  /\ \E st \in {"complete", "failed"} : aux' = [aux EXCEPT !.st = st]
uploadVideoDirect == ChunkAcked \/ ChunkFailed \/ ChunkComplete

(***************************************************************************)
(* Import of a table: a preview, then the import with a brand, a category  *)
(* and a folder of media.  Import of a zip of media folders: no preview.   *)
(***************************************************************************)
ImportStart == [page |-> "upload", file |-> 0, preview |-> 0, brand |-> FALSE, category |-> FALSE,
                folder |-> FALSE, error |-> FALSE, success |-> FALSE, picked |-> 0, sent |-> 0]

(* The upload area and the page of the preview have the only controls. *)
ImportOffers ==
  IF aux.page = "upload" THEN {"file"} ELSE IF aux.page = "preview" THEN {"options", "folder", "import", "reset"}
  ELSE IF aux.page = "result" THEN {"reset"} ELSE {}
MediaImportOffers ==
  IF aux.page = "upload" THEN {"file", "crop"} \cup (IF aux.file = 0 THEN {} ELSE {"import"})
  ELSE IF aux.page = "result" THEN {"reset"} ELSE {}

handleFile == /\ "file" \in ImportOffers /\ aux.picked < 2
              /\ aux' = [aux EXCEPT !.picked = @ + 1, !.file = aux.picked + 1, !.page = "parsing", !.error = FALSE]
(* The preview of the file that was chosen; an empty or unreadable one is refused. *)
Parsed == /\ aux.page = "parsing"
          /\ \/ aux' = [aux EXCEPT !.page = "preview", !.preview = aux.file]
             \/ aux' = [aux EXCEPT !.page = "upload", !.error = TRUE]
ChooseOptions == /\ "options" \in ImportOffers
                 /\ \E brand, category \in BOOLEAN : aux' = [aux EXCEPT !.brand = brand, !.category = category]
handleMediaDirChange == "folder" \in ImportOffers /\ aux' = [aux EXCEPT !.folder = TRUE]
(* Starting over forgets the file and its preview; brand and category stay. *)
ResetImport(a) == [a EXCEPT !.page = "upload", !.file = 0, !.preview = 0, !.error = FALSE, !.success = FALSE, !.folder = FALSE]
handleImport ==
  /\ "import" \in ImportOffers
  /\ IF aux.file # 0 /\ aux.brand /\ aux.category
       THEN aux' = [aux EXCEPT !.page = "importing", !.error = FALSE, !.sent = aux.file]
       ELSE aux' = [aux EXCEPT !.error = TRUE]
Imported == aux.page = "importing" /\ \E ok \in BOOLEAN : aux' = [aux EXCEPT !.page = "result", !.success = ok]
handleReset == "reset" \in ImportOffers /\ aux' = ResetImport(aux)
ImportNext ==
  \/ handleFile \/ Parsed \/ ChooseOptions \/ handleMediaDirChange \/ handleImport \/ Imported \/ handleReset

(* A file that is no zip is refused and the one chosen before stays. *)
handleSelected ==
  /\ "file" \in MediaImportOffers /\ aux.picked < 2
  /\ \/ aux' = [aux EXCEPT !.picked = @ + 1, !.error = TRUE]
     \/ aux' = [aux EXCEPT !.picked = @ + 1, !.file = aux.picked + 1, !.error = FALSE, !.success = FALSE]
handleImportZip ==
  "import" \in MediaImportOffers /\ aux' = [aux EXCEPT !.page = "importing", !.error = FALSE, !.sent = aux.file]
ImportedZip == aux.page = "importing" /\ \E ok \in BOOLEAN : aux' = [aux EXCEPT !.page = "result", !.success = ok]
resetZip == "reset" \in MediaImportOffers /\ aux' = ResetImport(aux)
MediaImportNext == handleSelected \/ handleImportZip \/ ImportedZip \/ resetZip

(***************************************************************************)
(* The cropper: dragging moves the rectangle or one of its corners.        *)
(***************************************************************************)
Centred(w, h) == [x |-> Most(0, (ImageW - w) \div 2), y |-> Most(0, (ImageH - h) \div 2), w |-> w, h |-> h]
(* Three fifths of the width, as high as the ratio wants and the image allows. *)
InitialCrop == LET w == (ImageW * 3) \div 5 IN IF w > ImageH THEN Centred(ImageH, ImageH) ELSE Centred(w, w)
CropStart == [rect |-> InitialCrop, drag |-> "none", from |-> InitialCrop, ratio |-> 1, drags |-> 0]

handleMouseDown ==
  /\ aux.drag = "none" /\ aux.drags < MaxDrags
  /\ \E d \in {"move", "tl", "tr", "bl", "br"} : aux' = [aux EXCEPT !.drag = d, !.from = aux.rect, !.drags = @ + 1]
Moved(r, f, dx, dy) ==
  [r EXCEPT !.x = Most(0, Least(ImageW - r.w, f.x + dx)), !.y = Most(0, Least(ImageH - r.h, f.y + dy))]

Left == {"tl", "bl"}
Top == {"tl", "tr"}
(* One side at a time: the right or lower edge is limited by the image, the left
   or upper one by the opposite edge; a side is at least the least one, if the
   image has the room. *)
Stretched(start, len, size, delta) == Least(size - start, Most(MinCrop, len + delta))
Shrunk(start, len, delta) == Least(start + len, Most(MinCrop, len - delta))
Resized(c, f, dx, dy) ==
  LET w == IF c \in Left THEN Shrunk(f.x, f.w, dx) ELSE Stretched(f.x, f.w, ImageW, dx)
      h == IF c \in Top THEN Shrunk(f.y, f.h, dy) ELSE Stretched(f.y, f.h, ImageH, dy)
      locked == IF aux.ratio > 0 THEN w \div aux.ratio ELSE h
      y == IF c \in Top THEN f.y + f.h - locked ELSE f.y
  IN  [x |-> IF c \in Left THEN f.x + f.w - w ELSE f.x, y |-> Most(0, y), w |-> w, h |-> locked]
handleMouseMove ==
  /\ aux.drag # "none"
  /\ \E dx, dy \in -ImageW..ImageW :
       aux' = [aux EXCEPT !.rect = IF aux.drag = "move" THEN Moved(@, aux.from, dx, dy)
                                   ELSE Resized(aux.drag, aux.from, dx, dy)]
handleMouseUp == aux.drag # "none" /\ aux' = [aux EXCEPT !.drag = "none", !.from = InitialCrop]
(* Another ratio starts from a centred rectangle; none (0) from a square. *)
resetCropForRatio == aux.drag = "none" /\ \E r \in {0, 1} : aux' = [aux EXCEPT !.ratio = r, !.rect = InitialCrop]
CropNext == handleMouseDown \/ handleMouseMove \/ handleMouseUp \/ resetCropForRatio

(***************************************************************************)
(* A file on its way into the gallery.                                     *)
(***************************************************************************)
SmallKB == 200
LargestKB == 15 * 1024
LongestSide == 8192
maxWidthOrHeight == 2560
STANDARD_RATIOS == <<<<1, 1>>, <<4, 5>>, <<3, 4>>, <<4, 3>>, <<3, 2>>, <<16, 9>>>>
Rounded(n, d) == (2 * n + d) \div (2 * d)
Side(n, d) == Most(1, Rounded(n, d))

(* The standard ratio nearest to the picture's, the first of two as near. *)
Off(w, h, r) == LET d == w * r[2] - h * r[1] IN IF d < 0 THEN -d ELSE d
matchBestRatio(w, h) ==
  FoldLeft(LAMBDA best, r : IF Off(w, h, r) * best[2] < Off(w, h, best) * r[2] THEN r ELSE best, Head(STANDARD_RATIOS), STANDARD_RATIOS)

(* A large picture whose longer side is too long is drawn smaller, as WebP or, where
   the browser has no WebP, PNG; one that cannot be drawn stays as it is. *)
compressImage(f) ==
  LET long == Most(f.w, f.h)
      less == [f EXCEPT !.w = Side(f.w * maxWidthOrHeight, long), !.h = Side(f.h * maxWidthOrHeight, long)]
  IN  IF f.kb <= SmallKB \/ ~f.decodes \/ long <= maxWidthOrHeight THEN {f}
      ELSE {f} \cup {[less EXCEPT !.type = t] : t \in {"webp", "png"}}
Rejected(f) == f.type # "image" \/ f.kb > LargestKB \/ ~f.decodes \/ Most(f.w, f.h) > LongestSide
(* The catch after compressImage is never reached: it throws nothing. *)
prepareImageForUpload(f) == IF f.kb > SmallKB THEN compressImage(f) ELSE {f}

NoFile == [type |-> "none", kb |-> 0, w |-> 0, h |-> 0, decodes |-> FALSE]
PictureStart == [st |-> "empty", file |-> NoFile, ratio |-> <<1, 1>>, made |-> [k \in {} |-> 0], error |-> FALSE]
handlePicture ==
  /\ aux.st = "empty"
  /\ \E f \in Pictures :
       IF Rejected(f) THEN aux' = [aux EXCEPT !.error = TRUE]
       ELSE \E p \in prepareImageForUpload(f) :
              aux' = [aux EXCEPT !.st = "crop", !.file = p, !.ratio = matchBestRatio(p.w, p.h), !.error = FALSE]
(* The whole picture is cut out here, or a strip of it; the sizes have fixed widths. *)
CropWidths(w) == [thumb |-> 200, list |-> 400, large |-> 800, original |-> Least(maxWidthOrHeight, w)]
CropSizes(w, r) == LET widths == CropWidths(w) IN [k \in DOMAIN widths |-> <<widths[k], Side(widths[k] * r[2], r[1])>>]
Halves(size) == <<Most(1, size[1] \div 2), Most(1, size[2] \div 2)>>
(* Each size is drawn, or at the second try at half of it; one that fails twice fails
   the picture. *)
handleConfirm ==
  /\ aux.st = "crop"
  /\ \/ aux' = [aux EXCEPT !.error = TRUE]
     \/ \E w \in {1, aux.file.w} : \E halved \in SUBSET DOMAIN CropWidths(w) :
          LET sizes == CropSizes(w, aux.ratio)
          IN  aux' = [aux EXCEPT !.st = "done", !.error = FALSE, !.made = [k \in DOMAIN sizes |-> IF k \in halved THEN Halves(sizes[k]) ELSE sizes[k]]]
CancelCrop == aux.st = "crop" /\ aux' = [aux EXCEPT !.st = "empty", !.file = NoFile]

(* Three frames of a video, at one second or a tenth of it: the call ends when each
   has been tried, also if one of them cannot be drawn. *)
FrameWidths == [thumb |-> 200, list |-> 400, large |-> 800]
generateFrameSizes(w, h, made) == LET r == matchBestRatio(w, h) IN [k \in made |-> <<FrameWidths[k], Side(FrameWidths[k] * r[2], r[1])>>]
extractVideoFrames ==
  /\ aux.st = "empty"
  /\ \/ aux' = [aux EXCEPT !.error = TRUE]
     \/ \E made \in SUBSET DOMAIN FrameWidths : \E f \in Pictures :
          IF "thumb" \notin made THEN aux' = [aux EXCEPT !.error = TRUE]
          ELSE aux' = [aux EXCEPT !.st = "frames", !.file = f, !.made = generateFrameSizes(f.w, f.h, made), !.error = FALSE]
(* A missing frame makes the confirmation throw. *)
ConfirmFrames == aux.st = "frames" /\ DOMAIN aux.made = DOMAIN FrameWidths /\ aux' = [aux EXCEPT !.st = "done"]
CancelFrames == aux.st = "frames" /\ aux' = PictureStart
PictureNext == handlePicture \/ handleConfirm \/ CancelCrop \/ extractVideoFrames \/ ConfirmFrames \/ CancelFrames

==============================================================================
