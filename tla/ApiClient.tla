------------------------------ MODULE ApiClient ------------------------------
(***************************************************************************)
(* The rules of the front-end's HTTP client (src/web/react/src/api/        *)
(* request.ts) that decide which cached answers a successful write drops.  *)
(* A path is a sequence of segments and the flag that says whether the URL *)
(* ends with a slash; "#" stands for a numeric id.  The query of a GET is  *)
(* a part of its cache key behind the path, so it never decides a prefix.  *)
(***************************************************************************)
EXTENDS Naturals, Sequences, FiniteSets, SequencesExt

Path(segs) == [segs |-> segs, slash |-> FALSE]
PathSlash(segs) == [segs |-> segs, slash |-> TRUE]

(* The action names the client strips from the end of a write's URL. *)
ActionNames == {"create", "update", "delete", "restore", "scope", "skus", "migrate", "audit",
                "permanent", "submit", "shelf", "schedule", "duplicate"}

\* Mutant of ResourceBase: the action's name stays on the path.
ResourceBaseWithAction(url) ==
  IF url.slash \/ url.segs = <<>> \/ Last(url.segs) # "#" THEN url ELSE Path(Front(url.segs))
(* Both regular expressions are anchored at the end of the URL, so a trailing
   slash keeps them from matching. *)
ResourceBase(url) ==
  LET noAction == IF url.segs # <<>> /\ Last(url.segs) \in ActionNames
                    THEN Front(url.segs) ELSE url.segs
      noId == IF noAction # <<>> /\ Last(noAction) = "#" THEN Front(noAction) ELSE noAction
  IN  IF url.slash THEN url ELSE Path(noId)

(* A cached GET is dropped when its key starts with the resource's path. *)
Covers(base, url) ==
  /\ base.segs # <<>>
  /\ IsPrefix(base.segs, url.segs)
  /\ base.slash => Len(url.segs) > Len(base.segs) \/ url.slash

Invalidates(write, read) == Covers(ResourceBase(write), read)
==============================================================================
