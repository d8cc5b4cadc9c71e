------------------------------ MODULE Pictures ------------------------------
(***************************************************************************)
(* Pictures that come from a content network, and from the shop's own      *)
(* server when the network fails (SmartImage.tsx, fallbackImage.ts).  srv  *)
(* tells whether the network is reachable.                                 *)
(***************************************************************************)
EXTENDS StoreClient

CONSTANT Slots  \* the places of the page that show a picture

(* What the client remembers of the network's host, for all pictures: since when it
   is down, whether the time for that has passed, and when it last gave a picture. *)
UnknownHost == [down |-> "no", ok |-> "never", unchecked |-> FALSE]
Sources == {"network", "own", "none"}
isCdnDomainDown(h) == h.down = "cooling"
probed(h) == IF h.down = "expired" THEN [h EXCEPT !.unchecked = TRUE] ELSE h
(* A failure within 15 s of a success does not count. *)
markCdnDown(h) == IF h.ok = "fresh" THEN h ELSE [h EXCEPT !.down = "cooling", !.unchecked = FALSE]
markCdnOk(h) == [down |-> "no", ok |-> "fresh", unchecked |-> FALSE]

(* The picture in slot k is asked for again, from where its flag and the host's
   state say. *)
createFallbackImage(s, k) ==
  LET p == s.ui.shown[k]
      from(f) == [s EXCEPT !.ui.shown[k].from = f, !.ui.shown[k].st = IF f = "none" THEN "none" ELSE IF f = p.from THEN p.st ELSE "loading"]
  IN  IF p.of = "none" THEN from("none")
      ELSE IF p.of = "own" \/ p.force \/ isCdnDomainDown(s.ui.host) THEN from("own")
      ELSE [from("network") EXCEPT !.ui.host = probed(@)]
(* Another address forgets that the one before failed. *)
SourceChanges(s, k, of) ==
  createFallbackImage([s EXCEPT !.ui.shown[k] = [of |-> of, force |-> FALSE, from |-> "none", st |-> "none"]], k)
Blank == [of |-> "none", force |-> FALSE, from |-> "none", st |-> "none"]
PicturesOpen(of) ==
  FoldSet(LAMBDA k, s : SourceChanges(s, k, of[k]),
          [ui |-> [host |-> UnknownHost, shown |-> [k \in Slots |-> Blank]], calls |-> <<>>, cache |-> <<>>], Slots)

onLoad(k) ==
  LET p == ui.shown[k]
      s == [Here EXCEPT !.ui.shown[k].st = "shown"]
  IN  IF p.from = "network" /\ ~p.force THEN [s EXCEPT !.ui.host = markCdnOk(@)] ELSE s
(* The picture is asked for once more, from the shop's own server; when it came from
   there it stays broken. *)
onError(k) ==
  LET p == ui.shown[k]
      s == [Here EXCEPT !.ui.shown[k].st = "broken", !.ui.shown[k].force = TRUE,
                        !.ui.host = IF p.from = "network" THEN markCdnDown(@) ELSE @]
  IN  createFallbackImage(s, k)
Loads(k) == ui.shown[k].st = "loading" /\ (ui.shown[k].from = "network" => srv) /\ Do(onLoad(k))
Fails(k) ==
  /\ ui.shown[k].st = "loading"
  /\ \/ ui.shown[k].from = "network" /\ ~srv /\ Do(onError(k))
     \/ Event /\ ui' = onError(k).ui /\ UNCHANGED <<screen, srv, calls, cache>>
ShowAnother(k) == \E of \in Sources \ {ui.shown[k].of} : Do(SourceChanges(Here, k, of))
CdnTurns == Event /\ srv' = ~srv /\ UNCHANGED <<screen, ui, calls, cache>>
(* The times pass: 30 s since the host failed, 15 s since it gave a picture. *)
TimePasses ==
  \/ ui.host.down = "cooling" /\ Do([Here EXCEPT !.ui.host.down = "expired"])
  \/ ui.host.ok = "fresh" /\ Do([Here EXCEPT !.ui.host.ok = "old"])
PicturesNext ==
  /\ screen = "pictures"
  /\ CdnTurns \/ TimePasses \/ \E k \in Slots : Loads(k) \/ Fails(k) \/ ShowAnother(k)
==============================================================================
