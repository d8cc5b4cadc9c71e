--------------------------------- MODULE Lists ---------------------------------
(***************************************************************************)
(* Array.prototype.filter: SelectSeq with a set for its test, and with a   *)
(* recursion that the provers can expand.                                  *)
(***************************************************************************)
EXTENDS Naturals, Sequences

(* The elements of s that are in S, in their order. *)
Kept(s, S) ==
  LET kept[n \in 0..Len(s)] == IF n = 0 THEN <<>> ELSE IF s[n] \in S THEN Append(kept[n - 1], s[n]) ELSE kept[n - 1]
  IN  kept[Len(s)]
==============================================================================
