----------------------------- MODULE MCChatPages -----------------------------
(* The instance of ChatPages that TLC checks. *)
EXTENDS ChatPages
Ops == [s \in Screens |-> IF s = "agent" THEN 1 ELSE 2]
Events == [s \in Screens |-> IF s = "panel" THEN 2 ELSE 1]
==============================================================================
