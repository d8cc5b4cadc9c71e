--------------------------- MODULE MCProductEditor ---------------------------
(* The instance of ProductEditor that TLC checks. *)
EXTENDS ProductEditor
(* A second submission of an existing product may overtake the first. *)
Jobs == [s \in Screens |-> IF s = "edit" THEN 2 ELSE 1]
(* The fields of a new product are typed in before its first submission. *)
Edits == [s \in Screens |-> 1]
Conditions == [s \in Screens |-> {"showcase", "scheduled"}]
OneImage == {CHOOSE i \in Images : TRUE}
(* Small, a long strip, large but not long, too heavy, too long, broken, no picture. *)
Pic(type, kb, w, h, decodes) == [type |-> type, kb |-> kb, w |-> w, h |-> h, decodes |-> decodes]
MCPictures == {Pic("image", 90, 300, 200, TRUE), Pic("image", 4000, 6000, 2, TRUE), Pic("image", 900, 1000, 1250, TRUE),
               Pic("image", 16000, 900, 900, TRUE), Pic("image", 900, 9000, 10, TRUE), Pic("image", 90, 10, 10, FALSE), Pic("text", 9, 1, 1, FALSE)}
==============================================================================
