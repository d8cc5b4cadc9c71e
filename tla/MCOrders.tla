------------------------------ MODULE MCOrders ------------------------------
(***************************************************************************)
(* Orders for TLC.  Users are named nowhere when Browsers is empty, so a   *)
(* permutation of them changes nothing an invariant can see.               *)
(***************************************************************************)
EXTENDS Orders, TLC

Customers == Permutations(User)
=============================================================================
