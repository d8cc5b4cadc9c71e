------------------------------ MODULE Settlement ------------------------------
(***************************************************************************)
(* What the capture code promises about the money of an order's payments,  *)
(* without gateways, events or retries: the order takes at most one        *)
(* capture, and none once it is cancelled; a cancelled order owes back     *)
(* what it is told was captured; a debt ends once, returned or refused.    *)
(*                                                                         *)
(* A second capture of a paid order is neither taken nor owed: the code    *)
(* has no answer to it but to let the gateway report it again.             *)
(***************************************************************************)
CONSTANT Payment

VARIABLES fate,      \* fate[p]: where the money of payment p is
          cancelled  \* the order was cancelled

Init ==
    /\ fate = [p \in Payment |-> "open"]
    /\ cancelled = FALSE

Uncredited == \A p \in Payment : fate[p] # "credited"

Capture(p) ==
    /\ fate[p] = "open"
    /\ fate' = [fate EXCEPT ![p] = "captured"]
    /\ UNCHANGED cancelled

Credit(p) ==
    /\ fate[p] = "captured"
    /\ Uncredited
    /\ ~cancelled
    /\ fate' = [fate EXCEPT ![p] = "credited"]
    /\ UNCHANGED cancelled

Cancel ==
    /\ Uncredited
    /\ ~cancelled
    /\ cancelled' = TRUE
    /\ UNCHANGED fate

Owe(p) ==
    /\ fate[p] = "captured"
    /\ cancelled
    /\ fate' = [fate EXCEPT ![p] = "owed"]
    /\ UNCHANGED cancelled

End(p, outcome) ==
    /\ fate[p] = "owed"
    /\ fate' = [fate EXCEPT ![p] = outcome]
    /\ UNCHANGED cancelled

Next ==
    \/ Cancel
    \/ \E p \in Payment : \/ Capture(p)
                          \/ Credit(p)
                          \/ Owe(p)
                          \/ \E outcome \in {"returned", "refused"} : End(p, outcome)

Spec == Init /\ [][Next]_<<fate, cancelled>>
=============================================================================
