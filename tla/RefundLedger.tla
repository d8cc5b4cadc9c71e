----------------------------- MODULE RefundLedger -----------------------------
(***************************************************************************)
(* What the refund code promises about the money of one payment, without   *)
(* gateways, threads or retries: a refund request takes hold of a part of  *)
(* the payment that nobody else holds, and the hold ends exactly once, paid *)
(* out or given back.                                                      *)
(***************************************************************************)
EXTENDS Money

CONSTANTS NumKeys,   \* refund requests (idempotency keys) of the payment
          Amount     \* the amount of the payment

Key == 1..NumKeys

VARIABLES state,     \* state[k]: where the money of request k is
          held       \* held[k]: how much request k took hold of

State == {"free", "held", "paid", "void"}

Taken == Total([k \in Key |-> IF state[k] \in {"held", "paid"} THEN held[k] ELSE 0], NumKeys)

Init ==
    /\ state = [k \in Key |-> "free"]
    /\ held = [k \in Key |-> 0]

Hold(k, a) ==
    /\ state[k] = "free"
    /\ a > 0
    /\ a <= Amount - Taken
    /\ state' = [state EXCEPT ![k] = "held"]
    /\ held' = [held EXCEPT ![k] = a]

End(k, outcome) ==
    /\ state[k] = "held"
    /\ state' = [state EXCEPT ![k] = outcome]
    /\ UNCHANGED held

Next ==
    \E k \in Key :
        \/ \E a \in 1..Amount : Hold(k, a)
        \/ End(k, "paid")
        \/ End(k, "void")

Spec == Init /\ [][Next]_<<state, held>>
=============================================================================
