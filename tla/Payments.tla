------------------------------ MODULE Payments ------------------------------
(***************************************************************************)
(* The capture half of PaymentService: how the payments of one order are   *)
(* opened, and how the order learns that one of them was paid.             *)
(*                                                                         *)
(* Two paths report a capture.  The webhook is one transaction that holds  *)
(* the rows of the payment and of its order.  Polling (get_status and      *)
(* sync_expired_payments) works from rows read without a lock: it asks the *)
(* gateway, saves the payment, reads the order and saves the order, each   *)
(* on its own.  Both run beside create_payment and the user's cancel.      *)
(*                                                                         *)
(* A call that raises changes nothing and is no step here.                 *)
(***************************************************************************)
EXTENDS Integers

CONSTANTS NumPayments,  \* payments the order may have, created in the order 1, 2, ...
          Pollers,      \* runs of sync_expired_payments and calls of get_status
          EventIds,     \* event ids under which the gateway reports one thing
          MaxAge,       \* bound on age: 1 is PENDING_TTL, 2 is PAYMENT_MAX_PENDING_MINUTES
          MaxCrashes    \* bound on process crashes in one behaviour

ASSUME PaymentsAssumption ==
    /\ NumPayments \in Nat \ {0}
    /\ MaxAge \in 0..2
    /\ MaxCrashes \in Nat

Payment == 1..NumPayments

VARIABLES order,    \* the Order row: status, payment_status, payment_no
          status,   \* status[p]: PaymentLog.status
          stored,   \* stored[p]: PaymentLog.gateway_payment_id is set
          age,      \* age[p]: how old the row is
          refund,   \* refund[p]: the RefundLog row 'late-payment:<payment_no>'
          seen,     \* the PaymentEvent rows
          thread,   \* thread[p]: the request creating payment p
          poller,   \* poller[w]: a poll and the rows it read
          gateway,  \* gateway[p]: the session at the gateway
          crashes

db == <<order, status, stored, refund, seen>>
vars == <<order, status, stored, age, refund, seen, thread, poller, gateway, crashes>>

PaymentStatus == {"absent", "pending", "success", "failed", "refunded", "cancelled"}
Order == [status: {"pending_payment", "paid", "cancelled"},
          payment_status: {"unpaid", "paid", "refunding", "refunded"},
          payment_no: 0..NumPayments]

EventKind == {"payment_completed", "payment_failed", "payment_cancelled",
              "refund_completed", "other"}
Event == [payment: Payment, kind: EventKind, id: EventIds]

Poll == [pc: {"next", "write", "read", "save"}, todo: SUBSET Payment,
         old: SUBSET Payment, payment: Payment, answer: {"none", "succeeded", "cancelled"}]
Between(todo, old) == [pc |-> "next", todo |-> todo, old |-> old, payment |-> 1, answer |-> "none"]
Idle == Between({}, {})

Exists(p) == status[p] # "absent"
Pending == {p \in Payment : status[p] = "pending"}
IsLatest(p) == Exists(p) /\ \A q \in Payment : Exists(q) => q <= p

Init ==
    /\ order = [status |-> "pending_payment", payment_status |-> "unpaid", payment_no |-> 0]
    /\ status = [p \in Payment |-> "absent"]
    /\ stored = [p \in Payment |-> FALSE]
    /\ age = [p \in Payment |-> 0]
    /\ refund = [p \in Payment |-> "none"]
    /\ seen = {}
    /\ thread = [p \in Payment |-> "none"]
    /\ poller = [w \in Pollers |-> Idle]
    /\ gateway = [p \in Payment |-> "none"]
    /\ crashes = 0

(***************************************************************************)
(* create_payment: a row is reserved under the order's lock, the gateway   *)
(* is called outside of any transaction, and the answer is stored.  A      *)
(* pending payment that has not expired is handed out again: no step.      *)
(***************************************************************************)
\* Mutant of Expire: the pending payment that expired is left pending.
ExpireNothing == status
Expire == [q \in Payment |-> IF q \in Pending THEN "cancelled" ELSE status[q]]

CreatePayment(p) ==
    /\ ~Exists(p) /\ \A q \in 1..p-1 : Exists(q)
    /\ order.payment_status # "paid"
    /\ order.status = "pending_payment"
    /\ \A q \in Pending : age[q] >= 1
    /\ status' = [Expire EXCEPT ![p] = "pending"]
    /\ thread' = [thread EXCEPT ![p] = "call"]
    /\ UNCHANGED <<order, stored, age, refund, seen, poller, gateway, crashes>>

\* The call opens a session.  When it raises, a session may be open all the same, of
\* which nobody has the address.
GatewayOpen(p) ==
    /\ thread[p] = "call"
    /\ \/ /\ thread' = [thread EXCEPT ![p] = "store"]
          /\ gateway' = [gateway EXCEPT ![p] = "open"]
       \/ /\ thread' = [thread EXCEPT ![p] = "fail"]
          /\ \E session \in {"none", "open"} : gateway' = [gateway EXCEPT ![p] = session]
    /\ UNCHANGED <<db, age, poller, crashes>>

CreateFailed(p) ==
    /\ thread[p] = "fail"
    /\ thread' = [thread EXCEPT ![p] = "none"]
    /\ status' = IF status[p] = "pending" /\ ~stored[p]
                 THEN [status EXCEPT ![p] = "failed"] ELSE status
    /\ UNCHANGED <<order, stored, age, refund, seen, poller, gateway, crashes>>

StoreGatewayId(p) ==
    /\ thread[p] = "store"
    /\ thread' = [thread EXCEPT ![p] = "none"]
    /\ stored' = [stored EXCEPT ![p] = TRUE]
    /\ UNCHANGED <<order, status, age, refund, seen, poller, gateway, crashes>>

(***************************************************************************)
(* The gateway's side.  The user gets the address of the session once it   *)
(* is stored; the session ends paid, or closed without a capture.  An      *)
(* attempt that is declined leaves it open.                                *)
(***************************************************************************)
UserPays(p) ==
    /\ stored[p]
    /\ gateway[p] = "open"
    /\ \E end \in {"paid", "closed"} : gateway' = [gateway EXCEPT ![p] = end]
    /\ UNCHANGED <<db, age, thread, poller, crashes>>

\* The sessions of which the gateway may report something, in any order and any
\* number of times.
Reported(kind) ==
    IF kind = "payment_completed" THEN {"paid", "refunded"}
    ELSE IF kind = "refund_completed" THEN {"refunded"}
    ELSE IF kind = "payment_cancelled" THEN {"closed"}
    ELSE {"open", "paid", "closed", "refunded"}

(***************************************************************************)
(* handle_webhook: one transaction over the event, the payment, the order  *)
(* and the late refund.  When order.pay raises, all of it is rolled back.  *)
(***************************************************************************)
\* Mutant of Mapped: a denied or failed capture reads as a completed one, as it did
\* when event names were matched by substring.
MappedBySubstring(kind) == IF kind = "payment_failed" THEN "payment_completed" ELSE kind
\* _WEBHOOK_EVENT_MAP is exact: what is not listed is filed and moves nothing.
Mapped(kind) == kind

\* Mutant of Skipped: no event is skipped.
SkippedNever(p) == FALSE
\* Mutant of Skipped: only a pending payment can be paid.
SkippedUnlessPending(p) == status[p] # "pending"
Skipped(p) == status[p] = "success"

\* Order.pay, from whatever copy of the order the caller holds.
PaidBy(p) == [status |-> "paid", payment_status |-> "paid", payment_no |-> p]

\* Mutant of Completed: the event is acknowledged even when order.pay raised.
CompletedCatchingPay(p) ==
    /\ status' = [status EXCEPT ![p] = "success"]
    /\ IF order.status = "cancelled"
       THEN /\ order' = [order EXCEPT !.payment_status = "refunding"]
            /\ refund' = [refund EXCEPT ![p] = IF @ = "none" THEN "reserved" ELSE @]
       ELSE /\ order' = IF order.status = "pending_payment" THEN PaidBy(p) ELSE order
            /\ UNCHANGED refund
\* Mutant of Completed: an order cancelled meanwhile is left alone.
CompletedIgnoringCancel(p) ==
    /\ status' = [status EXCEPT ![p] = "success"]
    /\ order' = IF order.status = "pending_payment" THEN PaidBy(p) ELSE order
    /\ UNCHANGED refund
\* Mutant of Completed: order.pay takes an order in any status.
CompletedPayingAny(p) ==
    /\ status' = [status EXCEPT ![p] = "success"]
    /\ order' = PaidBy(p)
    /\ UNCHANGED refund
Completed(p) ==
    /\ status' = [status EXCEPT ![p] = "success"]
    /\ \/ /\ order.status = "cancelled"
          /\ order' = [order EXCEPT !.payment_status = "refunding"]
          /\ refund' = [refund EXCEPT ![p] = IF @ = "none" THEN "reserved" ELSE @]
       \/ /\ order.status = "pending_payment"
          /\ order' = PaidBy(p)
          /\ UNCHANGED refund

\* Any other event sets the status whatever it was.
Overwritten(kind, old) ==
    IF kind = "payment_failed" THEN "failed"
    ELSE IF kind = "payment_cancelled" THEN "cancelled"
    ELSE IF kind = "refund_completed" THEN "refunded"
    ELSE old

Webhook(e) ==
    LET p == e.payment
    IN  /\ gateway[p] \in Reported(e.kind)
        /\ e \notin seen
        /\ stored[p]
        /\ ~Skipped(p)
        /\ IF Mapped(e.kind) = "payment_completed"
           THEN Completed(p)
           ELSE /\ status' = [status EXCEPT ![p] = Overwritten(Mapped(e.kind), @)]
                /\ UNCHANGED <<order, refund>>
        /\ seen' = seen \cup {e}
        /\ UNCHANGED <<stored, age, thread, poller, gateway, crashes>>

(***************************************************************************)
(* The refund of a late payment, in one step: module Refunds has the rest. *)
(***************************************************************************)
LateRefund(p) ==
    /\ refund[p] = "reserved"
    /\ \/ /\ refund' = [refund EXCEPT ![p] = "succeeded"]
          /\ gateway' = [gateway EXCEPT ![p] = "refunded"]
          /\ status' = [status EXCEPT ![p] = "refunded"]
          /\ order' = [order EXCEPT !.payment_status = "refunded"]
       \/ /\ refund' = [refund EXCEPT ![p] = "failed"]
          /\ order' = [order EXCEPT !.payment_status = "paid"]
          /\ UNCHANGED <<gateway, status>>
    /\ UNCHANGED <<stored, age, seen, thread, poller, crashes>>

(***************************************************************************)
(* Polling.  sync_expired_payments reads all pending payments past their   *)
(* time to live, and which of them are past saving; get_status reads the   *)
(* latest payment of the order.  What is read is not read again.           *)
(***************************************************************************)
PollStart(w) ==
    /\ poller[w] = Idle
    /\ \/ LET expired == {p \in Pending : stored[p] /\ age[p] >= 1}
          IN  /\ expired # {}
              /\ poller' = [poller EXCEPT ![w] = Between(expired, {p \in expired : age[p] = 2})]
       \/ \E p \in Pending :
             /\ IsLatest(p) /\ stored[p]
             /\ poller' = [poller EXCEPT ![w] = Between({p}, {})]
    /\ UNCHANGED <<db, age, thread, gateway, crashes>>

PollNext(w, p) ==
    [poller EXCEPT ![w] = Between(poller[w].todo \ {p}, poller[w].old \ {p})]

\* Only the status column is written.
PollAbandon(w) ==
    /\ poller[w].pc = "next"
    /\ \E p \in poller[w].todo \cap poller[w].old :
          /\ status' = [status EXCEPT ![p] = "cancelled"]
          /\ poller' = PollNext(w, p)
    /\ UNCHANGED <<order, stored, age, refund, seen, thread, gateway, crashes>>

\* retrieve_payment: a captured payment stays captured when it is refunded.
Tells(session) ==
    IF session \in {"paid", "refunded"} THEN "succeeded"
    ELSE IF session = "closed" THEN "cancelled"
    ELSE "none"

PollQuery(w) ==
    /\ poller[w].pc = "next"
    /\ \E p \in poller[w].todo \ poller[w].old :
          \/ poller' = PollNext(w, p)        \* nothing new, a mismatch, or the call raised
          \/ /\ Tells(gateway[p]) # "none"
             /\ poller' = [poller EXCEPT ![w].pc = "write", ![w].todo = @ \ {p},
                                         ![w].payment = p, ![w].answer = Tells(gateway[p])]
    /\ UNCHANGED <<db, age, thread, gateway, crashes>>

Recorded(answer) == IF answer = "succeeded" THEN "success" ELSE "failed"

PollWrite(w) ==
    LET p == poller[w].payment
    IN  /\ poller[w].pc = "write"
        /\ status' = [status EXCEPT ![p] = Recorded(poller[w].answer)]
        /\ poller' = IF poller[w].answer = "succeeded"
                     THEN [poller EXCEPT ![w].pc = "read"] ELSE PollNext(w, p)
        /\ UNCHANGED <<order, stored, age, refund, seen, thread, gateway, crashes>>

\* payment.order is fetched now and its status looked at; when it is not payable,
\* Order.pay raises and the caller logs it.
PollReadOrder(w) ==
    /\ poller[w].pc = "read"
    /\ poller' = IF order.status = "pending_payment"
                 THEN [poller EXCEPT ![w].pc = "save"]
                 ELSE PollNext(w, poller[w].payment)
    /\ UNCHANGED <<db, age, thread, gateway, crashes>>

\* Order.save writes every column.
PollPay(w) ==
    /\ poller[w].pc = "save"
    /\ order' = PaidBy(poller[w].payment)
    /\ poller' = PollNext(w, poller[w].payment)
    /\ UNCHANGED <<status, stored, age, refund, seen, thread, gateway, crashes>>

PollStep(w) ==
    \/ PollStart(w)
    \/ PollAbandon(w)
    \/ PollQuery(w)
    \/ PollWrite(w)
    \/ PollReadOrder(w)
    \/ PollPay(w)

(***************************************************************************)
(* The user's cancel, under the order's lock; time; crashes.               *)
(***************************************************************************)
CancelOrder ==
    /\ order.status = "pending_payment"
    /\ order' = [order EXCEPT !.status = "cancelled"]
    /\ UNCHANGED <<status, stored, age, refund, seen, thread, poller, gateway, crashes>>

Tick(p) ==
    /\ Exists(p)
    /\ age[p] < MaxAge
    /\ age' = [age EXCEPT ![p] = @ + 1]
    /\ UNCHANGED <<db, thread, poller, gateway, crashes>>

ThreadCrash(p) ==
    /\ crashes < MaxCrashes
    /\ thread[p] # "none"
    /\ thread' = [thread EXCEPT ![p] = "none"]
    /\ crashes' = crashes + 1
    /\ UNCHANGED <<db, age, poller, gateway>>

PollCrash(w) ==
    /\ crashes < MaxCrashes
    /\ poller[w] # Idle
    /\ poller' = [poller EXCEPT ![w] = Idle]
    /\ crashes' = crashes + 1
    /\ UNCHANGED <<db, age, thread, gateway>>

Next ==
    \/ \E p \in Payment : \/ CreatePayment(p)
                          \/ GatewayOpen(p)
                          \/ CreateFailed(p)
                          \/ StoreGatewayId(p)
                          \/ UserPays(p)
                          \/ LateRefund(p)
                          \/ Tick(p)
                          \/ ThreadCrash(p)
    \/ \E e \in Event : Webhook(e)
    \/ \E w \in Pollers : PollStep(w) \/ PollCrash(w)
    \/ CancelOrder

Spec == Init /\ [][Next]_vars

\* A gateway reports a capture until it is acknowledged, and a poll that has begun
\* runs on; nobody has to poll, pay or cancel.
FairSpec ==
    /\ Spec
    /\ \A p \in Payment, id \in EventIds :
          WF_vars(Webhook([payment |-> p, kind |-> "payment_completed", id |-> id]))
    /\ \A w \in Pollers : WF_vars(PollStep(w))

-----------------------------------------------------------------------------

TypeOK ==
    /\ order \in Order
    /\ status \in [Payment -> PaymentStatus]
    /\ stored \in [Payment -> BOOLEAN]
    /\ age \in [Payment -> 0..MaxAge]
    /\ refund \in [Payment -> {"none", "reserved", "succeeded", "failed"}]
    /\ seen \subseteq Event
    /\ thread \in [Payment -> {"none", "call", "store", "fail"}]
    /\ poller \in [Pollers -> Poll]
    /\ gateway \in [Payment -> {"none", "open", "paid", "closed", "refunded"}]
    /\ crashes \in 0..MaxCrashes

Captured(p) == gateway[p] \in {"paid", "refunded"}

\* Nothing is taken for paid that was not: neither a payment nor the order, whatever
\* declined attempts, closed sessions and stale polls report.
PaidMeansCaptured ==
    /\ \A p \in Payment : status[p] = "success" => Captured(p)
    /\ order.status = "paid" => \E p \in Payment : order.payment_no = p /\ Captured(p)

\* create_payment keeps one payment of an order open at a time (防重复), although it
\* calls the gateway outside the lock and old payments come back through late events.
OnePending == \A p, q \in Pending : p = q

\* A capture the webhook acknowledged is the one the order was paid with, or is being
\* refunded: the event is not filed when the order could not take the money.
AcknowledgedIsAccounted ==
    \A e \in seen : e.kind = "payment_completed" =>
        order.payment_no = e.payment \/ refund[e.payment] # "none"

\* A payment known as captured is not made to fail by a report of a declined attempt
\* that arrives late, or by a poll that asked before; only the sync job's abandoning of
\* an old payment can undo it.
SuccessStays ==
    [][\A p \in Payment : status[p] = "success" =>
          status'[p] \in {"success", "refunded"} \/ \E w \in Pollers : PollAbandon(w)]_vars

\* A capture reaches the order, whichever of webhook and poll sees it first: "用于 webhook
\* 丢失/延迟的补偿" (payment/services.py:707), one path makes up for the other.  A process
\* that dies between the payment's SUCCESS and the order's is the exception: both paths
\* skip the payment from then on.
CaptureReachesOrder ==
    \A p \in Payment : gateway[p] = "paid" ~>
        order.status \in {"paid", "cancelled"} \/ crashes > 0

\* "Automatic refund for payment received after order cancellation"
\* (payment/services.py:259): a capture of a cancelled order is refunded.
LateCaptureIsRefunded ==
    \A p \in Payment : gateway[p] = "paid" /\ order.status = "cancelled" ~> refund[p] # "none"

\* What module Settlement calls the fate of payment p, and the payments and the order
\* as it sees them.
FateOf(p) ==
    IF order.payment_no = p THEN "credited"
    ELSE CASE refund[p] = "reserved" -> "owed"
           [] refund[p] = "succeeded" -> "returned"
           [] refund[p] = "failed" -> "refused"
           [] OTHER -> IF gateway[p] = "paid" THEN "captured" ELSE "open"
Fate == [p \in Payment |-> FateOf(p)]
Cancelled == order.status = "cancelled"
Settled == INSTANCE Settlement WITH fate <- Fate, cancelled <- Cancelled

\* Every capture ends in one place: the order takes one of them at most, none once it is
\* cancelled, and what a cancelled order was told of is handed back and never taken, in
\* whatever order reports, cancel and late refund arrive.  A poll may break this.
ImplementsSettlement == Settled!Spec

\* How it would: by saving the order it read over one that was cancelled or paid since,
\* against "Only Pending Payment orders can be paid." (order/models.py:162).
PollsPayPending == \A w \in Pollers : PollPay(w) => order.status = "pending_payment"

\* What the refinement rests on.  Only a paid order names a payment; only a cancelled one
\* refunds any; and the gateway refunds what was owed.
OneFate ==
    /\ order.payment_no # 0 => order.status = "paid"
    /\ \A p \in Payment : /\ refund[p] # "none" => order.status = "cancelled"
                          /\ gateway[p] = "refunded" => refund[p] = "succeeded"

\* What PaidMeansCaptured rests on: a poll only writes a success it was told.
PollsAreTrue ==
    \A w \in Pollers :
        /\ poller[w].pc = "write" /\ poller[w].answer = "succeeded" => Captured(poller[w].payment)
        /\ poller[w].pc \in {"read", "save"} => Captured(poller[w].payment)

\* ... what is refunded was captured ...
RefundsAreOfCaptures == \A p \in Payment : refund[p] # "none" => Captured(p)

\* ... and a session is opened once, for a payment that exists.
SessionsAreFresh ==
    \A p \in Payment :
        /\ status[p] = "absent" => gateway[p] = "none" /\ thread[p] = "none"
        /\ thread[p] = "call" => gateway[p] = "none"
=============================================================================
