------------------------------- MODULE Refunds -------------------------------
(***************************************************************************)
(* The refund half of PaymentService: the RefundLog rows of one payment,   *)
(* the request threads that reserve a refund, commit, and only then call   *)
(* the gateway, and the reconciliation jobs that settle rows whose outcome *)
(* is unknown.                                                             *)
(*                                                                         *)
(* A row is named by its idempotency key, which is unique per payment.     *)
(* Every transaction that writes a row holds the locks of the row, of the  *)
(* payment and of the order, so each transaction is one action; the calls  *)
(* to the gateway happen between transactions and are actions of their own.*)
(***************************************************************************)
EXTENDS Money

CONSTANTS NumKeys,      \* idempotency keys of the payment's refunds: 1..NumKeys
          Amount,       \* payment.amount
          LateKey,      \* the key 'late-payment:<payment_no>'
          Jobs,         \* runs of reconcile_unknown_refunds that may overlap
          MaxAttempts,  \* REFUND_RECONCILIATION_MAX_ATTEMPTS
          MaxCrashes,   \* bound on process crashes in one behaviour
          RefusalIsRejection
    \* whether a call turned away at the gateway's door (401, 429: nothing is said of
    \* earlier calls) raises GatewayRefundRejectedError: paypal.py, not stripe.py

ASSUME RefundsAssumption ==
    /\ NumKeys \in Nat
    /\ Amount \in Nat \ {0}
    /\ LateKey \in 1..NumKeys
    /\ MaxAttempts \in Nat
    /\ MaxCrashes \in Nat
    /\ RefusalIsRejection \in BOOLEAN

Key == 1..NumKeys

VARIABLES payment,   \* PaymentLog.status
          order,     \* Order.payment_status
          coupon,    \* the coupon spent on the order: "none", "used" or "returned"
          refund,    \* refund[k]: the RefundLog row with key k
          thread,    \* thread[k]: the request that reserved row k
          job,       \* job[j]: a reconciliation run and its local snapshot
          gateway,   \* gateway[k]: the refund the gateway holds under row k's request id
          crashes

db == <<payment, order, coupon, refund>>
vars == <<payment, order, coupon, refund, thread, job, gateway, crashes>>

Open == {"pending", "unknown"}
Terminal == {"succeeded", "failed"}
RefundStatus == {"absent"} \cup Open \cup Terminal
OrderStatus == {"unpaid", "paid", "refunding", "partially_refunded", "refunded"}

\* What a call to the gateway can come back with.  "mismatch": a success whose
\* amount or currency is not the row's.  "lost": an exception that says nothing
\* of the outcome, or an answer without a usable status.
Answer == {"succeeded", "mismatch", "pending", "failed", "rejected", "lost"}
GatewayStatus == {"none", "pending", "done", "failed", "rejected"}

\* A RefundLog row: the fields the refund code reads back.
Row == [status: RefundStatus, amount: 0..Amount, gatewayId: BOOLEAN,
        attempts: Nat, error: {"none", "gateway", "max_attempts"}]
NewRow(status, amount) == [status |-> status, amount |-> amount, gatewayId |-> FALSE,
                           attempts |-> 0, error |-> "none"]
Absent == NewRow("absent", 0)
Run == [pc: {"next", "giveup", "query", "replay", "apply", "count"},
        todo: SUBSET Key, key: Key, attempts: Nat, gatewayId: BOOLEAN, answer: Answer]
Between(todo) == [pc |-> "next", todo |-> todo, key |-> 1, attempts |-> 0,
                  gatewayId |-> FALSE, answer |-> "lost"]
Idle == Between({})

(***************************************************************************)
(* Sums over the rows of the payment.                                      *)
(***************************************************************************)
SumOf(r, statuses) ==
    Total([k \in Key |-> IF r[k].status \in statuses THEN r[k].amount ELSE 0], NumKeys)

\* reserved_amount: what is under way or paid out.
Reserved == SumOf(refund, Open \cup {"succeeded"})
PaidOut == SumOf(refund, {"succeeded"})
\* Mutant of Remaining: counts only what was paid out, not what is under way.
RemainingOfPaid == Amount - PaidOut
Remaining == Amount - Reserved
Some(r, statuses) == \E k \in Key : r[k].status \in statuses

Init ==
    /\ payment = "pending"
    /\ order = "unpaid"
    /\ coupon \in {"none", "used"}
    /\ refund = [k \in Key |-> Absent]
    /\ thread = [k \in Key |-> "none"]
    /\ job = [j \in Jobs |-> Idle]
    /\ gateway = [k \in Key |-> "none"]
    /\ crashes = 0

(***************************************************************************)
(* The payment is captured: the completed branch of the webhook.  For an   *)
(* order cancelled meanwhile it reserves a refund of everything.           *)
(***************************************************************************)
PaymentCompleted(cancelled) ==
    /\ payment = "pending"
    /\ payment' = "success"
    /\ IF cancelled
       THEN /\ order' = "refunding"
            /\ refund' = [refund EXCEPT ![LateKey] = NewRow("pending", Amount)]
            /\ thread' = [thread EXCEPT ![LateKey] = "call"]
       ELSE /\ order' = "paid"
            /\ UNCHANGED <<refund, thread>>
    /\ UNCHANGED <<coupon, job, gateway, crashes>>

(***************************************************************************)
(* create_refund, its reserving transaction.  A key that has a row returns *)
(* that row and changes nothing; no amount means all that remains.         *)
(***************************************************************************)
CreateRefund(k, amount) ==
    /\ payment = "success"
    /\ refund[k].status = "absent"
    /\ order # "refunded"
    /\ amount > 0
    /\ amount <= Remaining
    /\ order' = "refunding"
    /\ refund' = [refund EXCEPT ![k] = NewRow("pending", amount)]
    /\ thread' = [thread EXCEPT ![k] = "call"]
    /\ UNCHANGED <<payment, coupon, job, gateway, crashes>>

(***************************************************************************)
(* The gateway.  It is idempotent in the row's request id: once a refund   *)
(* exists under the id, or was rejected, every later call finds that.  Any *)
(* answer may be lost on the way back, and a lost call may not have arrived.*)
(***************************************************************************)
Answers(status) ==
    {"lost"} \cup CASE status = "done" -> {"succeeded", "mismatch"}
                    [] status = "none" -> {}
                    [] OTHER -> {status}

GatewayCreate(k, answer) ==
    \/ \E status \in IF gateway[k] = "none" THEN GatewayStatus ELSE {gateway[k]} :
          /\ answer \in Answers(status)
          /\ gateway' = [gateway EXCEPT ![k] = status]
    \/ RefusalIsRejection /\ answer = "rejected" /\ UNCHANGED gateway

GatewaySettles(k) ==
    /\ gateway[k] = "pending"
    /\ \E status \in {"done", "failed"} : gateway' = [gateway EXCEPT ![k] = status]
    /\ UNCHANGED <<db, thread, job, crashes>>

\* Mutant of Verdict: takes a call that raised for a call that failed.
VerdictLostIsFailed(answer) ==
    CASE answer = "succeeded" -> "succeeded"
      [] answer \in {"failed", "rejected", "lost"} -> "failed"
      [] OTHER -> "unknown"
\* _classify_refund_result, and the mapping of exceptions to a status.
Verdict(answer) ==
    CASE answer = "succeeded" -> "succeeded"
      [] answer \in {"failed", "rejected"} -> "failed"
      [] OTHER -> "unknown"

CarriesId(answer) == answer \in {"succeeded", "mismatch", "pending", "failed"}

(***************************************************************************)
(* _finalize_refund: one transaction; a row already settled is left alone. *)
(***************************************************************************)
\* Mutant of Settled: the row is settled again by whoever comes late.
NeverSettled(k) == FALSE
Settled(k) == refund[k].status \in Terminal

IsFull(status, r) == status = "succeeded" /\ SumOf(r, {"succeeded"}) >= Amount

\* Mutant of OrderAfter: a failed refund puts the order back to PAID whatever the
\* other refunds are doing.
OrderAfterFailedIsPaid(status, r) ==
    IF IsFull(status, r) THEN "refunded"
    ELSE IF status = "unknown" \/ (status # "failed" /\ Some(r, Open)) THEN "refunding"
    ELSE IF status = "succeeded" THEN "partially_refunded"
    ELSE "paid"
\* Mutant of OrderAfter: the status of the payment log where the order's belongs.
OrderAfterWrongEnum(status, r) == IF Some(r, Open) THEN "refunding" ELSE "success"
OrderAfter(status, r) ==
    IF IsFull(status, r) THEN "refunded"
    ELSE IF status = "unknown" \/ Some(r, Open) THEN "refunding"
    ELSE IF status = "succeeded" \/ Some(r, {"succeeded"}) THEN "partially_refunded"
    ELSE "paid"

\* Mutant of CouponAfter: any refund gives the coupon back.
CouponAfterAnyRefund(full) == IF coupon = "used" THEN {"used", "returned"} ELSE {coupon}
\* return_for_refund: only a full refund, and only a coupon still in its window.
CouponAfter(full) == IF full /\ coupon = "used" THEN {"used", "returned"} ELSE {coupon}

FinalizeRefund(k, status, hasId, error) ==
    IF Settled(k)
    THEN UNCHANGED db
    ELSE LET r == [refund EXCEPT ![k].status = status,
                                 ![k].gatewayId = @ \/ hasId,
                                 ![k].error = error]
         IN  /\ refund' = r
             /\ order' = OrderAfter(status, r)
             /\ payment' = IF IsFull(status, r) THEN "refunded" ELSE payment
             /\ coupon' \in CouponAfter(IsFull(status, r))

(***************************************************************************)
(* _process_reserved_refund, run by the thread that reserved the row.      *)
(***************************************************************************)
ThreadCall(k) ==
    /\ thread[k] = "call"
    /\ IF refund[k].status # "pending"
       THEN thread' = [thread EXCEPT ![k] = "none"] /\ UNCHANGED gateway
       ELSE \E answer \in Answer :
               GatewayCreate(k, answer) /\ thread' = [thread EXCEPT ![k] = answer]
    /\ UNCHANGED <<db, job, crashes>>

ThreadFinalize(k) ==
    /\ thread[k] \in Answer
    /\ FinalizeRefund(k, Verdict(thread[k]), CarriesId(thread[k]), "gateway")
    /\ thread' = [thread EXCEPT ![k] = "none"]
    /\ UNCHANGED <<job, gateway, crashes>>

(***************************************************************************)
(* reconcile_unknown_refunds: a snapshot of the ids of the UNKNOWN rows,   *)
(* then for each id a fresh read of the row (whose status is not checked   *)
(* again), a query, possibly a replay of the refund, and the settlement.   *)
(* The batch holds all UNKNOWN rows: NumKeys is far below the batch size.  *)
(***************************************************************************)
JobStart(j) ==
    /\ job[j].pc = "next" /\ job[j].todo = {}
    /\ Some(refund, {"unknown"})
    /\ job' = [job EXCEPT ![j].todo = {k \in Key : refund[k].status = "unknown"}]
    /\ UNCHANGED <<db, thread, gateway, crashes>>

JobRead(j) ==
    /\ job[j].pc = "next"
    /\ \E k \in job[j].todo :
          job' = [job EXCEPT ![j] =
                    [pc |-> IF refund[k].attempts >= MaxAttempts THEN "giveup" ELSE "query",
                     todo |-> job[j].todo \ {k}, key |-> k,
                     attempts |-> refund[k].attempts, gatewayId |-> refund[k].gatewayId,
                     answer |-> "lost"]]
    /\ UNCHANGED <<db, thread, gateway, crashes>>

\* On to the next id of the batch; nothing of the last one is kept.
JobNext(j) == [job EXCEPT ![j] = Between(job[j].todo)]

JobGiveUp(j) ==
    /\ job[j].pc = "giveup"
    /\ FinalizeRefund(job[j].key, "failed", FALSE, "max_attempts")
    /\ job' = JobNext(j)
    /\ UNCHANGED <<thread, gateway, crashes>>

\* Without a gateway refund id the query answers "unavailable" and the refund is
\* replayed under the same request id.
JobQuery(j) ==
    /\ job[j].pc = "query"
    /\ \/ job' = [job EXCEPT ![j].pc = "count"]                       \* the query raised
       \/ /\ ~job[j].gatewayId
          /\ job' = [job EXCEPT ![j].pc = "replay"]
       \/ /\ job[j].gatewayId
          /\ \E answer \in Answers(gateway[job[j].key]) :
                job' = [job EXCEPT ![j].pc = "apply", ![j].answer = answer]
    /\ UNCHANGED <<db, thread, gateway, crashes>>

JobReplay(j) ==
    /\ job[j].pc = "replay"
    /\ \E answer \in Answer :
          /\ GatewayCreate(job[j].key, answer)
          /\ job' = [job EXCEPT ![j].pc = "apply", ![j].answer = answer]
    /\ UNCHANGED <<db, thread, crashes>>

JobApply(j) ==
    LET status == Verdict(job[j].answer)
    IN  /\ job[j].pc = "apply"
        /\ FinalizeRefund(job[j].key, status, CarriesId(job[j].answer), "gateway")
        /\ job' = IF status = "unknown" THEN [job EXCEPT ![j].pc = "count"] ELSE JobNext(j)
        /\ UNCHANGED <<thread, gateway, crashes>>

\* Mutant of Count: the counter stands still.
CountStands(j) == job[j].attempts
\* The counter is written from the snapshot, not incremented in the database.
Count(j) == job[j].attempts + 1

JobCount(j) ==
    /\ job[j].pc = "count"
    /\ refund' = [refund EXCEPT ![job[j].key].attempts = Count(j)]
    /\ job' = JobNext(j)
    /\ UNCHANGED <<payment, order, coupon, thread, gateway, crashes>>

JobStep(j) ==
    \/ JobStart(j)
    \/ JobRead(j)
    \/ JobGiveUp(j)
    \/ JobQuery(j)
    \/ JobReplay(j)
    \/ JobApply(j)
    \/ JobCount(j)

(***************************************************************************)
(* A process dies between two steps: what it held in memory is gone.       *)
(***************************************************************************)
ThreadCrash(k) ==
    /\ crashes < MaxCrashes
    /\ thread[k] # "none"
    /\ thread' = [thread EXCEPT ![k] = "none"]
    /\ crashes' = crashes + 1
    /\ UNCHANGED <<db, job, gateway>>

JobCrash(j) ==
    /\ crashes < MaxCrashes
    /\ job[j] # Idle
    /\ job' = [job EXCEPT ![j] = Idle]
    /\ crashes' = crashes + 1
    /\ UNCHANGED <<db, thread, gateway>>

Next ==
    \/ \E cancelled \in BOOLEAN : PaymentCompleted(cancelled)
    \/ \E k \in Key : \/ \E amount \in 1..Amount : CreateRefund(k, amount)
                      \/ GatewaySettles(k)
                      \/ ThreadCall(k)
                      \/ ThreadFinalize(k)
                      \/ ThreadCrash(k)
    \/ \E j \in Jobs : JobStep(j) \/ JobCrash(j)

Spec == Init /\ [][Next]_vars

\* Threads that did not crash run on; reconciliation is started again and again.
FairSpec ==
    /\ Spec
    /\ \A k \in Key : WF_vars(ThreadCall(k) \/ ThreadFinalize(k))
    /\ \A j \in Jobs : WF_vars(JobStep(j))

-----------------------------------------------------------------------------

TypeOK ==
    /\ payment \in {"pending", "success", "refunded"}
    /\ order \in OrderStatus
    /\ coupon \in {"none", "used", "returned"}
    /\ refund \in [Key -> Row]
    /\ thread \in [Key -> {"none", "call"} \cup Answer]
    /\ job \in [Jobs -> Run]
    /\ gateway \in [Key -> GatewayStatus]
    /\ crashes \in 0..MaxCrashes

\* The refunds of a payment that are under way or paid out never add up to more
\* than the payment, whatever requests, jobs, lost answers and crashes interleave:
\* the check of create_refund against reserved_amount is enough.
NeverOverReserved == Reserved <= Amount

\* Order.payment_status is exactly what the refund rows say, although each of the
\* three writers (webhook, create_refund, _finalize_refund) sets it from what it
\* happens to see; and the payment is REFUNDED exactly when all of it is paid out.
StatusMatchesRows ==
    IF payment = "pending"
    THEN order = "unpaid" /\ ~Some(refund, RefundStatus \ {"absent"})
    ELSE /\ (payment = "refunded") <=> (PaidOut = Amount)
         /\ (order = "refunded") <=> (PaidOut = Amount)
         /\ (order = "refunding") <=> Some(refund, Open)
         /\ (order = "partially_refunded") <=>
                PaidOut > 0 /\ PaidOut < Amount /\ ~Some(refund, Open)
         /\ (order = "paid") <=> PaidOut = 0 /\ ~Some(refund, Open)

\* Money the gateway has paid out is still counted as reserved, unless a job gave
\* the row up after MaxAttempts: no lost answer, crash or overlap of two jobs
\* makes the code believe that a refund that happened did not.  This holds for a
\* gateway client that does not take a refusal for a rejection.
PaidOutIsCounted ==
    \A k \in Key : gateway[k] = "done" =>
        \/ refund[k].status \in Open \cup {"succeeded"}
        \/ refund[k].error = "max_attempts"

\* The coupon of an order comes back only with a full refund.
CouponBackOnlyWhenRefunded == coupon = "returned" => payment = "refunded"

\* A settled row is never settled again or reopened, not by a late thread, not by
\* a second job working from a stale list of ids.
TerminalIsFinal ==
    [][\A k \in Key : refund[k].status \in Terminal
                        => refund'[k].status = refund[k].status]_vars

\* What the safety invariants rest on: a captured payment comes before its refunds,
\* a reserved refund is for something, and threads and jobs work on existing rows.
RowsAreReserved ==
    /\ payment = "pending" => \A k \in Key : refund[k].status = "absent"
    /\ \A k \in Key : refund[k].status # "absent" => refund[k].amount > 0
    /\ \A k \in Key : thread[k] # "none" => refund[k].status # "absent"
    /\ \A j \in Jobs : /\ \A k \in job[j].todo : refund[k].status # "absent"
                       /\ job[j].pc # "next" => refund[job[j].key].status # "absent"

LedgerState == [k \in Key |-> CASE refund[k].status = "absent" -> "free"
                                [] refund[k].status \in Open -> "held"
                                [] refund[k].status = "succeeded" -> "paid"
                                [] OTHER -> "void"]
LedgerHeld == [k \in Key |-> refund[k].amount]
Ledger == INSTANCE RefundLedger WITH state <- LedgerState, held <- LedgerHeld
\* Every hold of money ends once, and no hold takes what another one has: the rows
\* implement the abstract ledger.
ImplementsLedger == Ledger!Spec

\* A row whose outcome is unknown is settled in the end: the attempts counter stops
\* the retries even when the gateway never answers and two jobs overwrite each
\* other's count.
UnknownIsSettled ==
    \A k \in Key : refund[k].status = "unknown" ~> refund[k].status \in Terminal
=============================================================================
