--------------------------- MODULE PaymentsProofs ---------------------------
(***************************************************************************)
(* What holds of module Payments for any number of payments, polls and     *)
(* event ids: types, that nothing is taken for paid without a capture,     *)
(* that one payment of an order is open at a time, that without polls      *)
(* every acknowledged capture is accounted for, and that module Settlement *)
(* is implemented but for polls that save a stale order.                   *)
(***************************************************************************)
EXTENDS Payments, TLAPS

(***************************************************************************)
(* Lemmas on the pieces the actions are built from.                        *)
(***************************************************************************)

\* A poll that goes on to its next row is a poll.
LEMMA PollNextType ==
    ASSUME NEW w \in Pollers, NEW p \in Payment, poller \in [Pollers -> Poll]
    PROVE  PollNext(w, p) \in [Pollers -> Poll]
<1>1. poller[w].todo \ {p} \subseteq Payment /\ poller[w].old \ {p} \subseteq Payment
    BY DEF Poll
<1>2. 1 \in Payment
    BY PaymentsAssumption DEF Payment, PaymentsAssumption
<1>3. Between(poller[w].todo \ {p}, poller[w].old \ {p}) \in Poll
    BY <1>1, <1>2 DEF Between, Poll
<1> QED
    BY <1>3 DEF PollNext

\* A poll that goes on to its next row has nothing to write.
LEMMA PollNextIdle ==
    ASSUME NEW w \in Pollers, NEW p, poller \in [Pollers -> Poll]
    PROVE  \A v \in Pollers : PollNext(w, p)[v] = IF v = w
               THEN Between(poller[w].todo \ {p}, poller[w].old \ {p}) ELSE poller[v]
BY DEF PollNext

\* The order a payment has paid is an order.
LEMMA PaidByType ==
    ASSUME NEW p \in Payment
    PROVE  PaidBy(p) \in Order
BY PaymentsAssumption DEF PaidBy, Order, Payment, PaymentsAssumption

\* What an event makes of a status is a status, and never an open or captured one
\* that was not there before.
LEMMA OverwrittenType ==
    ASSUME NEW kind, NEW old \in PaymentStatus
    PROVE  /\ Overwritten(kind, old) \in PaymentStatus
           /\ Overwritten(kind, old) \in {"absent", "pending", "success"} => Overwritten(kind, old) = old
BY DEF Overwritten, PaymentStatus

(***************************************************************************)
(* Types.                                                                  *)
(***************************************************************************)

LEMMA TypeInit == Init => TypeOK
<1> SUFFICES ASSUME Init PROVE TypeOK
    OBVIOUS
<1>1. 1 \in Payment
    BY PaymentsAssumption DEF Payment, PaymentsAssumption
<1>2. Idle \in Poll
    BY <1>1 DEF Idle, Between, Poll
<1>3. [p \in Payment |-> 0] \in [Payment -> 0..MaxAge]
    BY PaymentsAssumption DEF PaymentsAssumption
<1>4. order \in Order
    BY PaymentsAssumption DEF Init, Order, PaymentsAssumption
<1>5. crashes \in 0..MaxCrashes
    BY PaymentsAssumption DEF Init, PaymentsAssumption
<1> QED
    BY <1>2, <1>3, <1>4, <1>5 DEF Init, TypeOK, PaymentStatus

LEMMA TypeStep == TypeOK /\ [Next]_vars => TypeOK'
<1> SUFFICES ASSUME TypeOK, [Next]_vars PROVE TypeOK'
    OBVIOUS
<1> USE DEF TypeOK
<1>1. ASSUME NEW p \in Payment, CreatePayment(p) PROVE TypeOK'
    BY <1>1 DEF CreatePayment, Expire, PaymentStatus
<1>2. ASSUME NEW p \in Payment, GatewayOpen(p) PROVE TypeOK'
    BY <1>2 DEF GatewayOpen, db
<1>3. ASSUME NEW p \in Payment, CreateFailed(p) PROVE TypeOK'
    BY <1>3 DEF CreateFailed, PaymentStatus
<1>4. ASSUME NEW p \in Payment, StoreGatewayId(p) PROVE TypeOK'
    BY <1>4 DEF StoreGatewayId
<1>5. ASSUME NEW p \in Payment, UserPays(p) PROVE TypeOK'
    BY <1>5 DEF UserPays, db
<1>6. ASSUME NEW p \in Payment, LateRefund(p) PROVE TypeOK'
    BY <1>6 DEF LateRefund, PaymentStatus, Order
<1>7. ASSUME NEW p \in Payment, Tick(p) PROVE TypeOK'
    <2>1. age[p] + 1 \in 0..MaxAge
        BY <1>7, PaymentsAssumption DEF Tick, PaymentsAssumption
    <2> QED
        BY <1>7, <2>1 DEF Tick, db
<1>8. ASSUME NEW p \in Payment, ThreadCrash(p) PROVE TypeOK'
    <2>1. crashes + 1 \in 0..MaxCrashes
        BY <1>8, PaymentsAssumption DEF ThreadCrash, PaymentsAssumption
    <2> QED
        BY <1>8, <2>1 DEF ThreadCrash, db
<1>9. ASSUME NEW e \in Event, Webhook(e) PROVE TypeOK'
    <2> DEFINE p == e.payment
    <2>1. p \in Payment
        BY DEF Event
    <2>2. CASE Mapped(e.kind) = "payment_completed"
        <3>1. Completed(p)
            BY <1>9, <2>2 DEF Webhook
        <3>2. order' \in Order
            BY <3>1, <2>1, PaidByType DEF Completed, Order
        <3>3. refund' \in [Payment -> {"none", "reserved", "succeeded", "failed"}]
            BY <3>1, <2>1 DEF Completed
        <3>4. status' \in [Payment -> PaymentStatus]
            BY <3>1, <2>1 DEF Completed, PaymentStatus
        <3> QED
            BY <1>9, <3>2, <3>3, <3>4 DEF Webhook
    <2>3. CASE Mapped(e.kind) # "payment_completed"
        <3>1. Overwritten(Mapped(e.kind), status[p]) \in PaymentStatus
            BY <2>1, OverwrittenType
        <3>2. status' = [status EXCEPT ![p] = Overwritten(Mapped(e.kind), @)]
            BY <1>9, <2>3 DEF Webhook
        <3>3. status' \in [Payment -> PaymentStatus]
            BY <3>1, <3>2, <2>1
        <3> QED
            BY <1>9, <2>3, <3>3 DEF Webhook
    <2> QED
        BY <2>2, <2>3
<1>10. ASSUME NEW w \in Pollers, PollStep(w) PROVE TypeOK'
    <2>0. poller[w] \in Poll /\ poller[w].payment \in Payment /\ poller[w].todo \subseteq Payment
        BY DEF Poll
    <2>1. CASE PollStart(w)
        <3>1. ASSUME NEW todo \in SUBSET Payment, NEW old \in SUBSET Payment
              PROVE  Between(todo, old) \in Poll
            BY PaymentsAssumption DEF Between, Poll, Payment, PaymentsAssumption
        <3>2. \E todo, old \in SUBSET Payment : poller' = [poller EXCEPT ![w] = Between(todo, old)]
            <4> DEFINE expired == {p \in Pending : stored[p] /\ age[p] >= 1}
            <4>1. /\ expired \in SUBSET Payment /\ {p \in expired : age[p] = 2} \in SUBSET Payment
                  /\ {} \in SUBSET Payment /\ \A p \in Pending : {p} \in SUBSET Payment
                BY DEF Pending
            <4> QED
                BY <2>1, <4>1 DEF PollStart
        <3> QED
            BY <2>1, <3>1, <3>2 DEF PollStart, db
    <2>2. CASE PollAbandon(w)
        <3>1. PICK p \in poller[w].todo \cap poller[w].old :
                  /\ status' = [status EXCEPT ![p] = "cancelled"]
                  /\ poller' = PollNext(w, p)
            BY <2>2 DEF PollAbandon
        <3>2. p \in Payment
            BY <2>0
        <3>3. poller' \in [Pollers -> Poll]
            BY <3>1, <3>2, PollNextType
        <3> QED
            BY <2>2, <3>1, <3>2, <3>3 DEF PollAbandon, PaymentStatus
    <2>3. CASE PollQuery(w)
        <3>1. PICK p \in poller[w].todo \ poller[w].old :
                  \/ poller' = PollNext(w, p)
                  \/ /\ Tells(gateway[p]) # "none"
                     /\ poller' = [poller EXCEPT ![w].pc = "write", ![w].todo = @ \ {p},
                                                 ![w].payment = p, ![w].answer = Tells(gateway[p])]
            BY <2>3 DEF PollQuery
        <3>2. p \in Payment
            BY <2>0
        <3>3. Tells(gateway[p]) \in {"none", "succeeded", "cancelled"}
            BY DEF Tells
        <3>4. poller' \in [Pollers -> Poll]
            <4>1. CASE poller' = PollNext(w, p)
                BY <4>1, <3>2, PollNextType
            <4>2. CASE poller' = [poller EXCEPT ![w].pc = "write", ![w].todo = @ \ {p},
                                       ![w].payment = p, ![w].answer = Tells(gateway[p])]
                BY <4>2, <2>0, <3>2, <3>3 DEF Poll
            <4> QED
                BY <3>1, <4>1, <4>2
        <3> QED
            BY <2>3, <3>4 DEF PollQuery, db
    <2>4. CASE PollWrite(w)
        <3>1. PollNext(w, poller[w].payment) \in [Pollers -> Poll]
            BY <2>0, PollNextType
        <3>2. poller' \in [Pollers -> Poll]
            BY <2>4, <2>0, <3>1 DEF PollWrite, Poll
        <3> QED
            BY <2>4, <2>0, <3>2 DEF PollWrite, Recorded, PaymentStatus
    <2>5. CASE PollReadOrder(w)
        <3>1. PollNext(w, poller[w].payment) \in [Pollers -> Poll]
            BY <2>0, PollNextType
        <3>2. poller' \in [Pollers -> Poll]
            BY <2>5, <2>0, <3>1 DEF PollReadOrder, Poll
        <3> QED
            BY <2>5, <3>2 DEF PollReadOrder, db
    <2>6. CASE PollPay(w)
        <3>1. PollNext(w, poller[w].payment) \in [Pollers -> Poll]
            BY <2>0, PollNextType
        <3> QED
            BY <2>6, <2>0, <3>1, PaidByType DEF PollPay
    <2> QED
        BY <1>10, <2>1, <2>2, <2>3, <2>4, <2>5, <2>6 DEF PollStep
<1>11. ASSUME NEW w \in Pollers, PollCrash(w) PROVE TypeOK'
    <2>1. crashes + 1 \in 0..MaxCrashes
        BY <1>11, PaymentsAssumption DEF PollCrash, PaymentsAssumption
    <2>2. Idle \in Poll
        BY PaymentsAssumption DEF Idle, Between, Poll, Payment, PaymentsAssumption
    <2> QED
        BY <1>11, <2>1, <2>2 DEF PollCrash, db
<1>12. CASE CancelOrder
    BY <1>12 DEF CancelOrder, Order
<1>13. CASE UNCHANGED vars
    BY <1>13 DEF vars
<1> QED
    BY <1>1, <1>2, <1>3, <1>4, <1>5, <1>6, <1>7, <1>8, <1>9, <1>10, <1>11, <1>12, <1>13
    DEF Next

\* The variables keep their types.
THEOREM TypeCorrect == Spec => []TypeOK
BY TypeInit, TypeStep, PTL DEF Spec

(***************************************************************************)
(* No payment without a capture.  A poll carries the gateway's word over   *)
(* several steps, so what it carries is part of the invariant.             *)
(***************************************************************************)

CaptureInv ==
    TypeOK /\ SessionsAreFresh /\ RefundsAreOfCaptures /\ PollsAreTrue /\ PaidMeansCaptured

LEMMA CaptureInit == Init => CaptureInv
<1> SUFFICES ASSUME Init PROVE CaptureInv
    OBVIOUS
<1>1. SessionsAreFresh /\ RefundsAreOfCaptures /\ PollsAreTrue /\ PaidMeansCaptured
    BY DEF Init, SessionsAreFresh, RefundsAreOfCaptures, PollsAreTrue, PaidMeansCaptured,
           Idle, Between
<1> QED
    BY <1>1, TypeInit DEF CaptureInv

\* Every status that a webhook writes is one of a payment that was there.
LEMMA WebhookStatus ==
    ASSUME TypeOK, NEW e \in Event, Webhook(e)
    PROVE  \A p \in Payment :
              /\ status'[p] = "absent" => status[p] = "absent"
              /\ status'[p] = "pending" => status[p] = "pending"
              /\ status'[p] = "success" =>
                    \/ status[p] = "success"
                    \/ p = e.payment /\ gateway[p] \in {"paid", "refunded"}
<1> SUFFICES ASSUME NEW p \in Payment
             PROVE  /\ status'[p] = "absent" => status[p] = "absent"
                    /\ status'[p] = "pending" => status[p] = "pending"
                    /\ status'[p] = "success" =>
                          \/ status[p] = "success"
                          \/ p = e.payment /\ gateway[p] \in {"paid", "refunded"}
    OBVIOUS
<1>0. e.payment \in Payment
    BY DEF Event
<1>1. CASE Mapped(e.kind) = "payment_completed"
    <2>1. status' = [status EXCEPT ![e.payment] = "success"]
        BY <1>1 DEF Webhook, Completed
    <2>2. gateway[e.payment] \in {"paid", "refunded"}
        BY <1>1 DEF Webhook, Reported, Mapped
    <2> QED
        BY <2>1, <2>2, <1>0 DEF TypeOK
<1>2. CASE Mapped(e.kind) # "payment_completed"
    <2>1. status' = [status EXCEPT ![e.payment] = Overwritten(Mapped(e.kind), @)]
        BY <1>2 DEF Webhook
    <2>2. status[e.payment] \in PaymentStatus
        BY <1>0 DEF TypeOK
    <2> QED
        BY <2>1, <2>2, <1>0, OverwrittenType DEF TypeOK
<1> QED
    BY <1>1, <1>2

\* What a step of a poll does to the statuses.
LEMMA PollStatus ==
    ASSUME TypeOK, NEW w \in Pollers, PollStep(w)
    PROVE  \A p \in Payment :
              /\ status'[p] = "absent" => status[p] = "absent"
              /\ status'[p] = "pending" => status[p] = "pending"
              /\ status'[p] = "success" =>
                    \/ status[p] = "success"
                    \/ /\ p = poller[w].payment
                       /\ poller[w].pc = "write" /\ poller[w].answer = "succeeded"
<1>1. CASE PollStart(w) \/ PollQuery(w) \/ PollReadOrder(w) \/ PollPay(w)
    <2>1. status' = status
        BY <1>1 DEF PollStart, PollQuery, PollReadOrder, PollPay, db
    <2> QED
        BY <2>1
<1>2. CASE PollAbandon(w)
    <2>1. \E q : status' = [status EXCEPT ![q] = "cancelled"]
        BY <1>2 DEF PollAbandon
    <2> QED
        BY <2>1 DEF TypeOK
<1>3. CASE PollWrite(w)
    <2>1. status' = [status EXCEPT ![poller[w].payment] = Recorded(poller[w].answer)]
        BY <1>3 DEF PollWrite
    <2>2. poller[w].pc = "write"
        BY <1>3 DEF PollWrite
    <2> QED
        BY <2>1, <2>2 DEF TypeOK, Recorded
<1> QED
    BY <1>1, <1>2, <1>3 DEF PollStep

\* A session is opened once.
LEMMA FreshStep == CaptureInv /\ [Next]_vars => SessionsAreFresh'
<1> SUFFICES ASSUME CaptureInv, [Next]_vars PROVE SessionsAreFresh'
    OBVIOUS
<1> USE DEF CaptureInv, SessionsAreFresh
<1>1. ASSUME NEW p \in Payment, CreatePayment(p) PROVE SessionsAreFresh'
    BY <1>1 DEF CreatePayment, Exists, Expire, TypeOK
<1>2. ASSUME NEW p \in Payment, GatewayOpen(p) PROVE SessionsAreFresh'
    BY <1>2 DEF GatewayOpen, db, TypeOK
<1>3. ASSUME NEW p \in Payment, CreateFailed(p) PROVE SessionsAreFresh'
    BY <1>3 DEF CreateFailed, TypeOK
<1>4. ASSUME NEW p \in Payment, StoreGatewayId(p) PROVE SessionsAreFresh'
    BY <1>4 DEF StoreGatewayId, TypeOK
<1>5. ASSUME NEW p \in Payment, UserPays(p) PROVE SessionsAreFresh'
    BY <1>5 DEF UserPays, db, TypeOK
<1>6. ASSUME NEW p \in Payment, LateRefund(p) PROVE SessionsAreFresh'
    <2>1. gateway[p] \in {"paid", "refunded"} /\ thread' = thread
        BY <1>6 DEF LateRefund, RefundsAreOfCaptures, Captured
    <2>2. CASE status' = [status EXCEPT ![p] = "refunded"] /\ gateway' = [gateway EXCEPT ![p] = "refunded"]
        BY <2>1, <2>2 DEF TypeOK
    <2>3. CASE UNCHANGED <<gateway, status>>
        BY <2>1, <2>3
    <2> QED
        BY <1>6, <2>2, <2>3 DEF LateRefund
<1>7. ASSUME NEW p \in Payment, Tick(p) PROVE SessionsAreFresh'
    BY <1>7 DEF Tick, db
<1>8. ASSUME NEW p \in Payment, ThreadCrash(p) PROVE SessionsAreFresh'
    BY <1>8 DEF ThreadCrash, db, TypeOK
<1>9. ASSUME NEW e \in Event, Webhook(e) PROVE SessionsAreFresh'
    <2>1. UNCHANGED <<gateway, thread>>
        BY <1>9 DEF Webhook
    <2> QED
        BY <1>9, <2>1, WebhookStatus
<1>10. ASSUME NEW w \in Pollers, PollStep(w) PROVE SessionsAreFresh'
    <2>1. UNCHANGED <<gateway, thread>>
        BY <1>10 DEF PollStep, PollStart, PollAbandon, PollQuery, PollWrite, PollReadOrder, PollPay
    <2> QED
        BY <1>10, <2>1, PollStatus
<1>11. ASSUME NEW w \in Pollers, PollCrash(w) PROVE SessionsAreFresh'
    BY <1>11 DEF PollCrash, db
<1>12. CASE CancelOrder
    BY <1>12 DEF CancelOrder
<1>13. CASE UNCHANGED vars
    BY <1>13 DEF vars
<1> QED
    BY <1>1, <1>2, <1>3, <1>4, <1>5, <1>6, <1>7, <1>8, <1>9, <1>10, <1>11, <1>12, <1>13
    DEF Next

\* A capture is never undone: a refund leaves the payment captured.
LEMMA CaptureStays ==
    CaptureInv /\ [Next]_vars => \A p \in Payment : Captured(p) => Captured(p)'
<1> SUFFICES ASSUME CaptureInv, [Next]_vars, NEW p \in Payment, Captured(p)
             PROVE  Captured(p)'
    OBVIOUS
<1> USE DEF CaptureInv, TypeOK, Captured
<1>1. ASSUME NEW q \in Payment, GatewayOpen(q) PROVE Captured(p)'
    <2>1. gateway[q] = "none"
        BY <1>1 DEF GatewayOpen, SessionsAreFresh
    <2> QED
        BY <1>1, <2>1 DEF GatewayOpen
<1>2. ASSUME NEW q \in Payment, UserPays(q) PROVE Captured(p)'
    BY <1>2 DEF UserPays
<1>3. ASSUME NEW q \in Payment, LateRefund(q) PROVE Captured(p)'
    BY <1>3 DEF LateRefund
<1>4. CASE UNCHANGED gateway
    BY <1>4
<1>5. ASSUME NEW q \in Payment,
             CreatePayment(q) \/ CreateFailed(q) \/ StoreGatewayId(q) \/ Tick(q) \/ ThreadCrash(q)
      PROVE  UNCHANGED gateway
    BY <1>5 DEF CreatePayment, CreateFailed, StoreGatewayId, Tick, ThreadCrash
<1>6. ASSUME NEW e \in Event, Webhook(e) PROVE UNCHANGED gateway
    BY <1>6 DEF Webhook
<1>7. ASSUME NEW w \in Pollers, PollStep(w) \/ PollCrash(w) PROVE UNCHANGED gateway
    BY <1>7 DEF PollStep, PollStart, PollAbandon, PollQuery, PollWrite, PollReadOrder, PollPay,
                PollCrash
<1>8. CancelOrder \/ UNCHANGED vars => UNCHANGED gateway
    BY DEF CancelOrder, vars
<1> QED
    BY <1>1, <1>2, <1>3, <1>4, <1>5, <1>6, <1>7, <1>8 DEF Next

\* A late refund is reserved for a captured payment only.
LEMMA RefundsStep == CaptureInv /\ [Next]_vars => RefundsAreOfCaptures'
<1> SUFFICES ASSUME CaptureInv, [Next]_vars, NEW p \in Payment
             PROVE  refund'[p] # "none" => Captured(p)'
    BY DEF RefundsAreOfCaptures
<1>1. Captured(p) => Captured(p)'
    BY CaptureStays
<1>2. refund[p] # "none" => Captured(p)
    BY DEF CaptureInv, RefundsAreOfCaptures
<1>3. ASSUME NEW e \in Event, Webhook(e) PROVE refund'[p] # refund[p] => Captured(p)
    <2>1. CASE Mapped(e.kind) = "payment_completed"
        <3>1. gateway[e.payment] \in {"paid", "refunded"} /\ Completed(e.payment)
            BY <1>3, <2>1 DEF Webhook, Reported, Mapped
        <3>2. p # e.payment => refund'[p] = refund[p]
            BY <3>1 DEF Completed, CaptureInv, TypeOK
        <3> QED
            BY <3>1, <3>2 DEF Captured
    <2>2. CASE Mapped(e.kind) # "payment_completed"
        BY <1>3, <2>2 DEF Webhook
    <2> QED
        BY <2>1, <2>2
<1>4. ASSUME NEW q \in Payment, LateRefund(q) PROVE refund'[p] # refund[p] => Captured(p)
    <2>1. p # q => refund'[p] = refund[p]
        BY <1>4 DEF LateRefund, CaptureInv, TypeOK
    <2>2. Captured(q)
        BY <1>4 DEF LateRefund, CaptureInv, RefundsAreOfCaptures
    <2> QED
        BY <2>1, <2>2
<1>5. ASSUME NEW q \in Payment,
             CreatePayment(q) \/ GatewayOpen(q) \/ CreateFailed(q) \/ StoreGatewayId(q)
                \/ UserPays(q) \/ Tick(q) \/ ThreadCrash(q)
      PROVE  UNCHANGED refund
    BY <1>5 DEF CreatePayment, GatewayOpen, CreateFailed, StoreGatewayId, UserPays, Tick,
                ThreadCrash, db
<1>6. ASSUME NEW w \in Pollers, PollStep(w) \/ PollCrash(w) PROVE UNCHANGED refund
    BY <1>6 DEF PollStep, PollStart, PollAbandon, PollQuery, PollWrite, PollReadOrder, PollPay,
                PollCrash, db
<1>7. CancelOrder \/ UNCHANGED vars => UNCHANGED refund
    BY DEF CancelOrder, vars
<1> QED
    BY <1>1, <1>2, <1>3, <1>4, <1>5, <1>6, <1>7 DEF Next

\* What a poll goes on with, it was told or had already been told.
LEMMA PollsStep == CaptureInv /\ [Next]_vars => PollsAreTrue'
<1> SUFFICES ASSUME CaptureInv, [Next]_vars, NEW w \in Pollers
             PROVE  /\ poller'[w].pc = "write" /\ poller'[w].answer = "succeeded"
                           => gateway'[poller'[w].payment] \in {"paid", "refunded"}
                    /\ poller'[w].pc \in {"read", "save"} => gateway'[poller'[w].payment] \in {"paid", "refunded"}
    BY DEF PollsAreTrue, Captured
<1>0. /\ poller \in [Pollers -> Poll] /\ poller[w].payment \in Payment
      /\ poller[w].pc = "write" /\ poller[w].answer = "succeeded" => Captured(poller[w].payment)
      /\ poller[w].pc \in {"read", "save"} => Captured(poller[w].payment)
    BY DEF CaptureInv, TypeOK, PollsAreTrue, Poll
<1>1. \A p \in Payment : Captured(p) => gateway'[p] \in {"paid", "refunded"}
    BY CaptureStays DEF Captured
<1> DEFINE Kept == poller'[w] = poller[w]
           Next1 == poller'[w].pc = "next"
<1>2. Kept \/ Next1 =>
          /\ poller'[w].pc = "write" /\ poller'[w].answer = "succeeded"
                 => gateway'[poller'[w].payment] \in {"paid", "refunded"}
          /\ poller'[w].pc \in {"read", "save"} => gateway'[poller'[w].payment] \in {"paid", "refunded"}
    BY <1>0, <1>1
<1>3. ASSUME NEW v \in Pollers, PollStep(v), v # w PROVE Kept
    <2>1. CASE PollStart(v)
        BY <1>0, <1>3, <2>1 DEF PollStart
    <2>2. CASE PollAbandon(v)
        BY <1>0, <1>3, <2>2 DEF PollAbandon, PollNext
    <2>3. CASE PollQuery(v)
        BY <1>0, <1>3, <2>3 DEF PollQuery, PollNext
    <2>4. CASE PollWrite(v)
        BY <1>0, <1>3, <2>4 DEF PollWrite, PollNext
    <2>5. CASE PollReadOrder(v)
        BY <1>0, <1>3, <2>5 DEF PollReadOrder, PollNext
    <2>6. CASE PollPay(v)
        BY <1>0, <1>3, <2>6 DEF PollPay, PollNext
    <2> QED
        BY <1>3, <2>1, <2>2, <2>3, <2>4, <2>5, <2>6 DEF PollStep
<1>4. CASE PollStart(w) \/ PollAbandon(w) \/ PollPay(w)
    <2>1. Next1
        BY <1>0, <1>4 DEF PollStart, PollAbandon, PollPay, PollNext, Between
    <2> QED
        BY <1>2, <2>1
<1>5. CASE PollQuery(w)
    <2>1. PICK p \in poller[w].todo \ poller[w].old :
              \/ poller' = PollNext(w, p)
              \/ /\ Tells(gateway[p]) # "none"
                 /\ poller' = [poller EXCEPT ![w].pc = "write", ![w].todo = @ \ {p},
                                             ![w].payment = p, ![w].answer = Tells(gateway[p])]
        BY <1>5 DEF PollQuery
    <2>2. p \in Payment
        BY <1>0 DEF Poll
    <2>3. CASE poller' = PollNext(w, p)
        <3>1. Next1
            BY <1>0, <2>3 DEF PollNext, Between
        <3> QED
            BY <1>2, <3>1
    <2>4. CASE poller' = [poller EXCEPT ![w].pc = "write", ![w].todo = @ \ {p},
                                        ![w].payment = p, ![w].answer = Tells(gateway[p])]
        <3>1. /\ poller'[w].pc = "write" /\ poller'[w].payment = p
              /\ poller'[w].answer = Tells(gateway[p])
            BY <1>0, <2>4 DEF Poll
        <3>2. Tells(gateway[p]) = "succeeded" => Captured(p)
            BY DEF Tells, Captured
        <3> QED
            BY <1>1, <2>2, <3>1, <3>2
    <2> QED
        BY <2>1, <2>3, <2>4
<1>6. CASE PollWrite(w)
    <2>1. CASE poller[w].answer = "succeeded"
        <3>1. poller'[w].pc = "read" /\ poller'[w].payment = poller[w].payment
            BY <1>0, <1>6, <2>1 DEF PollWrite, Poll
        <3>2. Captured(poller[w].payment)
            BY <1>0, <1>6, <2>1 DEF PollWrite
        <3> QED
            BY <1>0, <1>1, <3>1, <3>2
    <2>2. CASE poller[w].answer # "succeeded"
        <3>1. Next1
            BY <1>0, <1>6, <2>2 DEF PollWrite, PollNext, Between
        <3> QED
            BY <1>2, <3>1
    <2> QED
        BY <2>1, <2>2
<1>7. CASE PollReadOrder(w)
    <2>1. CASE order.status = "pending_payment"
        <3>1. poller'[w].pc = "save" /\ poller'[w].payment = poller[w].payment
            BY <1>0, <1>7, <2>1 DEF PollReadOrder, Poll
        <3>2. Captured(poller[w].payment)
            BY <1>0, <1>7 DEF PollReadOrder
        <3> QED
            BY <1>0, <1>1, <3>1, <3>2
    <2>2. CASE order.status # "pending_payment"
        <3>1. Next1
            BY <1>0, <1>7, <2>2 DEF PollReadOrder, PollNext, Between
        <3> QED
            BY <1>2, <3>1
    <2> QED
        BY <2>1, <2>2
<1>8. ASSUME NEW v \in Pollers, PollCrash(v) PROVE Kept \/ Next1
    BY <1>0, <1>8 DEF PollCrash, Idle, Between
<1>9. ASSUME NEW q \in Payment,
             CreatePayment(q) \/ GatewayOpen(q) \/ CreateFailed(q) \/ StoreGatewayId(q)
                \/ UserPays(q) \/ LateRefund(q) \/ Tick(q) \/ ThreadCrash(q)
      PROVE  Kept
    BY <1>9 DEF CreatePayment, GatewayOpen, CreateFailed, StoreGatewayId, UserPays, LateRefund,
                Tick, ThreadCrash
<1>10. ASSUME NEW e \in Event, Webhook(e) PROVE Kept
    BY <1>10 DEF Webhook
<1>11. CancelOrder \/ UNCHANGED vars => Kept
    BY DEF CancelOrder, vars
<1>12. ASSUME NEW v \in Pollers, PollStep(v)
       PROVE  /\ poller'[w].pc = "write" /\ poller'[w].answer = "succeeded"
                     => gateway'[poller'[w].payment] \in {"paid", "refunded"}
              /\ poller'[w].pc \in {"read", "save"} => gateway'[poller'[w].payment] \in {"paid", "refunded"}
    <2>1. CASE v # w
        BY <2>1, <1>2, <1>3, <1>12
    <2>2. CASE v = w
        BY <2>2, <1>12, <1>4, <1>5, <1>6, <1>7 DEF PollStep
    <2> QED
        BY <2>1, <2>2
<1> HIDE DEF Kept, Next1
<1> QED
    BY <1>2, <1>8, <1>9, <1>10, <1>11, <1>12 DEF Next

\* A payment that becomes a success was captured.
LEMMA SuccessStep ==
    CaptureInv /\ [Next]_vars =>
        \A p \in Payment : status'[p] = "success" => Captured(p)'
<1> SUFFICES ASSUME CaptureInv, [Next]_vars, NEW p \in Payment
             PROVE  status'[p] = "success" => Captured(p)'
    OBVIOUS
<1>1. Captured(p) => Captured(p)'
    BY CaptureStays
<1>2. status[p] = "success" => Captured(p)
    BY DEF CaptureInv, PaidMeansCaptured
<1>3. ASSUME NEW e \in Event, Webhook(e)
      PROVE  status'[p] = "success" => status[p] = "success" \/ Captured(p)
    BY <1>3, WebhookStatus DEF CaptureInv, Captured
<1>4. ASSUME NEW w \in Pollers, PollStep(w)
      PROVE  status'[p] = "success" => status[p] = "success" \/ Captured(p)
    BY <1>4, PollStatus DEF CaptureInv, PollsAreTrue
<1>5. ASSUME NEW q \in Payment, CreatePayment(q) \/ CreateFailed(q) \/ LateRefund(q)
      PROVE  status'[p] = "success" => status[p] = "success"
    BY <1>5 DEF CreatePayment, Expire, CreateFailed, LateRefund, CaptureInv, TypeOK
<1>6. ASSUME NEW q \in Payment,
             GatewayOpen(q) \/ StoreGatewayId(q) \/ UserPays(q) \/ Tick(q) \/ ThreadCrash(q)
      PROVE  UNCHANGED status
    BY <1>6 DEF GatewayOpen, StoreGatewayId, UserPays, Tick, ThreadCrash, db
<1>7. ASSUME NEW w \in Pollers, PollCrash(w) PROVE UNCHANGED status
    BY <1>7 DEF PollCrash, db
<1>8. CancelOrder \/ UNCHANGED vars => UNCHANGED status
    BY DEF CancelOrder, vars
<1> QED
    BY <1>1, <1>2, <1>3, <1>4, <1>5, <1>6, <1>7, <1>8 DEF Next

\* An order that becomes paid was paid with a captured payment.
LEMMA OrderStep ==
    CaptureInv /\ [Next]_vars =>
        \/ order'.status # "paid"
        \/ order'.payment_no = order.payment_no /\ order.status = "paid"
        \/ \E p \in Payment : order'.payment_no = p /\ Captured(p)
<1> SUFFICES ASSUME CaptureInv, [Next]_vars
             PROVE  \/ order'.status # "paid"
                    \/ order'.payment_no = order.payment_no /\ order.status = "paid"
                    \/ \E p \in Payment : order'.payment_no = p /\ Captured(p)
    OBVIOUS
<1> DEFINE Same == order'.status = order.status /\ order'.payment_no = order.payment_no
           Paid == \E p \in Payment : order'.payment_no = p /\ Captured(p)
<1>0. order \in Order
    BY DEF CaptureInv, TypeOK
<1>1. ASSUME NEW e \in Event, Webhook(e) PROVE Same \/ Paid
    <2>1. CASE Mapped(e.kind) = "payment_completed"
        <3>1. Captured(e.payment) /\ Completed(e.payment)
            BY <1>1, <2>1 DEF Webhook, Reported, Mapped, Captured
        <3>2. CASE order' = [order EXCEPT !.payment_status = "refunding"]
            BY <1>0, <3>2 DEF Order
        <3>3. CASE order' = PaidBy(e.payment)
            BY <3>1, <3>3 DEF PaidBy, Event
        <3> QED
            BY <3>1, <3>2, <3>3 DEF Completed
    <2>2. CASE Mapped(e.kind) # "payment_completed"
        BY <1>1, <2>2 DEF Webhook
    <2> QED
        BY <2>1, <2>2
<1>2. ASSUME NEW q \in Payment, LateRefund(q) PROVE Same
    BY <1>0, <1>2 DEF LateRefund, Order
<1>3. ASSUME NEW w \in Pollers, PollPay(w) PROVE Paid
    <2>1. poller[w].payment \in Payment
        BY DEF CaptureInv, TypeOK, Poll
    <2>2. Captured(poller[w].payment)
        BY <1>3 DEF PollPay, CaptureInv, PollsAreTrue
    <2> QED
        BY <1>3, <2>1, <2>2 DEF PollPay, PaidBy
<1>4. ASSUME NEW w \in Pollers,
             PollStart(w) \/ PollAbandon(w) \/ PollQuery(w) \/ PollWrite(w)
                \/ PollReadOrder(w) \/ PollCrash(w)
      PROVE  Same
    BY <1>4 DEF PollStart, PollAbandon, PollQuery, PollWrite, PollReadOrder, PollCrash, db
<1>5. ASSUME NEW q \in Payment,
             CreatePayment(q) \/ GatewayOpen(q) \/ CreateFailed(q) \/ StoreGatewayId(q)
                \/ UserPays(q) \/ Tick(q) \/ ThreadCrash(q)
      PROVE  Same
    BY <1>5 DEF CreatePayment, GatewayOpen, CreateFailed, StoreGatewayId, UserPays, Tick,
                ThreadCrash, db
<1>6. CancelOrder => order'.status # "paid"
    BY <1>0 DEF CancelOrder, Order
<1>7. UNCHANGED vars => Same
    BY DEF vars
<1> QED
    BY <1>1, <1>2, <1>3, <1>4, <1>5, <1>6, <1>7 DEF Next, PollStep

LEMMA CaptureStep == CaptureInv /\ [Next]_vars => CaptureInv'
<1> SUFFICES ASSUME CaptureInv, [Next]_vars PROVE PaidMeansCaptured'
    BY TypeStep, FreshStep, RefundsStep, PollsStep DEF CaptureInv
<1>1. \A p \in Payment : status'[p] = "success" => Captured(p)'
    BY SuccessStep
<1>2. order'.status = "paid" => \E p \in Payment : order'.payment_no = p /\ Captured(p)'
    <2>1. order.status = "paid" => \E p \in Payment : order.payment_no = p /\ Captured(p)
        BY DEF CaptureInv, PaidMeansCaptured
    <2>2. \A p \in Payment : Captured(p) => Captured(p)'
        BY CaptureStays
    <2> QED
        BY <2>1, <2>2, OrderStep
<1> QED
    BY <1>1, <1>2 DEF PaidMeansCaptured

\* No payment and no order is ever taken for paid without a capture at the gateway.
THEOREM NothingPaidWithoutCapture == Spec => []PaidMeansCaptured
<1>1. CaptureInv => PaidMeansCaptured
    BY DEF CaptureInv
<1> QED
    BY <1>1, CaptureInit, CaptureStep, PTL DEF Spec

(***************************************************************************)
(* One open payment: only create_payment makes a payment pending, and it   *)
(* leaves no other pending.                                                *)
(***************************************************************************)

LEMMA PendingStep ==
    TypeOK /\ [Next]_vars => Pending' \subseteq Pending \/ \E p \in Payment : Pending' = {p}
<1> SUFFICES ASSUME TypeOK, [Next]_vars
             PROVE  Pending' \subseteq Pending \/ \E p \in Payment : Pending' = {p}
    OBVIOUS
<1>1. ASSUME NEW p \in Payment, CreatePayment(p) PROVE Pending' = {p}
    BY <1>1 DEF CreatePayment, Expire, Pending, TypeOK
<1>2. ASSUME NEW e \in Event, Webhook(e) PROVE Pending' \subseteq Pending
    BY <1>2, WebhookStatus DEF Pending
<1>3. ASSUME NEW w \in Pollers, PollStep(w) PROVE Pending' \subseteq Pending
    BY <1>3, PollStatus DEF Pending
<1>4. ASSUME NEW q \in Payment, CreateFailed(q) \/ LateRefund(q) PROVE Pending' \subseteq Pending
    BY <1>4 DEF CreateFailed, LateRefund, Pending, TypeOK
<1>5. ASSUME NEW q \in Payment,
             GatewayOpen(q) \/ StoreGatewayId(q) \/ UserPays(q) \/ Tick(q) \/ ThreadCrash(q)
      PROVE  Pending' = Pending
    BY <1>5 DEF GatewayOpen, StoreGatewayId, UserPays, Tick, ThreadCrash, db, Pending
<1>6. ASSUME NEW w \in Pollers, PollCrash(w) PROVE Pending' = Pending
    BY <1>6 DEF PollCrash, db, Pending
<1>7. CancelOrder \/ UNCHANGED vars => Pending' = Pending
    BY DEF CancelOrder, vars, Pending
<1> QED
    BY <1>1, <1>2, <1>3, <1>4, <1>5, <1>6, <1>7 DEF Next

\* An order has at most one open payment.
THEOREM OneOpenPayment == Spec => []OnePending
<1>1. Init => OnePending
    BY DEF Init, OnePending, Pending
<1>2. TypeOK /\ OnePending /\ [Next]_vars => OnePending'
    BY PendingStep DEF OnePending
<1> QED
    BY <1>1, <1>2, TypeCorrect, PTL DEF Spec

(***************************************************************************)
(* The webhook alone.  An order that is not paid has no payment number, so *)
(* a capture that pays it takes the place of no other.                     *)
(***************************************************************************)

UnpaidHasNone == order.status = "pending_payment" => order.payment_no = 0

\* One step of the webhook accounts for the capture it files, and for all before.
LEMMA WebhookAccounts ==
    ASSUME TypeOK, UnpaidHasNone, AcknowledgedIsAccounted, NEW e \in Event, Webhook(e)
    PROVE  UnpaidHasNone' /\ AcknowledgedIsAccounted'
<1>0. e.payment \in Payment /\ order \in Order /\ seen' = seen \cup {e}
    BY DEF Event, TypeOK, Webhook
<1>1. CASE Mapped(e.kind) # "payment_completed"
    <2>1. UNCHANGED <<order, refund>> /\ e.kind # "payment_completed"
        BY <1>1 DEF Webhook, Mapped
    <2> QED
        BY <1>0, <2>1 DEF UnpaidHasNone, AcknowledgedIsAccounted
<1>2. CASE Mapped(e.kind) = "payment_completed" /\ order.status = "cancelled"
    <2>1. /\ order' = [order EXCEPT !.payment_status = "refunding"]
          /\ refund' = [refund EXCEPT ![e.payment] = IF @ = "none" THEN "reserved" ELSE @]
        BY <1>2 DEF Webhook, Completed
    <2>2. order'.status = order.status /\ order'.payment_no = order.payment_no
        BY <1>0, <2>1 DEF Order
    <2>3. /\ refund'[e.payment] # "none"
          /\ \A p \in Payment : refund[p] # "none" => refund'[p] # "none"
        BY <1>0, <2>1 DEF TypeOK
    <2>4. \A f \in seen : f.payment \in Payment
        BY DEF TypeOK, Event
    <2> QED
        BY <1>0, <2>2, <2>3, <2>4 DEF UnpaidHasNone, AcknowledgedIsAccounted
<1>3. CASE Mapped(e.kind) = "payment_completed" /\ order.status # "cancelled"
    <2>1. order' = PaidBy(e.payment) /\ UNCHANGED refund /\ order.status = "pending_payment"
        BY <1>3 DEF Webhook, Completed
    <2>2. order'.payment_no = e.payment /\ order'.status = "paid"
        BY <2>1 DEF PaidBy
    <2>3. \A f \in seen : f.kind = "payment_completed" => refund[f.payment] # "none"
        <3>1. \A f \in seen : f.payment # 0
            BY DEF TypeOK, Event, Payment
        <3> QED
            BY <2>1, <3>1 DEF UnpaidHasNone, AcknowledgedIsAccounted
    <2> QED
        BY <1>0, <2>1, <2>2, <2>3 DEF UnpaidHasNone, AcknowledgedIsAccounted
<1> QED
    BY <1>1, <1>2, <1>3

\* Without polls, a capture that the webhook has acknowledged is what the order was paid
\* with, or is being refunded.
THEOREM AcknowledgedAccounted ==
    ASSUME Pollers = {}
    PROVE  Spec => []AcknowledgedIsAccounted
<1> DEFINE Inv == UnpaidHasNone /\ AcknowledgedIsAccounted
<1>1. Init => Inv
    BY DEF Init, UnpaidHasNone, AcknowledgedIsAccounted
<1>2. TypeOK /\ Inv /\ [Next]_vars => Inv'
    <2> SUFFICES ASSUME TypeOK, Inv, [Next]_vars PROVE Inv'
        OBVIOUS
    <2>0. order \in Order
        BY DEF TypeOK
    <2>1. ASSUME NEW e \in Event, Webhook(e) PROVE Inv'
        BY <2>1, WebhookAccounts
    <2>2. ASSUME NEW p \in Payment, LateRefund(p) PROVE Inv'
        <3>1. order'.status = order.status /\ order'.payment_no = order.payment_no /\ seen' = seen
            BY <2>0, <2>2 DEF LateRefund, Order
        <3>2. \A q \in Payment : refund[q] # "none" => refund'[q] # "none"
            BY <2>2 DEF LateRefund, TypeOK
        <3>3. \A f \in seen : f.payment \in Payment
            BY DEF TypeOK, Event
        <3> QED
            BY <3>1, <3>2, <3>3 DEF UnpaidHasNone, AcknowledgedIsAccounted
    <2>3. CASE CancelOrder
        <3>1. /\ order'.status = "cancelled" /\ order'.payment_no = order.payment_no
              /\ UNCHANGED <<seen, refund>>
            BY <2>0, <2>3 DEF CancelOrder, Order
        <3> QED
            BY <3>1 DEF UnpaidHasNone, AcknowledgedIsAccounted
    <2>4. CASE UNCHANGED <<order, seen, refund>>
        BY <2>4 DEF UnpaidHasNone, AcknowledgedIsAccounted
    <2>5. ASSUME NEW q \in Payment,
                 CreatePayment(q) \/ GatewayOpen(q) \/ CreateFailed(q) \/ StoreGatewayId(q)
                    \/ UserPays(q) \/ Tick(q) \/ ThreadCrash(q)
          PROVE  UNCHANGED <<order, seen, refund>>
        BY <2>5 DEF CreatePayment, GatewayOpen, CreateFailed, StoreGatewayId, UserPays, Tick,
                    ThreadCrash, db
    <2>6. UNCHANGED vars => UNCHANGED <<order, seen, refund>>
        BY DEF vars
    <2>7. ~\E w \in Pollers : PollStep(w) \/ PollCrash(w)
        OBVIOUS
    <2> HIDE DEF Inv
    <2> QED
        BY <2>1, <2>2, <2>3, <2>4, <2>5, <2>6, <2>7 DEF Next
<1>3. Inv => AcknowledgedIsAccounted
    OBVIOUS
<1> HIDE DEF Inv
<1> QED
    BY <1>1, <1>2, <1>3, TypeCorrect, PTL DEF Spec

(***************************************************************************)
(* A success stays one.  A poll that asked before the capture may still    *)
(* hold the gateway's older word; what saves the row is that the word is   *)
(* only ever carried when the session had ended, and it ends once.         *)
(***************************************************************************)

\* A poll that is about to write carries the gateway's last word on the session.
AnswersAreFinal ==
    \A w \in Pollers : poller[w].pc = "write" =>
        poller[w].answer = "succeeded" \/ gateway[poller[w].payment] = "closed"

\* A session that was closed without a capture is never paid.
LEMMA ClosedStays ==
    CaptureInv /\ [Next]_vars =>
        \A p \in Payment : gateway[p] = "closed" => gateway'[p] = "closed"
<1> SUFFICES ASSUME CaptureInv, [Next]_vars, NEW p \in Payment, gateway[p] = "closed"
             PROVE  gateway'[p] = "closed"
    OBVIOUS
<1> USE DEF CaptureInv, TypeOK
<1>1. ASSUME NEW q \in Payment, GatewayOpen(q) PROVE gateway'[p] = "closed"
    <2>1. gateway[q] = "none"
        BY <1>1 DEF GatewayOpen, SessionsAreFresh
    <2> QED
        BY <1>1, <2>1 DEF GatewayOpen
<1>2. ASSUME NEW q \in Payment, UserPays(q) PROVE gateway'[p] = "closed"
    BY <1>2 DEF UserPays
<1>3. ASSUME NEW q \in Payment, LateRefund(q) PROVE gateway'[p] = "closed"
    <2>1. gateway[q] \in {"paid", "refunded"}
        BY <1>3 DEF LateRefund, RefundsAreOfCaptures, Captured
    <2> QED
        BY <1>3, <2>1 DEF LateRefund
<1>4. ASSUME NEW q \in Payment,
             CreatePayment(q) \/ CreateFailed(q) \/ StoreGatewayId(q) \/ Tick(q) \/ ThreadCrash(q)
      PROVE  UNCHANGED gateway
    BY <1>4 DEF CreatePayment, CreateFailed, StoreGatewayId, Tick, ThreadCrash
<1>5. ASSUME NEW e \in Event, Webhook(e) PROVE UNCHANGED gateway
    BY <1>5 DEF Webhook
<1>6. ASSUME NEW w \in Pollers, PollStep(w) \/ PollCrash(w) PROVE UNCHANGED gateway
    BY <1>6 DEF PollStep, PollStart, PollAbandon, PollQuery, PollWrite, PollReadOrder, PollPay,
                PollCrash
<1>7. CancelOrder \/ UNCHANGED vars => UNCHANGED gateway
    BY DEF CancelOrder, vars
<1> QED
    BY <1>1, <1>2, <1>3, <1>4, <1>5, <1>6, <1>7 DEF Next

\* A poll has something to write only by having asked.
LEMMA WriteFollowsQuery ==
    ASSUME CaptureInv, [Next]_vars, NEW w \in Pollers, poller'[w].pc = "write"
    PROVE  \/ poller'[w] = poller[w]
           \/ \E p \in Payment : /\ poller'[w].payment = p
                                 /\ Tells(gateway[p]) # "none"
                                 /\ poller'[w].answer = Tells(gateway[p])
<1> DEFINE Asked == \E p \in Payment : /\ poller'[w].payment = p
                                       /\ Tells(gateway[p]) # "none"
                                       /\ poller'[w].answer = Tells(gateway[p])
<1>0. poller \in [Pollers -> Poll]
    BY DEF CaptureInv, TypeOK
<1>1. ASSUME NEW v \in Pollers, NEW p, poller' = PollNext(v, p) PROVE poller'[w] = poller[w]
    <2>1. w # v => poller'[w] = poller[w]
        BY <1>0, <1>1 DEF PollNext
    <2>2. w = v => poller'[w] = Between(poller[v].todo \ {p}, poller[v].old \ {p})
        BY <1>0, <1>1 DEF PollNext
    <2>3. w = v => poller'[w].pc = "next"
        BY <2>2 DEF Between
    <2> QED
        BY <2>1, <2>3
<1>2. ASSUME NEW v \in Pollers, PollQuery(v) PROVE poller'[w] = poller[w] \/ Asked
    <2>1. PICK p \in poller[v].todo \ poller[v].old :
              \/ poller' = PollNext(v, p)
              \/ /\ Tells(gateway[p]) # "none"
                 /\ poller' = [poller EXCEPT ![v].pc = "write", ![v].todo = @ \ {p},
                                             ![v].payment = p, ![v].answer = Tells(gateway[p])]
        BY <1>2 DEF PollQuery
    <2>2. p \in Payment
        BY <1>0 DEF Poll
    <2>3. ASSUME Tells(gateway[p]) # "none",
                 poller' = [poller EXCEPT ![v].pc = "write", ![v].todo = @ \ {p},
                                          ![v].payment = p, ![v].answer = Tells(gateway[p])]
          PROVE  poller'[w] = poller[w] \/ Asked
        <3>1. v # w => poller'[w] = poller[w]
            BY <1>0, <2>3
        <3>2. v = w => poller'[w].payment = p /\ poller'[w].answer = Tells(gateway[p])
            BY <1>0, <2>3 DEF Poll
        <3> QED
            BY <2>2, <2>3, <3>1, <3>2
    <2> QED
        BY <1>1, <2>1, <2>3
<1>3. ASSUME NEW v \in Pollers, PollStart(v) \/ PollCrash(v) PROVE poller'[w] = poller[w]
    BY <1>0, <1>3 DEF PollStart, PollCrash, Between, Idle
<1>4. ASSUME NEW v \in Pollers, PollAbandon(v) \/ PollPay(v) PROVE poller'[w] = poller[w]
    BY <1>1, <1>4 DEF PollAbandon, PollPay
<1>5. ASSUME NEW v \in Pollers, PollWrite(v) PROVE poller'[w] = poller[w]
    <2>1. CASE poller' = [poller EXCEPT ![v].pc = "read"]
        BY <1>0, <2>1 DEF Poll
    <2> QED
        BY <1>1, <1>5, <2>1 DEF PollWrite
<1>6. ASSUME NEW v \in Pollers, PollReadOrder(v) PROVE poller'[w] = poller[w]
    <2>1. CASE poller' = [poller EXCEPT ![v].pc = "save"]
        BY <1>0, <2>1 DEF Poll
    <2> QED
        BY <1>1, <1>6, <2>1 DEF PollReadOrder
<1>7. ASSUME NEW q \in Payment,
             CreatePayment(q) \/ GatewayOpen(q) \/ CreateFailed(q) \/ StoreGatewayId(q)
                \/ UserPays(q) \/ LateRefund(q) \/ Tick(q) \/ ThreadCrash(q)
      PROVE  UNCHANGED poller
    BY <1>7 DEF CreatePayment, GatewayOpen, CreateFailed, StoreGatewayId, UserPays, LateRefund,
                Tick, ThreadCrash
<1>8. ASSUME NEW e \in Event, Webhook(e) PROVE UNCHANGED poller
    BY <1>8 DEF Webhook
<1>9. CancelOrder \/ UNCHANGED vars => UNCHANGED poller
    BY DEF CancelOrder, vars
<1> HIDE DEF Asked
<1>10. poller'[w] = poller[w] \/ Asked
    BY <1>2, <1>3, <1>4, <1>5, <1>6, <1>7, <1>8, <1>9 DEF Next, PollStep
<1> QED
    BY <1>10 DEF Asked

LEMMA AnswersStep == CaptureInv /\ AnswersAreFinal /\ [Next]_vars => AnswersAreFinal'
<1> SUFFICES ASSUME CaptureInv, AnswersAreFinal, [Next]_vars, NEW w \in Pollers,
                    poller'[w].pc = "write"
             PROVE  poller'[w].answer = "succeeded" \/ gateway'[poller'[w].payment] = "closed"
    BY DEF AnswersAreFinal
<1>1. CASE poller'[w] = poller[w]
    <2>1. poller[w].payment \in Payment
        BY DEF CaptureInv, TypeOK, Poll
    <2> QED
        BY <1>1, <2>1, ClosedStays DEF AnswersAreFinal
<1>2. ASSUME NEW p \in Payment, poller'[w].payment = p, Tells(gateway[p]) # "none",
             poller'[w].answer = Tells(gateway[p])
      PROVE  poller'[w].answer = "succeeded" \/ gateway'[poller'[w].payment] = "closed"
    <2>1. gateway[p] = "closed" => gateway'[p] = "closed"
        BY ClosedStays
    <2> QED
        BY <1>2, <2>1 DEF Tells
<1> QED
    BY <1>1, <1>2, WriteFollowsQuery

\* What takes a success away is its refund, or the sync job that abandons the payment.
LEMMA SuccessKept ==
    ASSUME CaptureInv, AnswersAreFinal, [Next]_vars, NEW p \in Payment, status[p] = "success"
    PROVE  status'[p] \in {"success", "refunded"} \/ \E w \in Pollers : PollAbandon(w)
<1>0. status \in [Payment -> PaymentStatus]
    BY DEF CaptureInv, TypeOK
<1>1. ASSUME NEW q \in Payment, CreatePayment(q) PROVE status'[p] = "success"
    BY <1>0, <1>1 DEF CreatePayment, Exists, Expire, Pending
<1>2. ASSUME NEW q \in Payment, CreateFailed(q) PROVE status'[p] = "success"
    BY <1>0, <1>2 DEF CreateFailed
<1>3. ASSUME NEW q \in Payment, LateRefund(q) PROVE status'[p] \in {"success", "refunded"}
    BY <1>0, <1>3 DEF LateRefund
<1>4. ASSUME NEW e \in Event, Webhook(e) PROVE status'[p] = "success"
    <2>1. e.payment # p
        BY <1>4 DEF Webhook, Skipped
    <2>2. \E s : status' = [status EXCEPT ![e.payment] = s]
        BY <1>4 DEF Webhook, Completed
    <2> QED
        BY <1>0, <2>1, <2>2
<1>5. ASSUME NEW w \in Pollers, PollWrite(w) PROVE status'[p] = "success"
    <2>1. Captured(p)
        BY DEF CaptureInv, PaidMeansCaptured
    <2>2. poller[w].payment = p => poller[w].answer = "succeeded"
        BY <1>5, <2>1 DEF PollWrite, AnswersAreFinal, Captured
    <2>3. status' = [status EXCEPT ![poller[w].payment] = Recorded(poller[w].answer)]
        BY <1>5 DEF PollWrite
    <2> QED
        BY <1>0, <2>2, <2>3 DEF Recorded
<1>6. ASSUME NEW w \in Pollers,
             PollStart(w) \/ PollQuery(w) \/ PollReadOrder(w) \/ PollPay(w) \/ PollCrash(w)
      PROVE  UNCHANGED status
    BY <1>6 DEF PollStart, PollQuery, PollReadOrder, PollPay, PollCrash, db
<1>7. ASSUME NEW q \in Payment,
             GatewayOpen(q) \/ StoreGatewayId(q) \/ UserPays(q) \/ Tick(q) \/ ThreadCrash(q)
      PROVE  UNCHANGED status
    BY <1>7 DEF GatewayOpen, StoreGatewayId, UserPays, Tick, ThreadCrash, db
<1>8. CancelOrder \/ UNCHANGED vars => UNCHANGED status
    BY DEF CancelOrder, vars
<1> QED
    BY <1>1, <1>2, <1>3, <1>4, <1>5, <1>6, <1>7, <1>8 DEF Next, PollStep

\* A payment known as captured is not made to fail by a late report of a declined
\* attempt or by a poll that asked before the capture, for any number of each.
THEOREM SuccessStaysSuccess == Spec => SuccessStays
<1>1. Init => AnswersAreFinal
    BY DEF Init, AnswersAreFinal, Idle, Between
<1>2. CaptureInv /\ AnswersAreFinal /\ [Next]_vars => AnswersAreFinal'
    BY AnswersStep
<1>3. CaptureInv /\ AnswersAreFinal /\ [Next]_vars =>
          [\A p \in Payment : status[p] = "success" =>
              status'[p] \in {"success", "refunded"} \/ \E w \in Pollers : PollAbandon(w)]_vars
    BY SuccessKept
<1> QED
    BY <1>1, <1>2, <1>3, CaptureInit, CaptureStep, PTL DEF Spec, SuccessStays

(***************************************************************************)
(* The capture code implements module Settlement as long as no poll saves  *)
(* its copy of the order over a cancelled or paid one.  The only invariant *)
(* it takes is OneFate: being paid with a payment, owing one back and      *)
(* having been cancelled exclude each other as they should.                *)
(***************************************************************************)

\* The fate of a payment, case by case.
LEMMA FateIs ==
    ASSUME CaptureInv, OneFate, NEW p \in Payment
    PROVE  /\ order.payment_no = p <=> FateOf(p) = "credited"
           /\ refund[p] = "reserved" <=> FateOf(p) = "owed"
           /\ FateOf(p) = "captured" <=>
                  gateway[p] = "paid" /\ refund[p] = "none" /\ order.payment_no # p
           /\ FateOf(p) = "open" <=>
                  gateway[p] # "paid" /\ refund[p] = "none" /\ order.payment_no # p
<1>1. /\ refund[p] \in {"none", "reserved", "succeeded", "failed"}
      /\ refund[p] # "none" => order.payment_no = 0
      /\ p # 0
    BY DEF CaptureInv, TypeOK, OneFate, Payment
<1> QED
    BY <1>1 DEF FateOf

\* A step that leaves the order's payment, the refunds and the sessions alone leaves
\* every fate alone.
LEMMA FateKept ==
    ASSUME NEW p \in Payment, order'.payment_no = p <=> order.payment_no = p,
           refund'[p] = refund[p], gateway'[p] = "paid" <=> gateway[p] = "paid"
    PROVE  FateOf(p)' = FateOf(p)
BY DEF FateOf

\* A step that changes no fate, and does not cancel, is none of the settlement.
LEMMA NoFateStep ==
    ASSUME \A p \in Payment : FateOf(p)' = FateOf(p), Cancelled' = Cancelled
    PROVE  UNCHANGED <<Fate, Cancelled>>
BY DEF Fate

\* A step that changes one fate changes Fate there.
LEMMA OneFateStep ==
    ASSUME NEW p \in Payment, \A q \in Payment \ {p} : FateOf(q)' = FateOf(q)
    PROVE  Fate' = [Fate EXCEPT ![p] = FateOf(p)']
<1>1. Fate = [q \in Payment |-> FateOf(q)] /\ Fate' = [q \in Payment |-> FateOf(q)']
    BY DEF Fate
<1> QED
    BY <1>1

LEMMA SettledInit == Init => OneFate /\ Settled!Init
<1> SUFFICES ASSUME Init PROVE OneFate /\ Settled!Init
    OBVIOUS
<1>1. OneFate
    BY DEF Init, OneFate
<1>2. \A p \in Payment : FateOf(p) = "open"
    BY DEF Init, FateOf, Payment
<1>3. Fate = [p \in Payment |-> "open"]
    BY <1>2 DEF Fate
<1>4. Cancelled = FALSE
    BY DEF Init, Cancelled
<1> QED
    BY <1>1, <1>3, <1>4 DEF Settled!Init

\* The order takes a capture while it is payable, from the webhook or from a poll: the
\* settlement credits it.
LEMMA CreditStep ==
    ASSUME CaptureInv, OneFate, NEW p \in Payment, Captured(p),
           order.status = "pending_payment", order' = PaidBy(p), UNCHANGED <<refund, gateway>>
    PROVE  OneFate' /\ Settled!Credit(p)
<1>1. /\ order.payment_no = 0
      /\ \A q \in Payment : refund[q] = "none" /\ gateway[q] # "refunded"
    BY DEF OneFate
<1>2. order'.status = "paid" /\ order'.payment_no = p
    BY DEF PaidBy
<1>3. OneFate'
    BY <1>1, <1>2 DEF OneFate
<1>4. FateOf(p) = "captured"
    BY <1>1, FateIs DEF Captured, Payment
<1>5. \A q \in Payment : FateOf(q) # "credited"
    BY <1>1, FateIs DEF Payment
<1>6. \A q \in Payment \ {p} : FateOf(q)' = FateOf(q)
    BY <1>1, <1>2, FateKept DEF Payment
<1>7. Fate' = [Fate EXCEPT ![p] = "credited"]
    <2>1. FateOf(p)' = "credited"
        BY <1>2 DEF FateOf
    <2> QED
        BY <1>6, <2>1, OneFateStep
<1>8. Cancelled = FALSE /\ Cancelled' = FALSE
    BY <1>2 DEF Cancelled
<1>9. Fate[p] = "captured" /\ \A q \in Payment : Fate[q] # "credited"
    BY <1>4, <1>5 DEF Fate
<1> QED
    BY <1>3, <1>7, <1>8, <1>9 DEF Settled!Credit, Settled!Uncredited

\* The webhook reports a capture of a cancelled order: the settlement owes it back, or
\* has done so before.
LEMMA OweStep ==
    ASSUME CaptureInv, OneFate, NEW p \in Payment, Captured(p), order.status = "cancelled",
           order' = [order EXCEPT !.payment_status = "refunding"],
           refund' = [refund EXCEPT ![p] = IF @ = "none" THEN "reserved" ELSE @],
           UNCHANGED gateway
    PROVE  OneFate' /\ (Settled!Owe(p) \/ UNCHANGED <<Fate, Cancelled>>)
<1>0. order \in Order /\ refund \in [Payment -> {"none", "reserved", "succeeded", "failed"}]
    BY DEF CaptureInv, TypeOK
<1>1. order'.status = order.status /\ order'.payment_no = order.payment_no
    BY <1>0 DEF Order
<1>2. /\ refund'[p] = IF refund[p] = "none" THEN "reserved" ELSE refund[p]
      /\ \A q \in Payment \ {p} : refund'[q] = refund[q]
    BY <1>0
<1>3. OneFate'
    <2>1. gateway[p] = "refunded" => refund[p] = "succeeded"
        BY DEF OneFate
    <2> QED
        BY <1>1, <1>2, <2>1 DEF OneFate
<1>4. \A q \in Payment \ {p} : FateOf(q)' = FateOf(q)
    BY <1>1, <1>2, FateKept
<1>5. Cancelled /\ Cancelled'
    BY <1>1 DEF Cancelled
<1>6. CASE refund[p] # "none"
    <2>1. FateOf(p)' = FateOf(p)
        BY <1>1, <1>2, <1>6, FateKept
    <2> QED
        BY <1>3, <1>4, <1>5, <2>1, NoFateStep DEF Cancelled
<1>7. CASE refund[p] = "none"
    <2>1. order.payment_no = 0 /\ p # 0
        BY DEF OneFate, Payment
    <2>2. gateway[p] = "paid"
        BY <1>7 DEF OneFate, Captured
    <2>3. FateOf(p) = "captured"
        BY <1>7, <2>1, <2>2 DEF FateOf
    <2>4. FateOf(p)' = "owed"
        BY <1>1, <1>2, <1>7, <2>1 DEF FateOf
    <2>5. Fate' = [Fate EXCEPT ![p] = "owed"]
        BY <1>4, <2>4, OneFateStep
    <2>6. Fate[p] = "captured"
        BY <2>3 DEF Fate
    <2> QED
        BY <1>1, <1>3, <1>5, <2>5, <2>6 DEF Settled!Owe, Cancelled
<1> QED
    BY <1>6, <1>7

\* The late refund ends a debt.
LEMMA EndStep ==
    ASSUME CaptureInv, OneFate, NEW p \in Payment, LateRefund(p)
    PROVE  /\ OneFate'
           /\ \E outcome \in {"returned", "refused"} : Settled!End(p, outcome)
<1>0. /\ order \in Order /\ refund \in [Payment -> {"none", "reserved", "succeeded", "failed"}]
      /\ gateway \in [Payment -> {"none", "open", "paid", "closed", "refunded"}]
    BY DEF CaptureInv, TypeOK
<1>1. order'.status = order.status /\ order'.payment_no = order.payment_no
    BY <1>0 DEF LateRefund, Order
<1>2. /\ refund[p] = "reserved"
      /\ \A q \in Payment \ {p} : refund'[q] = refund[q] /\ gateway'[q] = gateway[q]
      /\ \/ refund'[p] = "succeeded"
         \/ refund'[p] = "failed" /\ gateway'[p] = gateway[p]
    BY <1>0 DEF LateRefund
<1>3. order.status = "cancelled" /\ order.payment_no = 0 /\ p # 0 /\ gateway[p] # "refunded"
    BY <1>2 DEF OneFate, Payment
<1>4. OneFate'
    BY <1>1, <1>2, <1>3 DEF OneFate
<1>5. \A q \in Payment \ {p} : FateOf(q)' = FateOf(q)
    BY <1>1, <1>2, FateKept
<1>6. FateOf(p) = "owed" /\ FateOf(p)' \in {"returned", "refused"}
    BY <1>1, <1>2, <1>3 DEF FateOf
<1>7. Fate[p] = "owed" /\ Fate' = [Fate EXCEPT ![p] = FateOf(p)']
    BY <1>5, <1>6, OneFateStep DEF Fate
<1>8. Cancelled' = Cancelled
    BY <1>1 DEF Cancelled
<1> QED
    BY <1>4, <1>6, <1>7, <1>8 DEF Settled!End

\* The user pays: a capture, of which the order knows nothing yet.
LEMMA PayStep ==
    ASSUME CaptureInv, OneFate, NEW p \in Payment, UserPays(p)
    PROVE  OneFate' /\ (Settled!Capture(p) \/ UNCHANGED <<Fate, Cancelled>>)
<1>0. gateway \in [Payment -> {"none", "open", "paid", "closed", "refunded"}]
    BY DEF CaptureInv, TypeOK
<1>1. /\ UNCHANGED <<order, refund>> /\ gateway[p] = "open" /\ gateway'[p] \in {"paid", "closed"}
      /\ \A q \in Payment \ {p} : gateway'[q] = gateway[q]
    BY <1>0 DEF UserPays, db
<1>2. OneFate'
    BY <1>1 DEF OneFate
<1>3. \A q \in Payment \ {p} : FateOf(q)' = FateOf(q)
    BY <1>1, FateKept
<1>4. Cancelled' = Cancelled
    BY <1>1 DEF Cancelled
<1>5. CASE gateway'[p] = "paid" /\ order.payment_no # p
    <2>1. refund[p] = "none"
        BY <1>1 DEF CaptureInv, RefundsAreOfCaptures, Captured
    <2>2. FateOf(p) = "open" /\ FateOf(p)' = "captured"
        BY <1>1, <1>5, <2>1 DEF FateOf
    <2>3. Fate[p] = "open" /\ Fate' = [Fate EXCEPT ![p] = "captured"]
        BY <1>3, <2>2, OneFateStep DEF Fate
    <2> QED
        BY <1>2, <1>4, <2>3 DEF Settled!Capture
<1>6. CASE gateway'[p] # "paid" \/ order.payment_no = p
    <2>1. FateOf(p)' = FateOf(p)
        BY <1>1, <1>6 DEF FateOf
    <2> QED
        BY <1>2, <1>3, <1>4, <2>1, NoFateStep
<1> QED
    BY <1>5, <1>6

\* The user cancels an order that is not paid.
LEMMA CancelStep ==
    ASSUME CaptureInv, OneFate, CancelOrder
    PROVE  OneFate' /\ Settled!Cancel
<1>1. /\ order.status = "pending_payment" /\ order.payment_no = 0
      /\ order'.status = "cancelled" /\ order'.payment_no = 0 /\ UNCHANGED <<refund, gateway>>
    BY DEF CaptureInv, TypeOK, Order, OneFate, CancelOrder
<1>2. OneFate'
    BY <1>1 DEF OneFate
<1>3. \A q \in Payment : FateOf(q) # "credited"
    BY <1>1, FateIs DEF Payment
<1>4. \A q \in Payment : Fate[q] # "credited"
    BY <1>3 DEF Fate
<1>5. Fate' = Fate
    <2>1. \A q \in Payment : FateOf(q)' = FateOf(q)
        BY <1>1, FateKept
    <2> QED
        BY <2>1 DEF Fate
<1>6. Cancelled = FALSE /\ Cancelled' = TRUE
    BY <1>1 DEF Cancelled
<1> QED
    BY <1>2, <1>4, <1>5, <1>6 DEF Settled!Cancel, Settled!Uncredited

\* Every other step touches neither the order nor a refund, and no session that is paid.
QuietStep ==
    /\ UNCHANGED <<order, refund>>
    /\ \A p \in Payment : \/ gateway'[p] = gateway[p]
                          \/ gateway[p] # "paid" /\ gateway'[p] \notin {"paid", "refunded"}

LEMMA QuietSettles ==
    ASSUME OneFate, QuietStep
    PROVE  OneFate' /\ UNCHANGED <<Fate, Cancelled>>
<1>1. OneFate'
    BY DEF QuietStep, OneFate
<1>2. \A p \in Payment : FateOf(p)' = FateOf(p)
    BY FateKept DEF QuietStep
<1>3. Cancelled' = Cancelled
    BY DEF QuietStep, Cancelled
<1> QED
    BY <1>1, <1>2, <1>3, NoFateStep

LEMMA SettledStep ==
    ASSUME CaptureInv, OneFate, [Next]_vars, [PollsPayPending]_vars
    PROVE  OneFate' /\ [Settled!Next]_<<Fate, Cancelled>>
<1> DEFINE Good == OneFate' /\ [Settled!Next]_<<Fate, Cancelled>>
<1>0. QuietStep => Good
    BY QuietSettles
<1>1. ASSUME NEW p \in Payment, GatewayOpen(p) PROVE QuietStep
    <2>1. gateway[p] = "none"
        BY <1>1 DEF GatewayOpen, CaptureInv, SessionsAreFresh
    <2> QED
        BY <1>1, <2>1 DEF GatewayOpen, QuietStep, CaptureInv, TypeOK, db
<1>2. ASSUME NEW p \in Payment,
             CreatePayment(p) \/ CreateFailed(p) \/ StoreGatewayId(p) \/ Tick(p) \/ ThreadCrash(p)
      PROVE  QuietStep
    BY <1>2 DEF CreatePayment, CreateFailed, StoreGatewayId, Tick, ThreadCrash, QuietStep, db
<1>3. ASSUME NEW p \in Payment, UserPays(p) PROVE Good
    BY <1>3, PayStep DEF Settled!Next
<1>4. ASSUME NEW p \in Payment, LateRefund(p) PROVE Good
    BY <1>4, EndStep DEF Settled!Next
<1>5. ASSUME CancelOrder PROVE Good
    BY <1>5, CancelStep DEF Settled!Next
<1>6. ASSUME NEW e \in Event, Webhook(e) PROVE Good
    <2>1. e.payment \in Payment
        BY DEF Event
    <2>2. CASE Mapped(e.kind) # "payment_completed"
        <3>1. QuietStep
            BY <1>6, <2>2 DEF Webhook, QuietStep
        <3> QED
            BY <1>0, <3>1
    <2>3. CASE Mapped(e.kind) = "payment_completed"
        <3>1. Completed(e.payment) /\ Captured(e.payment) /\ UNCHANGED gateway
            BY <1>6, <2>3 DEF Webhook, Mapped, Reported, Captured
        <3>2. CASE order.status = "cancelled"
            <4>1. /\ order' = [order EXCEPT !.payment_status = "refunding"]
                  /\ refund' = [refund EXCEPT ![e.payment] = IF @ = "none" THEN "reserved" ELSE @]
                BY <3>1, <3>2 DEF Completed
            <4> QED
                BY <2>1, <3>1, <3>2, <4>1, OweStep DEF Settled!Next
        <3>3. CASE order.status # "cancelled"
            <4>1. order.status = "pending_payment" /\ order' = PaidBy(e.payment) /\ UNCHANGED refund
                BY <3>1, <3>3 DEF Completed
            <4> QED
                BY <2>1, <3>1, <4>1, CreditStep DEF Settled!Next
        <3> QED
            BY <3>2, <3>3
    <2> QED
        BY <2>2, <2>3
<1>7. ASSUME NEW w \in Pollers, PollPay(w) PROVE Good
    <2>1. poller[w].pc = "save" /\ poller[w].payment \in Payment
        BY <1>7 DEF PollPay, CaptureInv, TypeOK, Poll
    <2>2. Captured(poller[w].payment)
        BY <2>1 DEF CaptureInv, PollsAreTrue
    <2>3. order' = PaidBy(poller[w].payment) /\ UNCHANGED <<refund, gateway>>
        BY <1>7 DEF PollPay
    <2>4. CASE UNCHANGED vars
        <3>1. QuietStep
            BY <2>4 DEF vars, QuietStep
        <3> QED
            BY <1>0, <3>1
    <2>5. CASE PollsPayPending
        <3>1. order.status = "pending_payment"
            BY <1>7, <2>5 DEF PollsPayPending
        <3> QED
            BY <2>1, <2>2, <2>3, <3>1, CreditStep DEF Settled!Next
    <2> QED
        BY <2>4, <2>5
<1>8. ASSUME NEW w \in Pollers,
             PollStart(w) \/ PollAbandon(w) \/ PollQuery(w) \/ PollWrite(w) \/ PollReadOrder(w)
                \/ PollCrash(w)
      PROVE  QuietStep
    BY <1>8 DEF PollStart, PollAbandon, PollQuery, PollWrite, PollReadOrder, PollCrash, QuietStep, db
<1>9. UNCHANGED vars => QuietStep
    BY DEF vars, QuietStep
<1> HIDE DEF Good
<1>10. ASSUME NEW p \in Payment,
              \/ CreatePayment(p) \/ GatewayOpen(p) \/ CreateFailed(p) \/ StoreGatewayId(p)
              \/ UserPays(p) \/ LateRefund(p) \/ Tick(p) \/ ThreadCrash(p)
       PROVE  Good
    BY <1>0, <1>1, <1>2, <1>3, <1>4, <1>10
<1>11. ASSUME NEW w \in Pollers, PollStep(w) \/ PollCrash(w) PROVE Good
    BY <1>0, <1>7, <1>8, <1>11 DEF PollStep
<1>12. Next \/ UNCHANGED vars
    OBVIOUS
<1>13. Good
    BY <1>0, <1>5, <1>6, <1>9, <1>10, <1>11, <1>12 DEF Next
<1> QED
    BY <1>13 DEF Good

\* The capture code, for any number of payments, events, polls and crashes, settles every
\* capture once, in every behaviour in which no poll saves the order it read over one
\* that was cancelled or paid since: nothing else in it can break the settlement.
THEOREM PollsAsideSettles == Spec /\ [][PollsPayPending]_vars => ImplementsSettlement
<1>1. Init => OneFate /\ Settled!Init
    BY SettledInit
<1>2. CaptureInv /\ OneFate /\ [Next]_vars /\ [PollsPayPending]_vars =>
          OneFate' /\ [Settled!Next]_<<Fate, Cancelled>>
    BY SettledStep
<1> QED
    BY <1>1, <1>2, CaptureInit, CaptureStep, PTL DEF Spec, ImplementsSettlement, Settled!Spec

\* Where captures are reported by webhooks alone, nothing breaks it.
THEOREM WebhooksSettle ==
    ASSUME Pollers = {}
    PROVE  Spec => ImplementsSettlement
<1>1. PollsPayPending
    BY DEF PollsPayPending
<1> QED
    BY <1>1, PollsAsideSettles, PTL
=============================================================================
