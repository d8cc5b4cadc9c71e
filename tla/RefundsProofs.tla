---------------------------- MODULE RefundsProofs ----------------------------
(***************************************************************************)
(* Theorems about the refund code, for every number of refund requests,    *)
(* amount, number of overlapping jobs, attempts and crashes.               *)
(***************************************************************************)
EXTENDS Refunds, DataTheorems

\* Updates of one field keep the types of the tables.
LEMMA RunUpdate ==
    ASSUME NEW f \in [Jobs -> Run], NEW j \in Jobs, NEW answer \in Answer,
           NEW pc \in {"next", "giveup", "query", "replay", "apply", "count"}
    PROVE  /\ [f EXCEPT ![j].pc = pc] \in [Jobs -> Run]
           /\ [f EXCEPT ![j].pc = pc, ![j].answer = answer] \in [Jobs -> Run]
BY DEF Run

LEMMA AttemptsUpdate ==
    ASSUME NEW r \in [Key -> Row], NEW k \in Key, NEW n \in Nat
    PROVE  [r EXCEPT ![k].attempts = n] \in [Key -> Row]
BY DEF Row

USE RefundsAssumption

Outcome == {"succeeded", "failed", "unknown"}

\* What settling a row may write is what settled rows hold.
LEMMA FinalizeType ==
    ASSUME TypeOK, NEW k \in Key, NEW status \in Outcome, NEW hasId \in BOOLEAN,
           NEW error \in {"none", "gateway", "max_attempts"},
           FinalizeRefund(k, status, hasId, error)
    PROVE  /\ payment' \in {"pending", "success", "refunded"}
           /\ order' \in OrderStatus
           /\ coupon' \in {"none", "used", "returned"}
           /\ refund' \in [Key -> Row]
<1>1. CASE Settled(k)
  BY <1>1 DEF FinalizeRefund, db, TypeOK
<1>2. CASE ~ Settled(k)
  <2> DEFINE r == [refund EXCEPT ![k].status = status,
                                 ![k].gatewayId = @ \/ hasId,
                                 ![k].error = error]
  <2>1. r \in [Key -> Row]
    <3>1. (refund[k].gatewayId \/ hasId) \in BOOLEAN /\ status \in RefundStatus
      BY DEF RefundStatus, Open, Terminal, Outcome
    <3> DEFINE g == refund[k].gatewayId \/ hasId
    <3>2. r = [refund EXCEPT ![k].status = status, ![k].gatewayId = g, ![k].error = error]
      OBVIOUS
    <3>3. g \in BOOLEAN
      BY <3>1
    <3> HIDE DEF g
    <3>4. [refund EXCEPT ![k].status = status, ![k].gatewayId = g, ![k].error = error]
            \in [Key -> Row]
      BY <3>1, <3>3 DEF TypeOK, Row
    <3>5. QED BY <3>2, <3>4
  <2>2. /\ refund' = r
        /\ order' = OrderAfter(status, r)
        /\ payment' = IF IsFull(status, r) THEN "refunded" ELSE payment
        /\ coupon' \in CouponAfter(IsFull(status, r))
    BY <1>2 DEF FinalizeRefund
  <2> HIDE DEF r
  <2>3. OrderAfter(status, r) \in OrderStatus
    BY DEF OrderAfter, OrderStatus
  <2>4. CouponAfter(IsFull(status, r)) \subseteq {"none", "used", "returned"}
    BY DEF CouponAfter, TypeOK
  <2>5. QED BY <2>1, <2>2, <2>3, <2>4 DEF TypeOK
<1>3. QED BY <1>1, <1>2

LEMMA NewRowType ==
    \A amount \in 0..Amount : NewRow("pending", amount) \in Row /\ Absent \in Row
BY DEF NewRow, Absent, Row, RefundStatus, Open

LEMMA BetweenType == \A todo \in SUBSET Key : Between(todo) \in Run
BY DEF Between, Run, Key, Answer

LEMMA VerdictType == \A answer \in Answer : Verdict(answer) \in Outcome
BY DEF Answer, Verdict, Outcome

LEMMA GatewayCreateType ==
    ASSUME TypeOK, NEW k \in Key, NEW answer, GatewayCreate(k, answer)
    PROVE  gateway' \in [Key -> GatewayStatus]
BY DEF TypeOK, GatewayCreate

LEMMA AnswersAreAnswers ==
    ASSUME NEW status \in GatewayStatus
    PROVE  Answers(status) \subseteq Answer
BY DEF Answers, Answer, GatewayStatus

LEMMA InitType == Init => TypeOK
BY NewRowType, BetweenType DEF Init, TypeOK, OrderStatus, Idle, GatewayStatus

LEMMA StepType == TypeOK /\ [Next]_vars => TypeOK'
<1> SUFFICES ASSUME TypeOK, [Next]_vars PROVE TypeOK'
  OBVIOUS
<1> USE DEF TypeOK
<1>1. CASE \E cancelled \in BOOLEAN : PaymentCompleted(cancelled)
  BY <1>1, NewRowType DEF PaymentCompleted, OrderStatus, Key
<1>2. ASSUME NEW k \in Key, NEW amount \in 1..Amount, CreateRefund(k, amount) PROVE TypeOK'
  BY <1>2, NewRowType DEF CreateRefund, OrderStatus
<1>3. ASSUME NEW k \in Key, GatewaySettles(k) PROVE TypeOK'
  BY <1>3 DEF GatewaySettles, db, GatewayStatus
<1>4. ASSUME NEW k \in Key, ThreadCall(k) PROVE TypeOK'
  <2>1. gateway' \in [Key -> GatewayStatus]
    BY <1>4, GatewayCreateType DEF ThreadCall
  <2>2. thread' \in [Key -> {"none", "call"} \cup Answer]
    BY <1>4 DEF ThreadCall
  <2>3. QED BY <1>4, <2>1, <2>2 DEF ThreadCall, db
<1>5. ASSUME NEW k \in Key, ThreadFinalize(k) PROVE TypeOK'
  <2>1. FinalizeRefund(k, Verdict(thread[k]), CarriesId(thread[k]), "gateway")
    BY <1>5 DEF ThreadFinalize
  <2>2. Verdict(thread[k]) \in Outcome /\ CarriesId(thread[k]) \in BOOLEAN
    BY <1>5, VerdictType DEF ThreadFinalize, CarriesId
  <2>3. QED BY <1>5, <2>1, <2>2, FinalizeType DEF ThreadFinalize
<1>6. ASSUME NEW k \in Key, ThreadCrash(k) PROVE TypeOK'
  BY <1>6 DEF ThreadCrash, db
<1>7. ASSUME NEW j \in Jobs, JobStart(j) PROVE TypeOK'
  BY <1>7 DEF JobStart, db, Run
<1>8. ASSUME NEW j \in Jobs, JobRead(j) PROVE TypeOK'
  BY <1>8 DEF JobRead, db, Row, Answer, Run
<1>9. ASSUME NEW j \in Jobs PROVE JobNext(j) \in [Jobs -> Run]
  BY BetweenType DEF JobNext, Run
<1>10. ASSUME NEW j \in Jobs, JobGiveUp(j) PROVE TypeOK'
  <2>1. FinalizeRefund(job[j].key, "failed", FALSE, "max_attempts")
    BY <1>10 DEF JobGiveUp
  <2>2. job[j].key \in Key
    BY DEF Run
  <2>3. job' = JobNext(j)
    BY <1>10 DEF JobGiveUp
  <2>4. QED BY <1>10, <2>1, <2>2, <2>3, <1>9, FinalizeType DEF JobGiveUp, Outcome
<1>11. ASSUME NEW j \in Jobs, JobQuery(j) PROVE TypeOK'
  <2>1. Answers(gateway[job[j].key]) \subseteq Answer
    BY AnswersAreAnswers DEF Run
  <2>2. QED BY <1>11, <2>1 DEF JobQuery, db, Run
<1>12. ASSUME NEW j \in Jobs, JobReplay(j) PROVE TypeOK'
  <2>1. gateway' \in [Key -> GatewayStatus]
    BY <1>12, GatewayCreateType DEF JobReplay, Run
  <2>2. PICK answer \in Answer :
               job' = [job EXCEPT ![j].pc = "apply", ![j].answer = answer]
    BY <1>12 DEF JobReplay
  <2>3. job' \in [Jobs -> Run]
    BY <2>2, RunUpdate
  <2>4. QED BY <1>12, <2>1, <2>3 DEF JobReplay, db
<1>13. ASSUME NEW j \in Jobs, JobApply(j) PROVE TypeOK'
  <2>1. FinalizeRefund(job[j].key, Verdict(job[j].answer), CarriesId(job[j].answer), "gateway")
    BY <1>13 DEF JobApply
  <2>2. Verdict(job[j].answer) \in Outcome /\ CarriesId(job[j].answer) \in BOOLEAN
    BY VerdictType DEF CarriesId, Run
  <2>3. job' = [job EXCEPT ![j].pc = "count"] \/ job' = JobNext(j)
    BY <1>13 DEF JobApply
  <2>4. job' \in [Jobs -> Run]
    <3>1. [job EXCEPT ![j].pc = "count"] \in [Jobs -> Run]
      BY "lost" \in Answer, RunUpdate DEF Answer
    <3>2. QED BY <2>3, <3>1, <1>9
  <2>5. job[j].key \in Key
    BY DEF Run
  <2>6. /\ payment' \in {"pending", "success", "refunded"}
        /\ order' \in OrderStatus
        /\ coupon' \in {"none", "used", "returned"}
        /\ refund' \in [Key -> Row]
    BY <2>1, <2>2, <2>5, FinalizeType
  <2>7. QED BY <1>13, <2>4, <2>6 DEF JobApply
<1>14. ASSUME NEW j \in Jobs, JobCount(j) PROVE TypeOK'
  <2>1. refund' \in [Key -> Row]
    <3>1. job[j].key \in Key /\ Count(j) \in Nat
      BY DEF Count, Run
    <3>2. refund' = [refund EXCEPT ![job[j].key].attempts = Count(j)]
      BY <1>14 DEF JobCount
    <3>3. QED BY <3>1, <3>2, AttemptsUpdate
  <2>2. QED BY <1>14, <2>1, <1>9 DEF JobCount
<1>15. ASSUME NEW j \in Jobs, JobCrash(j) PROVE TypeOK'
  BY <1>15, BetweenType DEF JobCrash, db, Idle
<1>16. CASE UNCHANGED vars
  BY <1>16 DEF vars
<1>17. QED
  BY <1>1, <1>2, <1>3, <1>4, <1>5, <1>6, <1>7, <1>8, <1>10, <1>11, <1>12, <1>13,
     <1>14, <1>15, <1>16 DEF Next, JobStep

\* Every variable keeps its type, the refund rows those of the RefundLog table.
THEOREM TypeCorrect == Spec => []TypeOK
BY InitType, StepType, PTL DEF Spec

-----------------------------------------------------------------------------
(***************************************************************************)
(* Sums over the rows.                                                     *)
(***************************************************************************)
Share(r, S) == [k \in Key |-> IF r[k].status \in S THEN r[k].amount ELSE 0]

LEMMA ShareType ==
    ASSUME NEW r \in [Key -> Row], NEW S
    PROVE  /\ Share(r, S) \in [1..NumKeys -> Int]
           /\ \A k \in Key : Share(r, S)[k] >= 0
           /\ SumOf(r, S) = Total(Share(r, S), NumKeys)
BY DEF Share, SumOf, Key, Row

LEMMA SumType ==
    ASSUME NEW r \in [Key -> Row], NEW S
    PROVE  SumOf(r, S) \in Int
BY ShareType, TotalType

\* One row's change of status or amount changes the sum by its share.
LEMMA SumUpdate ==
    ASSUME NEW r \in [Key -> Row], NEW q \in [Key -> Row], NEW S, NEW k \in Key,
           \A i \in Key : i # k => r[i].status = q[i].status /\ r[i].amount = q[i].amount
    PROVE  SumOf(q, S) = SumOf(r, S) - Share(r, S)[k] + Share(q, S)[k]
<1>1. \A i \in 1..NumKeys : i # k => Share(q, S)[i] = Share(r, S)[i]
  BY DEF Share, Key
<1>2. k \in 1..NumKeys
  BY DEF Key
<1>3. /\ Share(r, S) \in [1..NumKeys -> Int] /\ SumOf(r, S) = Total(Share(r, S), NumKeys)
      /\ Share(q, S) \in [1..NumKeys -> Int] /\ SumOf(q, S) = Total(Share(q, S), NumKeys)
  BY ShareType
<1>4. NumKeys \in Nat
  OBVIOUS
<1>5. Total(Share(q, S), NumKeys)
        = Total(Share(r, S), NumKeys) - Share(r, S)[k] + Share(q, S)[k]
  BY <1>1, <1>2, <1>3, <1>4, TotalUpdate
<1>6. QED BY <1>3, <1>5

\* Rows that agree on status and amount have the same sums.
LEMMA SumSame ==
    ASSUME NEW r \in [Key -> Row], NEW q \in [Key -> Row], NEW S,
           \A i \in Key : r[i].status = q[i].status /\ r[i].amount = q[i].amount
    PROVE  SumOf(q, S) = SumOf(r, S)
<1>1. Share(q, S) = Share(r, S)
  BY DEF Share
<1>2. QED BY <1>1, ShareType

\* A row that counts is part of the sum.
LEMMA SumAtLeastRow ==
    ASSUME NEW r \in [Key -> Row], NEW S, NEW k \in Key, r[k].status \in S
    PROVE  SumOf(r, S) >= r[k].amount
<1>1. Share(r, S)[k] = r[k].amount
  BY DEF Share
<1>2. Total(Share(r, S), NumKeys) >= Share(r, S)[k]
  BY ShareType, TotalAtLeastEntry DEF Key
<1>3. QED BY <1>1, <1>2, ShareType

\* Nothing is reserved before the first refund.
LEMMA SumOfNone ==
    ASSUME NEW r \in [Key -> Row], NEW S, \A k \in Key : r[k].status \notin S
    PROVE  SumOf(r, S) = 0
<1>1. \A k \in 1..NumKeys : Share(r, S)[k] = 0
  BY DEF Share, Key
<1>2. QED BY <1>1, ShareType, TotalZero

-----------------------------------------------------------------------------
(***************************************************************************)
(* What a step does to the money: nothing, take hold of some, or end a hold.*)
(***************************************************************************)
SameRow(k) == refund'[k].status = refund[k].status /\ refund'[k].amount = refund[k].amount

Takes(k, amount) ==
    /\ refund[k].status = "absent"
    /\ refund'[k].status = "pending"
    /\ refund'[k].amount = amount
    /\ amount <= Remaining
    /\ \A i \in Key \ {k} : SameRow(i)

Ends(k, outcome) ==
    /\ refund[k].status \in Open
    /\ refund'[k].status = outcome
    /\ refund'[k].amount = refund[k].amount
    /\ \A i \in Key \ {k} : SameRow(i)

MoneyStep ==
    \/ \A k \in Key : SameRow(k)
    \/ \E k \in Key, amount \in 1..Amount : Takes(k, amount)
    \/ \E k \in Key, outcome \in Outcome : Ends(k, outcome)

Inductive == TypeOK /\ RowsAreReserved /\ NeverOverReserved

LEMMA FinalizeMoney ==
    ASSUME TypeOK, NEW k \in Key, NEW status \in Outcome, NEW hasId, NEW error,
           refund[k].status # "absent", FinalizeRefund(k, status, hasId, error)
    PROVE  (\A i \in Key : SameRow(i)) \/ Ends(k, status)
<1>1. CASE Settled(k)
  BY <1>1 DEF FinalizeRefund, db, SameRow
<1>2. CASE ~ Settled(k)
  <2>1. refund[k].status \in Open
    BY <1>2 DEF Settled, TypeOK, Row, RefundStatus
  <2>2. refund' = [refund EXCEPT ![k].status = status,
                                 ![k].gatewayId = @ \/ hasId,
                                 ![k].error = error]
    BY <1>2 DEF FinalizeRefund
  <2>3. \A i \in Key \ {k} : refund'[i] = refund[i]
    BY <2>2 DEF TypeOK
  <2>4. refund'[k].status = status /\ refund'[k].amount = refund[k].amount
    BY <2>2 DEF TypeOK, Row
  <2>5. QED BY <2>1, <2>3, <2>4 DEF Ends, SameRow
<1>3. QED BY <1>1, <1>2

LEMMA StepMoney ==
    ASSUME TypeOK, RowsAreReserved, [Next]_vars
    PROVE  MoneyStep
<1>1. ASSUME NEW cancelled \in BOOLEAN, PaymentCompleted(cancelled) PROVE MoneyStep
  <2>1. CASE ~ cancelled
    BY <1>1, <2>1 DEF PaymentCompleted, MoneyStep, SameRow
  <2>2. CASE cancelled
    <3>1. \A k \in Key : refund[k].status = "absent"
      BY <1>1 DEF PaymentCompleted, RowsAreReserved
    <3>2. Reserved = 0
      BY <3>1, SumOfNone DEF Reserved, TypeOK, Open
    <3>3. Amount <= Remaining
      BY <3>2 DEF Remaining
    <3>4. LateKey \in Key
      BY DEF Key
    <3>5. refund' = [refund EXCEPT ![LateKey] = NewRow("pending", Amount)]
      BY <1>1, <2>2 DEF PaymentCompleted
    <3>6. \A i \in Key \ {LateKey} : SameRow(i)
      BY <3>5 DEF SameRow, TypeOK
    <3>7. refund'[LateKey].status = "pending" /\ refund'[LateKey].amount = Amount
      BY <3>4, <3>5 DEF TypeOK, NewRow
    <3>8. Takes(LateKey, Amount) /\ Amount \in 1..Amount
      BY <3>1, <3>3, <3>4, <3>6, <3>7 DEF Takes
    <3>9. QED BY <3>4, <3>8 DEF MoneyStep
  <2>3. QED BY <2>1, <2>2
<1>2. ASSUME NEW k \in Key, NEW amount \in 1..Amount, CreateRefund(k, amount)
      PROVE  MoneyStep
  <2>1. refund' = [refund EXCEPT ![k] = NewRow("pending", amount)]
    BY <1>2 DEF CreateRefund
  <2>2. \A i \in Key \ {k} : SameRow(i)
    BY <2>1 DEF SameRow, TypeOK
  <2>3. refund'[k].status = "pending" /\ refund'[k].amount = amount
    BY <2>1 DEF TypeOK, NewRow
  <2>4. Takes(k, amount)
    BY <1>2, <2>2, <2>3 DEF CreateRefund, Takes
  <2>5. QED BY <2>4 DEF MoneyStep
<1>3. ASSUME NEW k \in Key, ThreadFinalize(k) PROVE MoneyStep
  <2>1. refund[k].status # "absent"
    BY <1>3 DEF ThreadFinalize, RowsAreReserved, Answer
  <2>2. Verdict(thread[k]) \in Outcome
    BY <1>3, VerdictType DEF ThreadFinalize
  <2>3. QED BY <1>3, <2>1, <2>2, FinalizeMoney DEF ThreadFinalize, MoneyStep
<1>4. ASSUME NEW j \in Jobs, JobGiveUp(j) PROVE MoneyStep
  <2>1. job[j].key \in Key /\ refund[job[j].key].status # "absent"
    BY <1>4 DEF JobGiveUp, RowsAreReserved, TypeOK, Run
  <2>2. "failed" \in Outcome
    BY DEF Outcome
  <2>3. QED BY <1>4, <2>1, <2>2, FinalizeMoney DEF JobGiveUp, MoneyStep
<1>5. ASSUME NEW j \in Jobs, JobApply(j) PROVE MoneyStep
  <2>1. job[j].key \in Key /\ refund[job[j].key].status # "absent"
    BY <1>5 DEF JobApply, RowsAreReserved, TypeOK, Run
  <2>2. Verdict(job[j].answer) \in Outcome
    BY VerdictType DEF TypeOK, Run
  <2>3. QED BY <1>5, <2>1, <2>2, FinalizeMoney DEF JobApply, MoneyStep
<1>6. ASSUME NEW j \in Jobs, JobCount(j) PROVE MoneyStep
  <2>1. refund' = [refund EXCEPT ![job[j].key].attempts = Count(j)]
    BY <1>6 DEF JobCount
  <2>2. \A k \in Key : SameRow(k)
    BY <2>1 DEF SameRow, TypeOK, Row
  <2>3. QED BY <2>2 DEF MoneyStep
<1>7. ASSUME UNCHANGED refund PROVE MoneyStep
  BY <1>7 DEF MoneyStep, SameRow
<1>8. ASSUME NEW k \in Key, GatewaySettles(k) \/ ThreadCall(k) \/ ThreadCrash(k)
      PROVE  MoneyStep
  BY <1>7, <1>8 DEF GatewaySettles, ThreadCall, ThreadCrash, db
<1>9. ASSUME NEW j \in Jobs,
             JobStart(j) \/ JobRead(j) \/ JobQuery(j) \/ JobReplay(j) \/ JobCrash(j)
      PROVE  MoneyStep
  BY <1>7, <1>9 DEF JobStart, JobRead, JobQuery, JobReplay, JobCrash, db
<1>10. QED
  BY <1>1, <1>2, <1>3, <1>4, <1>5, <1>6, <1>7, <1>8, <1>9 DEF Next, JobStep, vars

LEMMA InitInductive == Init => Inductive
<1> SUFFICES ASSUME Init PROVE Inductive
  OBVIOUS
<1>1. TypeOK
  BY InitType
<1>2. \A k \in Key : refund[k].status = "absent"
  BY DEF Init, Absent, NewRow
<1>3. RowsAreReserved
  BY <1>2 DEF Init, RowsAreReserved, Idle, Between
<1>4. Reserved = 0
  BY <1>1, <1>2, SumOfNone DEF Reserved, TypeOK, Open
<1>5. NeverOverReserved
  BY <1>4 DEF NeverOverReserved
<1>6. QED BY <1>1, <1>3, <1>5 DEF Inductive

\* The rows side: no step loses a row, and a reserved row is for something.
LEMMA StepRows ==
    ASSUME TypeOK, RowsAreReserved, MoneyStep
    PROVE  \A k \in Key : refund[k].status # "absent" => refund'[k].status # "absent"
BY DEF MoneyStep, SameRow, Takes, Ends, Outcome

LEMMA StepReserved ==
    ASSUME Inductive, [Next]_vars
    PROVE  RowsAreReserved'
<1> USE DEF Inductive
<1>1. MoneyStep
  BY StepMoney
<1>2. \A k \in Key : refund[k].status # "absent" => refund'[k].status # "absent"
  BY <1>1, StepRows
<1>3. ASSUME payment' = "pending", NEW k \in Key PROVE refund'[k].status = "absent"
  <2>1. payment = "pending" /\ UNCHANGED refund
    <3>1. ASSUME NEW i \in Key, NEW status, NEW hasId, NEW error,
                 refund[i].status # "absent", FinalizeRefund(i, status, hasId, error)
          PROVE  FALSE
      BY <1>3, <3>1 DEF FinalizeRefund, RowsAreReserved, db, IsFull
    <3>2. \A i \in Key : ~ ThreadFinalize(i)
      BY <3>1 DEF ThreadFinalize, RowsAreReserved, Answer
    <3>3. ASSUME NEW j \in Jobs PROVE ~ JobGiveUp(j) /\ ~ JobApply(j) /\ ~ JobCount(j)
      <4>1. job[j].key \in Key
        BY DEF TypeOK, Run
      <4>2. job[j].pc # "next" => refund[job[j].key].status # "absent"
        BY DEF RowsAreReserved
      <4>3. ~ JobGiveUp(j)
        BY <3>1, <4>1, <4>2 DEF JobGiveUp
      <4>4. ~ JobApply(j)
        BY <3>1, <4>1, <4>2 DEF JobApply
      <4>5. ~ JobCount(j)
        BY <1>3, <4>1, <4>2 DEF JobCount, RowsAreReserved
      <4>6. QED BY <4>3, <4>4, <4>5
    <3>4. QED
      BY <1>3, <3>2, <3>3 DEF Next, JobStep, PaymentCompleted, CreateRefund, GatewaySettles,
         ThreadCall, ThreadCrash, JobStart, JobRead, JobQuery, JobReplay, JobCrash, vars, db
  <2>2. QED BY <2>1 DEF RowsAreReserved
<1>4. ASSUME NEW k \in Key, refund'[k].status # "absent" PROVE refund'[k].amount > 0
  BY <1>1, <1>4 DEF MoneyStep, SameRow, Takes, Ends, RowsAreReserved, Open
<1>5. ASSUME NEW k \in Key, thread'[k] # "none" PROVE refund'[k].status # "absent"
  <2>1. CASE thread[k] # "none"
    BY <1>2, <2>1 DEF RowsAreReserved
  <2>2. CASE thread[k] = "none"
    <3>1. ASSUME NEW cancelled \in BOOLEAN, PaymentCompleted(cancelled)
          PROVE  refund'[k].status # "absent"
      BY <1>5, <2>2, <3>1 DEF PaymentCompleted, TypeOK, NewRow
    <3>2. ASSUME NEW i \in Key, NEW amount \in 1..Amount, CreateRefund(i, amount)
          PROVE  refund'[k].status # "absent"
      BY <1>5, <2>2, <3>2 DEF CreateRefund, TypeOK, NewRow
    <3>3. ASSUME NEW i \in Key,
                 ThreadCall(i) \/ ThreadFinalize(i) \/ ThreadCrash(i)
          PROVE  FALSE
      BY <1>5, <2>2, <3>3 DEF ThreadCall, ThreadFinalize, ThreadCrash, TypeOK, Answer
    <3>4. QED
      BY <1>5, <2>2, <3>1, <3>2, <3>3 DEF Next, JobStep, GatewaySettles, JobStart, JobRead,
         JobGiveUp, JobQuery, JobReplay, JobApply, JobCount, JobCrash, vars
  <2>3. QED BY <2>1, <2>2
<1>6. ASSUME NEW j \in Jobs
      PROVE  /\ \A k \in job'[j].todo : refund'[k].status # "absent"
             /\ job'[j].pc # "next" => refund'[job'[j].key].status # "absent"
  <2> DEFINE Works(r) == /\ \A k \in r.todo : k \in Key /\ refund[k].status # "absent"
                         /\ r.pc # "next" => r.key \in Key /\ refund[r.key].status # "absent"
  <2>1. Works(job[j])
    BY DEF RowsAreReserved, TypeOK, Run
  <2>2. Works(job'[j])
    <3>1. ASSUME NEW i \in Jobs, i # j, JobStep(i) \/ JobCrash(i) PROVE job'[j] = job[j]
      BY <3>1 DEF JobStep, JobStart, JobRead, JobGiveUp, JobQuery, JobReplay, JobApply,
                  JobCount, JobCrash, JobNext, TypeOK
    <3>2. CASE JobStart(j)
      BY <3>2 DEF JobStart, TypeOK, Run
    <3>3. CASE JobRead(j)
      BY <3>3, <2>1 DEF JobRead, TypeOK
    <3>4. ASSUME job' = JobNext(j) PROVE Works(job'[j])
      <4>1. job'[j] = Between(job[j].todo)
        BY <3>4 DEF JobNext, TypeOK
      <4>2. job'[j].todo = job[j].todo /\ job'[j].pc = "next"
        BY <4>1 DEF Between
      <4>3. QED BY <2>1, <4>2
    <3>9. CASE JobCrash(j)
      <4>1. job'[j] = Between({})
        BY <3>9 DEF JobCrash, Idle, TypeOK
      <4>2. job'[j].todo = {} /\ job'[j].pc = "next"
        BY <4>1 DEF Between
      <4>3. QED BY <4>2
    <3>5. CASE JobQuery(j)
      BY <3>5, <2>1 DEF JobQuery, TypeOK, Run
    <3>6. CASE JobReplay(j)
      BY <3>6, <2>1 DEF JobReplay, TypeOK, Run
    <3>7. CASE JobApply(j)
      <4>1. job' = [job EXCEPT ![j].pc = "count"] \/ job' = JobNext(j)
        BY <3>7 DEF JobApply
      <4>2. job[j].pc = "apply"
        BY <3>7 DEF JobApply
      <4>3. ASSUME job' = [job EXCEPT ![j].pc = "count"] PROVE Works(job'[j])
        BY <4>2, <4>3, <2>1 DEF TypeOK, Run
      <4>4. QED BY <4>1, <4>3, <3>4
    <3>8. CASE UNCHANGED job
      BY <3>8, <2>1
    <3>10. QED
      <4> HIDE DEF Works
      <4>1. ASSUME NEW i \in Jobs, JobStep(i) \/ JobCrash(i) PROVE Works(job'[j])
        <5>1. CASE i # j
          BY <2>1, <3>1, <4>1, <5>1
        <5>2. CASE i = j
          BY <3>2, <3>3, <3>4, <3>5, <3>6, <3>7, <3>9, <4>1, <5>2
             DEF JobStep, JobGiveUp, JobCount
        <5>3. QED BY <5>1, <5>2
      <4>2. QED
        BY <3>8, <4>1 DEF Next, PaymentCompleted, CreateRefund, GatewaySettles, ThreadCall,
           ThreadFinalize, ThreadCrash, vars
  <2>3. QED BY <1>2, <2>2
<1>7. QED BY <1>3, <1>4, <1>5, <1>6 DEF RowsAreReserved

LEMMA StepNeverOver ==
    ASSUME Inductive, [Next]_vars
    PROVE  NeverOverReserved'
<1> DEFINE S == Open \cup {"succeeded"}
<1>1. MoneyStep /\ refund \in [Key -> Row] /\ refund' \in [Key -> Row]
  BY StepMoney, StepType DEF Inductive, TypeOK
<1>2. Reserved = SumOf(refund, S) /\ Reserved' = SumOf(refund', S)
  BY DEF Reserved
<1>3. SumOf(refund, S) \in Int /\ SumOf(refund', S) \in Int /\ SumOf(refund, S) <= Amount
  BY <1>1, <1>2, SumType DEF Inductive, NeverOverReserved
<1>4. CASE \A k \in Key : SameRow(k)
  <2>1. SumOf(refund', S) = SumOf(refund, S)
    BY <1>1, <1>4, SumSame DEF SameRow
  <2>2. QED BY <1>2, <1>3, <2>1 DEF NeverOverReserved
<1>5. ASSUME NEW k \in Key, NEW amount \in 1..Amount, Takes(k, amount)
      PROVE  NeverOverReserved'
  <2>1. SumOf(refund', S) = SumOf(refund, S) - Share(refund, S)[k] + Share(refund', S)[k]
    BY <1>1, <1>5, SumUpdate DEF Takes, SameRow
  <2>2. Share(refund, S)[k] = 0 /\ Share(refund', S)[k] = amount
    BY <1>5 DEF Share, Takes, Open
  <2>3. amount <= Amount - SumOf(refund, S)
    BY <1>5, <1>2 DEF Takes, Remaining
  <2>4. QED BY <1>2, <1>3, <2>1, <2>2, <2>3 DEF NeverOverReserved
<1>6. ASSUME NEW k \in Key, NEW outcome \in Outcome, Ends(k, outcome)
      PROVE  NeverOverReserved'
  <2>1. SumOf(refund', S) = SumOf(refund, S) - Share(refund, S)[k] + Share(refund', S)[k]
    BY <1>1, <1>6, SumUpdate DEF Ends, SameRow
  <2>2. Share(refund, S)[k] \in Int /\ Share(refund', S)[k] \in Int
    BY <1>1, ShareType DEF Key
  <2>3. Share(refund', S)[k] <= Share(refund, S)[k]
    BY <1>1, <1>6 DEF Share, Ends, Row
  <2>4. QED BY <1>2, <1>3, <2>1, <2>2, <2>3 DEF NeverOverReserved
<1>7. QED BY <1>1, <1>4, <1>5, <1>6 DEF MoneyStep

LEMMA StepInductive == Inductive /\ [Next]_vars => Inductive'
BY StepType, StepReserved, StepNeverOver DEF Inductive

LEMMA AlwaysInductive == Spec => []Inductive
BY InitInductive, StepInductive, PTL DEF Spec

\* The refunds under way or paid out never exceed the payment: the check of
\* create_refund against reserved_amount is enough for every interleaving of
\* requests, webhooks, reconciliation runs, lost answers and crashes.
THEOREM RefundsWithinPayment == Spec => []NeverOverReserved
<1>1. Inductive => NeverOverReserved
  BY DEF Inductive
<1>2. QED BY <1>1, AlwaysInductive, PTL

\* A settled refund is never settled again: neither a thread nor a job that comes
\* late, with an answer from before the settlement, changes the outcome.
THEOREM SettledOnce == Spec => TerminalIsFinal
<1>1. Inductive /\ [Next]_vars => [\A k \in Key : refund[k].status \in Terminal
                                    => refund'[k].status = refund[k].status]_vars
  <2> SUFFICES ASSUME Inductive, [Next]_vars, NEW k \in Key, refund[k].status \in Terminal
               PROVE  refund'[k].status = refund[k].status
    OBVIOUS
  <2>1. MoneyStep
    BY StepMoney DEF Inductive
  <2>2. QED BY <2>1 DEF MoneyStep, SameRow, Takes, Ends, Open, Terminal
<1>2. QED BY <1>1, AlwaysInductive, PTL DEF Spec, TerminalIsFinal

-----------------------------------------------------------------------------
(***************************************************************************)
(* The rows implement the abstract ledger.                                 *)
(***************************************************************************)
LEMMA LedgerStateIs ==
    \A k \in Key : /\ (LedgerState[k] = "free") <=> (refund[k].status = "absent")
                   /\ (LedgerState[k] = "held") <=> (refund[k].status \in Open)
                   /\ (LedgerState[k] = "paid") <=> (refund[k].status = "succeeded")
                   /\ refund[k].status = "failed" => LedgerState[k] = "void"
BY DEF LedgerState, Open

\* What the ledger counts as taken is what the code counts as reserved.
LEMMA TakenIsReserved == Ledger!Taken = Reserved
<1> HIDE DEF LedgerState, LedgerHeld
<1>0. \A f, n : Ledger!Total(f, n) = Total(f, n)
  BY DEF Ledger!Total, Total
<1>1. Ledger!Taken = Total([k \in Key |-> IF LedgerState[k] \in {"held", "paid"}
                                          THEN LedgerHeld[k] ELSE 0], NumKeys)
  BY <1>0 DEF Ledger!Taken, Ledger!Key, Key
<1>2. \A k \in Key : (IF LedgerState[k] \in {"held", "paid"} THEN LedgerHeld[k] ELSE 0)
                    = Share(refund, Open \cup {"succeeded"})[k]
  BY LedgerStateIs DEF Share, LedgerHeld
<1>3. [k \in Key |-> IF LedgerState[k] \in {"held", "paid"} THEN LedgerHeld[k] ELSE 0]
        = Share(refund, Open \cup {"succeeded"})
  BY <1>2 DEF Share
<1>4. QED BY <1>1, <1>3 DEF Reserved, SumOf, Share

LEMMA LedgerInit == Init => Ledger!Init
<1> SUFFICES ASSUME Init PROVE Ledger!Init
  OBVIOUS
<1>1. \A k \in Key : refund[k].status = "absent" /\ refund[k].amount = 0
  BY DEF Init, Absent, NewRow
<1>2. LedgerState = [k \in Key |-> "free"]
  <2>1. \A k \in Key : LedgerState[k] = "free"
    BY <1>1, LedgerStateIs
  <2>2. LedgerState = [k \in Key |-> LedgerState[k]]
    BY DEF LedgerState
  <2> HIDE DEF LedgerState
  <2>3. QED BY <2>1, <2>2
<1>3. LedgerHeld = [k \in Key |-> 0]
  BY <1>1 DEF LedgerHeld
<1>4. QED BY <1>2, <1>3 DEF Ledger!Init, Ledger!Key, Key

\* A step that keeps a row's status and amount keeps its entry of the ledger.
LEMMA LedgerKept ==
    ASSUME NEW k \in Key, SameRow(k)
    PROVE  LedgerState'[k] = LedgerState[k] /\ LedgerHeld'[k] = LedgerHeld[k]
BY DEF SameRow, LedgerState, LedgerHeld

\* Two ledgers that differ at most at k.
LEMMA LedgerChange ==
    ASSUME NEW k \in Key, \A i \in Key \ {k} : SameRow(i)
    PROVE  /\ LedgerState' = [LedgerState EXCEPT ![k] = LedgerState'[k]]
           /\ LedgerHeld' = [LedgerHeld EXCEPT ![k] = LedgerHeld'[k]]
<1>1. \A i \in Key \ {k} : LedgerState'[i] = LedgerState[i] /\ LedgerHeld'[i] = LedgerHeld[i]
  BY LedgerKept
<1>2. /\ LedgerState' = [i \in Key |-> LedgerState'[i]]
      /\ LedgerHeld' = [i \in Key |-> LedgerHeld'[i]]
      /\ LedgerState = [i \in Key |-> LedgerState[i]]
      /\ LedgerHeld = [i \in Key |-> LedgerHeld[i]]
  BY DEF LedgerState, LedgerHeld
<1> HIDE DEF LedgerState, LedgerHeld
<1>3. QED BY <1>1, <1>2

LEMMA LedgerStep ==
    ASSUME Inductive, [Next]_vars
    PROVE  [Ledger!Next]_<<LedgerState, LedgerHeld>>
<1>1. MoneyStep
  BY StepMoney DEF Inductive
<1>2. CASE \A k \in Key : SameRow(k)
  BY <1>2 DEF SameRow, LedgerState, LedgerHeld
<1>3. ASSUME NEW k \in Key, NEW amount \in 1..Amount, Takes(k, amount) PROVE Ledger!Next
  <2>1. LedgerState[k] = "free" /\ LedgerState'[k] = "held" /\ LedgerHeld'[k] = amount
    BY <1>3 DEF Takes, LedgerState, LedgerHeld, Open
  <2>2. amount <= Amount - Ledger!Taken
    BY <1>3, TakenIsReserved DEF Takes, Remaining
  <2>3. /\ LedgerState' = [LedgerState EXCEPT ![k] = "held"]
        /\ LedgerHeld' = [LedgerHeld EXCEPT ![k] = amount]
    BY <1>3, <2>1, LedgerChange DEF Takes
  <2>4. Ledger!Hold(k, amount)
    BY <2>1, <2>2, <2>3 DEF Ledger!Hold
  <2>5. QED BY <2>4 DEF Ledger!Next, Ledger!Key, Key
<1>4. ASSUME NEW k \in Key, NEW outcome \in Outcome, Ends(k, outcome)
      PROVE  [Ledger!Next]_<<LedgerState, LedgerHeld>>
  <2>1. LedgerState[k] = "held" /\ LedgerHeld'[k] = LedgerHeld[k]
    BY <1>4 DEF Ends, LedgerState, LedgerHeld, Open
  <2>2. /\ LedgerState' = [LedgerState EXCEPT ![k] = LedgerState'[k]]
        /\ LedgerHeld' = LedgerHeld
    <3>1. /\ LedgerState' = [LedgerState EXCEPT ![k] = LedgerState'[k]]
          /\ LedgerHeld' = [LedgerHeld EXCEPT ![k] = LedgerHeld'[k]]
      BY <1>4, LedgerChange DEF Ends
    <3>2. LedgerHeld = [i \in Key |-> LedgerHeld[i]]
      BY DEF LedgerHeld
    <3> HIDE DEF LedgerHeld
    <3>3. QED BY <2>1, <3>1, <3>2
  <2>3. CASE outcome = "succeeded"
    <3>1. LedgerState'[k] = "paid"
      BY <1>4, <2>3 DEF Ends, LedgerState, Open
    <3>2. Ledger!End(k, "paid")
      BY <2>1, <2>2, <3>1 DEF Ledger!End
    <3>3. QED BY <3>2 DEF Ledger!Next, Ledger!Key, Key
  <2>4. CASE outcome = "failed"
    <3>1. LedgerState'[k] = "void"
      BY <1>4, <2>4 DEF Ends, LedgerState, Open
    <3>2. Ledger!End(k, "void")
      BY <2>1, <2>2, <3>1 DEF Ledger!End
    <3>3. QED BY <3>2 DEF Ledger!Next, Ledger!Key, Key
  <2>5. CASE outcome = "unknown"
    <3>1. LedgerState'[k] = "held"
      BY <1>4, <2>5 DEF Ends, LedgerState, Open
    <3>2. LedgerState = [i \in Key |-> LedgerState[i]]
      BY DEF LedgerState
    <3>3. LedgerState' = LedgerState
      BY <2>1, <2>2, <3>1, <3>2
    <3>4. QED BY <2>2, <3>3
  <2>6. QED BY <2>3, <2>4, <2>5 DEF Outcome
<1>5. QED BY <1>1, <1>2, <1>3, <1>4 DEF MoneyStep

\* The detailed refund code, threads, jobs, gateway and crashes included, does
\* nothing to the money of a payment that the abstract ledger does not allow.
THEOREM RefundsImplementLedger == Spec => ImplementsLedger
<1>1. Inductive /\ [Next]_vars => [Ledger!Next]_<<LedgerState, LedgerHeld>>
  BY LedgerStep
<1>2. QED BY <1>1, LedgerInit, AlwaysInductive, PTL DEF Spec, ImplementsLedger, Ledger!Spec

-----------------------------------------------------------------------------
(***************************************************************************)
(* The status of the order and of the payment.                             *)
(***************************************************************************)

\* An open refund keeps its amount away from what is paid out.
LEMMA OpenBeyondPaid ==
    ASSUME NEW r \in [Key -> Row], NEW k \in Key, r[k].status \in Open
    PROVE  SumOf(r, {"succeeded"}) + r[k].amount <= SumOf(r, Open \cup {"succeeded"})
<1> DEFINE f == Share(r, {"succeeded"})
           g == [f EXCEPT ![k] = r[k].amount]
           h == Share(r, Open \cup {"succeeded"})
<1>1. f \in [1..NumKeys -> Int] /\ h \in [1..NumKeys -> Int] /\ r[k].amount \in Int
  BY ShareType DEF Row
<1>2. f[k] = 0
  BY DEF Share, Open
<1>3. \A i \in Key : g[i] <= h[i]
  <2>1. h[k] = r[k].amount
    BY DEF Share
  <2>2. ASSUME NEW i \in Key PROVE f[i] <= h[i]
    BY DEF Share, Row
  <2> HIDE DEF f, h
  <2>3. QED BY <1>1, <2>1, <2>2 DEF Key
<1>4. SumOf(r, {"succeeded"}) = Total(f, NumKeys)
      /\ SumOf(r, Open \cup {"succeeded"}) = Total(h, NumKeys)
  BY ShareType
<1> HIDE DEF f, h
<1>5. g \in [1..NumKeys -> Int] /\ g[k] = r[k].amount /\ k \in 1..NumKeys
      /\ \A i \in 1..NumKeys : i # k => g[i] = f[i]
  BY <1>1 DEF Key
<1> HIDE DEF g
<1>6. Total(g, NumKeys) = Total(f, NumKeys) - f[k] + g[k]
  <2>1. /\ NumKeys \in Nat /\ k \in 1..NumKeys
        /\ f \in [1..NumKeys -> Int] /\ g \in [1..NumKeys -> Int]
        /\ \A i \in 1..NumKeys : i # k => g[i] = f[i]
    BY <1>1, <1>5
  <2>2. QED BY <2>1, TotalUpdate
<1>7. Total(g, NumKeys) <= Total(h, NumKeys)
  <2>1. \A i \in 1..NumKeys : g[i] <= h[i]
    BY <1>3 DEF Key
  <2>2. NumKeys \in Nat
    OBVIOUS
  <2>3. QED BY <1>1, <1>5, <2>1, <2>2, TotalMonotone
<1>8. Total(f, NumKeys) \in Int
  BY <1>1, TotalType
<1>9. QED BY <1>1, <1>2, <1>4, <1>5, <1>6, <1>7, <1>8

\* What the rows say of the paid out sum, in a state where nothing is over-reserved.
LEMMA PaidOutFacts ==
    ASSUME NEW r \in [Key -> Row],
           SumOf(r, Open \cup {"succeeded"}) <= Amount,
           \A k \in Key : r[k].status # "absent" => r[k].amount > 0
    PROVE  /\ SumOf(r, {"succeeded"}) \in Int
           /\ SumOf(r, {"succeeded"}) <= Amount
           /\ Some(r, Open) => SumOf(r, {"succeeded"}) < Amount
           /\ Some(r, {"succeeded"}) <=> SumOf(r, {"succeeded"}) > 0
           /\ SumOf(r, {"succeeded"}) >= 0
<1> DEFINE paid == SumOf(r, {"succeeded"})
           all == SumOf(r, Open \cup {"succeeded"})
<1>1. paid \in Int /\ all \in Int
  BY SumType
<1>2. paid <= all
  <2>1. \A i \in Key : Share(r, {"succeeded"})[i] <= Share(r, Open \cup {"succeeded"})[i]
    BY DEF Share, Row
  <2> DEFINE f == Share(r, {"succeeded"})
             h == Share(r, Open \cup {"succeeded"})
  <2>2. /\ NumKeys \in Nat /\ f \in [1..NumKeys -> Int] /\ h \in [1..NumKeys -> Int]
        /\ \A i \in 1..NumKeys : f[i] <= h[i]
    BY <2>1, ShareType DEF Key
  <2>3. paid = Total(f, NumKeys) /\ all = Total(h, NumKeys)
    BY ShareType
  <2> HIDE DEF f, h
  <2>4. QED BY <2>2, <2>3, TotalMonotone
<1>3. ASSUME Some(r, Open) PROVE paid < Amount
  <2>1. PICK k \in Key : r[k].status \in Open
    BY <1>3 DEF Some
  <2>2. r[k].amount > 0 /\ r[k].amount \in Int
    BY <2>1 DEF Open, Row
  <2>3. paid + r[k].amount <= all
    BY <2>1, OpenBeyondPaid
  <2>4. all <= Amount /\ Amount \in Int
    OBVIOUS
  <2> HIDE DEF paid, all
  <2>5. \A a, b, c, d \in Int : b > 0 /\ a + b <= c /\ c <= d => a < d
    OBVIOUS
  <2>6. QED BY <1>1, <2>2, <2>3, <2>4, <2>5
<1>4. ASSUME Some(r, {"succeeded"}) PROVE paid > 0
  <2>1. PICK k \in Key : r[k].status = "succeeded"
    BY <1>4 DEF Some
  <2>2. r[k].amount > 0 /\ r[k].amount \in Int
    BY <2>1 DEF Row
  <2>3. paid >= r[k].amount
    BY <2>1, SumAtLeastRow
  <2> HIDE DEF paid
  <2>4. QED BY <1>1, <2>2, <2>3
<1>5. ASSUME ~ Some(r, {"succeeded"}) PROVE paid = 0
  BY <1>5, SumOfNone DEF Some
<1>6. all <= Amount
  OBVIOUS
<1> HIDE DEF paid, all
<1>7. QED BY <1>1, <1>2, <1>3, <1>4, <1>5, <1>6 DEF paid

\* The facts of PaidOutFacts about the next state.
LEMMA NextFacts ==
    ASSUME Inductive, [Next]_vars
    PROVE  /\ PaidOut' \in Int /\ PaidOut' >= 0 /\ PaidOut' <= Amount
           /\ Some(refund', Open) => PaidOut' < Amount
           /\ Some(refund', {"succeeded"}) <=> PaidOut' > 0
<1>1. Inductive'
  BY StepInductive
<1>2. /\ refund' \in [Key -> Row]
      /\ SumOf(refund', Open \cup {"succeeded"}) <= Amount
      /\ \A k \in Key : refund'[k].status # "absent" => refund'[k].amount > 0
  BY <1>1 DEF Inductive, TypeOK, NeverOverReserved, Reserved, RowsAreReserved
<1>3. PaidOut' = SumOf(refund', {"succeeded"})
  BY DEF PaidOut
<1>4. QED BY <1>2, <1>3, PaidOutFacts

\* A step that writes neither status and keeps the rows keeps the match.
LEMMA StatusKept ==
    ASSUME Inductive, [Next]_vars, StatusMatchesRows,
           \A k \in Key : SameRow(k), UNCHANGED <<payment, order>>
    PROVE  StatusMatchesRows'
<1>1. refund \in [Key -> Row] /\ refund' \in [Key -> Row]
  BY StepType DEF Inductive, TypeOK
<1>2. PaidOut' = PaidOut
  BY <1>1, SumSame DEF PaidOut, SameRow
<1>3. \A S : Some(refund', S) <=> Some(refund, S)
  BY DEF Some, SameRow
<1>4. QED BY <1>2, <1>3 DEF StatusMatchesRows

LEMMA FinalizeStatus ==
    ASSUME Inductive, [Next]_vars, StatusMatchesRows,
           NEW k \in Key, NEW status \in Outcome, NEW hasId, NEW error,
           refund[k].status # "absent", FinalizeRefund(k, status, hasId, error)
    PROVE  StatusMatchesRows'
<1>1. CASE Settled(k)
  BY <1>1, StatusKept DEF FinalizeRefund, db, SameRow
<1>2. CASE ~ Settled(k)
  <2>1. payment # "pending"
    BY DEF Inductive, RowsAreReserved
  <2>2. /\ refund[k].status \in Open
        /\ refund'[k].status = status
        /\ \A i \in Key \ {k} : SameRow(i)
        /\ refund'[k].amount = refund[k].amount
    <3>1. TypeOK
      BY DEF Inductive
    <3>2. refund[k].status \in Open
      BY <1>2, <3>1 DEF Settled, TypeOK, Row, RefundStatus
    <3>3. refund' = [refund EXCEPT ![k].status = status,
                                   ![k].gatewayId = @ \/ hasId,
                                   ![k].error = error]
      BY <1>2 DEF FinalizeRefund
    <3>4. refund'[k].status = status /\ refund'[k].amount = refund[k].amount
      BY <3>1, <3>3 DEF TypeOK, Row
    <3>5. \A i \in Key \ {k} : refund'[i] = refund[i]
      BY <3>1, <3>3 DEF TypeOK
    <3>6. QED BY <3>2, <3>4, <3>5 DEF SameRow
  <2>3. /\ order' = OrderAfter(status, refund')
        /\ payment' = IF IsFull(status, refund') THEN "refunded" ELSE payment
    BY <1>2 DEF FinalizeRefund
  <2>4. IsFull(status, refund') <=> status = "succeeded" /\ PaidOut' >= Amount
    BY DEF IsFull, PaidOut
  <2>5. status = "unknown" => Some(refund', Open)
    BY <2>2 DEF Some, Open
  <2>6. status = "succeeded" => Some(refund', {"succeeded"})
    BY <2>2 DEF Some
  <2>7. /\ PaidOut' \in Int /\ PaidOut' >= 0 /\ PaidOut' <= Amount
        /\ Some(refund', Open) => PaidOut' < Amount
        /\ Some(refund', {"succeeded"}) <=> PaidOut' > 0
    BY NextFacts
  <2>8. payment # "refunded" /\ (status # "succeeded" => PaidOut' < Amount)
    <3>1. refund \in [Key -> Row] /\ refund' \in [Key -> Row]
      BY StepType DEF Inductive, TypeOK
    <3>2. PaidOut \in Int /\ PaidOut < Amount
      <4>1. Some(refund, Open)
        BY <2>2 DEF Some
      <4>2. QED BY <4>1, PaidOutFacts
            DEF Inductive, TypeOK, NeverOverReserved, Reserved, RowsAreReserved, PaidOut
    <3>3. payment # "refunded"
      BY <2>1, <3>2 DEF StatusMatchesRows
    <3>4. ASSUME status # "succeeded" PROVE PaidOut' = PaidOut
      <4>1. Share(refund, {"succeeded"})[k] = 0 /\ Share(refund', {"succeeded"})[k] = 0
        BY <2>2, <3>4 DEF Share, Open
      <4>2. SumOf(refund', {"succeeded"})
              = SumOf(refund, {"succeeded"}) - Share(refund, {"succeeded"})[k]
                  + Share(refund', {"succeeded"})[k]
        BY <2>2, <3>1, SumUpdate DEF SameRow
      <4>3. QED BY <3>2, <4>1, <4>2 DEF PaidOut
    <3>5. QED BY <3>2, <3>3, <3>4
  <2>9. payment' # "pending"
    BY <2>1, <2>3
  <2>10. /\ (payment' = "refunded") <=> (PaidOut' = Amount)
         /\ (order' = "refunded") <=> (PaidOut' = Amount)
         /\ (order' = "refunding") <=> Some(refund', Open)
         /\ (order' = "partially_refunded") <=>
                PaidOut' > 0 /\ PaidOut' < Amount /\ ~Some(refund', Open)
         /\ (order' = "paid") <=> PaidOut' = 0 /\ ~Some(refund', Open)
    <3>1. CASE IsFull(status, refund')
      BY <2>3, <2>4, <2>7, <3>1 DEF OrderAfter
    <3>2. CASE ~ IsFull(status, refund')
      <4>1. PaidOut' < Amount /\ payment' = payment
        BY <2>3, <2>4, <2>7, <2>8, <3>2
      <4>2. CASE Some(refund', Open)
        BY <2>3, <2>8, <3>2, <4>1, <4>2 DEF OrderAfter
      <4>3. CASE ~ Some(refund', Open) /\ Some(refund', {"succeeded"})
        BY <2>3, <2>5, <2>7, <2>8, <3>2, <4>1, <4>3 DEF OrderAfter
      <4>4. CASE ~ Some(refund', Open) /\ ~ Some(refund', {"succeeded"})
        <5>1. PaidOut' = 0
          BY <2>7, <4>4
        <5>2. order' = "paid"
          BY <2>3, <2>5, <2>6, <3>2, <4>4 DEF OrderAfter
        <5>3. QED BY <2>8, <4>1, <4>4, <5>1, <5>2
      <4>5. QED BY <4>2, <4>3, <4>4
    <3>3. QED BY <3>1, <3>2
  <2>11. QED BY <2>9, <2>10 DEF StatusMatchesRows
<1>3. QED BY <1>1, <1>2

LEMMA StepStatus ==
    ASSUME Inductive, [Next]_vars, StatusMatchesRows
    PROVE  StatusMatchesRows'
<1> USE DEF Inductive
<1>1. ASSUME UNCHANGED <<payment, order, refund>> PROVE StatusMatchesRows'
  BY <1>1, StatusKept DEF SameRow
<1>2. ASSUME NEW cancelled \in BOOLEAN, PaymentCompleted(cancelled) PROVE StatusMatchesRows'
  <2>1. \A k \in Key : refund[k].status = "absent"
    BY <1>2 DEF PaymentCompleted, RowsAreReserved
  <2>2. /\ PaidOut' \in Int /\ PaidOut' >= 0 /\ PaidOut' <= Amount
        /\ Some(refund', Open) => PaidOut' < Amount
        /\ Some(refund', {"succeeded"}) <=> PaidOut' > 0
    BY NextFacts
  <2>3. ~ Some(refund', {"succeeded"}) /\ (Some(refund', Open) <=> cancelled)
    <3>1. CASE cancelled
      <4>1. LateKey \in Key
        BY DEF Key
      <4>2. /\ refund'[LateKey].status = "pending"
            /\ \A k \in Key \ {LateKey} : refund'[k] = refund[k]
        BY <1>2, <3>1, <4>1 DEF PaymentCompleted, TypeOK, NewRow
      <4>3. QED BY <2>1, <3>1, <4>1, <4>2 DEF Some, Open
    <3>2. CASE ~ cancelled
      BY <1>2, <2>1, <3>2 DEF PaymentCompleted, Some, Open
    <3>3. QED BY <3>1, <3>2
  <2>4. PaidOut' = 0
    BY <2>2, <2>3
  <2>5. payment' = "success" /\ order' = IF cancelled THEN "refunding" ELSE "paid"
    BY <1>2 DEF PaymentCompleted
  <2>6. QED BY <2>3, <2>4, <2>5 DEF StatusMatchesRows
<1>3. ASSUME NEW k \in Key, NEW amount \in 1..Amount, CreateRefund(k, amount)
      PROVE  StatusMatchesRows'
  <2>1. /\ PaidOut' \in Int /\ PaidOut' >= 0 /\ PaidOut' <= Amount
        /\ Some(refund', Open) => PaidOut' < Amount
    BY NextFacts
  <2>2. Some(refund', Open)
    BY <1>3 DEF CreateRefund, TypeOK, NewRow, Some, Open
  <2>3. payment' = "success" /\ order' = "refunding"
    BY <1>3 DEF CreateRefund
  <2>4. QED BY <2>1, <2>2, <2>3 DEF StatusMatchesRows
<1>4. ASSUME NEW k \in Key, ThreadFinalize(k) PROVE StatusMatchesRows'
  <2>1. refund[k].status # "absent"
    BY <1>4 DEF ThreadFinalize, RowsAreReserved, Answer
  <2>2. Verdict(thread[k]) \in Outcome
    BY <1>4, VerdictType DEF ThreadFinalize
  <2>3. QED BY <1>4, <2>1, <2>2, FinalizeStatus DEF ThreadFinalize
<1>5. ASSUME NEW j \in Jobs, JobGiveUp(j) PROVE StatusMatchesRows'
  <2>1. job[j].key \in Key /\ refund[job[j].key].status # "absent"
    BY <1>5 DEF JobGiveUp, RowsAreReserved, TypeOK, Run
  <2>2. "failed" \in Outcome
    BY DEF Outcome
  <2>3. QED BY <1>5, <2>1, <2>2, FinalizeStatus DEF JobGiveUp
<1>6. ASSUME NEW j \in Jobs, JobApply(j) PROVE StatusMatchesRows'
  <2>1. job[j].key \in Key /\ refund[job[j].key].status # "absent"
    BY <1>6 DEF JobApply, RowsAreReserved, TypeOK, Run
  <2>2. Verdict(job[j].answer) \in Outcome
    BY VerdictType DEF TypeOK, Run
  <2>3. QED BY <1>6, <2>1, <2>2, FinalizeStatus DEF JobApply
<1>7. ASSUME NEW j \in Jobs, JobCount(j) PROVE StatusMatchesRows'
  <2>1. refund' = [refund EXCEPT ![job[j].key].attempts = Count(j)]
        /\ UNCHANGED <<payment, order>>
    BY <1>7 DEF JobCount
  <2>2. \A k \in Key : SameRow(k)
    BY <2>1 DEF SameRow, TypeOK, Row
  <2>3. QED BY <2>1, <2>2, StatusKept
<1>8. ASSUME NEW k \in Key, GatewaySettles(k) \/ ThreadCall(k) \/ ThreadCrash(k)
      PROVE  StatusMatchesRows'
  BY <1>1, <1>8 DEF GatewaySettles, ThreadCall, ThreadCrash, db
<1>9. ASSUME NEW j \in Jobs,
             JobStart(j) \/ JobRead(j) \/ JobQuery(j) \/ JobReplay(j) \/ JobCrash(j)
      PROVE  StatusMatchesRows'
  BY <1>1, <1>9 DEF JobStart, JobRead, JobQuery, JobReplay, JobCrash, db
<1>10. CASE UNCHANGED vars
  BY <1>1, <1>10 DEF vars
<1>11. QED
  BY <1>2, <1>3, <1>4, <1>5, <1>6, <1>7, <1>8, <1>9, <1>10 DEF Next, JobStep

\* The order's payment status is exactly what the refund rows say, although the
\* webhook, create_refund and _finalize_refund each write it from what they see.
THEOREM StatusCorrect == Spec => []StatusMatchesRows
<1>1. Init => StatusMatchesRows
  BY DEF Init, StatusMatchesRows, Some, Absent, NewRow
<1>2. Inductive /\ StatusMatchesRows /\ [Next]_vars => StatusMatchesRows'
  BY StepStatus
<1>3. QED BY <1>1, <1>2, AlwaysInductive, PTL DEF Spec

-----------------------------------------------------------------------------
(***************************************************************************)
(* What a refund log row says of the gateway's outcome.                    *)
(***************************************************************************)
Final == {"done", "failed", "rejected"}
Refused == {"failed", "rejected"}

\* No row is called failed, and no thread or job has read a failure, unless the
\* gateway has refused for good: answers in memory, rows and gateway agree.  A row
\* that a job gave up is the exception.
OutcomesAreTheGateways ==
    /\ \A k \in Key : refund[k].status = "absent" => gateway[k] = "none"
    /\ \A k \in Key : thread[k] \in Refused => gateway[k] = thread[k]
    /\ \A j \in Jobs : job[j].answer \in Refused => gateway[job[j].key] = job[j].answer
    /\ \A k \in Key : refund[k].status = "failed" =>
          refund[k].error = "max_attempts" \/ gateway[k] \in Refused

\* A call finds what the gateway holds under the request id, and a refusal it
\* reports is the gateway's.
LEMMA GatewayCreateKeeps ==
    ASSUME TypeOK, ~ RefusalIsRejection, NEW k \in Key, NEW answer, GatewayCreate(k, answer)
    PROVE  /\ \A i \in Key \ {k} : gateway'[i] = gateway[i]
           /\ gateway[k] # "none" => gateway'[k] = gateway[k]
           /\ answer \in Refused => gateway'[k] = answer
<1>1. PICK status \in GatewayStatus :
         /\ gateway[k] # "none" => status = gateway[k]
         /\ answer \in Answers(status)
         /\ gateway' = [gateway EXCEPT ![k] = status]
  BY DEF GatewayCreate, TypeOK
<1>2. answer \in Refused => status = answer
  BY <1>1 DEF Answers, Refused, GatewayStatus
<1>3. QED BY <1>1, <1>2 DEF TypeOK

\* What the gateway has decided stays, and it holds nothing for a row that is not there.
LEMMA GatewayStep ==
    ASSUME Inductive, OutcomesAreTheGateways, ~ RefusalIsRejection, [Next]_vars
    PROVE  \A k \in Key : /\ gateway[k] \in Final => gateway'[k] = gateway[k]
                          /\ refund[k].status = "absent" => gateway'[k] = gateway[k]
<1> USE DEF Inductive
<1>1. ASSUME NEW i \in Key, GatewaySettles(i)
      PROVE  \A k \in Key : /\ gateway[k] \in Final => gateway'[k] = gateway[k]
                            /\ refund[k].status = "absent" => gateway'[k] = gateway[k]
  BY <1>1 DEF GatewaySettles, OutcomesAreTheGateways, TypeOK, Final
<1>2. ASSUME NEW i \in Key, NEW answer, GatewayCreate(i, answer), refund[i].status # "absent"
      PROVE  \A k \in Key : /\ gateway[k] \in Final => gateway'[k] = gateway[k]
                            /\ refund[k].status = "absent" => gateway'[k] = gateway[k]
  BY <1>2, GatewayCreateKeeps DEF Final
<1>3. ASSUME NEW i \in Key, ThreadCall(i)
      PROVE  UNCHANGED gateway \/ (refund[i].status # "absent"
                                    /\ \E answer \in Answer : GatewayCreate(i, answer))
  BY <1>3 DEF ThreadCall
<1>4. ASSUME NEW j \in Jobs, JobReplay(j)
      PROVE  \E i \in Key, answer \in Answer :
                 refund[i].status # "absent" /\ GatewayCreate(i, answer)
  <2>1. job[j].key \in Key /\ refund[job[j].key].status # "absent"
    BY <1>4 DEF JobReplay, RowsAreReserved, TypeOK, Run
  <2>2. QED BY <1>4, <2>1 DEF JobReplay
<1>5. UNCHANGED gateway \/ (\E i \in Key : GatewaySettles(i) \/ ThreadCall(i))
                        \/ (\E j \in Jobs : JobReplay(j))
  BY DEF Next, JobStep, PaymentCompleted, CreateRefund, ThreadFinalize, ThreadCrash, JobStart,
         JobRead, JobGiveUp, JobQuery, JobApply, JobCount, JobCrash, vars
<1>6. QED BY <1>1, <1>2, <1>3, <1>4, <1>5

\* A row is called failed by a job that gives it up, or by an answer that refuses it.
LEMMA FinalizeOutcome ==
    ASSUME TypeOK, NEW k \in Key, NEW status \in Outcome, NEW hasId,
           NEW error \in {"none", "gateway", "max_attempts"},
           FinalizeRefund(k, status, hasId, error),
           status = "failed" => error = "max_attempts" \/ gateway'[k] \in Refused,
           NEW i \in Key, refund'[i].status = "failed"
    PROVE  \/ refund[i].status = "failed" /\ refund'[i].error = refund[i].error
           \/ refund'[i].error = "max_attempts"
           \/ gateway'[i] \in Refused
<1>1. CASE Settled(k)
  BY <1>1 DEF FinalizeRefund, db
<1>2. CASE ~ Settled(k)
  <2>1. refund' = [refund EXCEPT ![k].status = status,
                                 ![k].gatewayId = @ \/ hasId,
                                 ![k].error = error]
    BY <1>2 DEF FinalizeRefund
  <2>2. CASE i # k
    BY <2>1, <2>2 DEF TypeOK
  <2>3. CASE i = k
    <3>1. refund'[k].status = status /\ refund'[k].error = error
      BY <2>1 DEF TypeOK, Row
    <3>2. QED BY <2>3, <3>1
  <2>4. QED BY <2>2, <2>3
<1>3. QED BY <1>1, <1>2

LEMMA RefusedVerdict == \A answer \in Answer : (Verdict(answer) = "failed") <=> answer \in Refused
BY DEF Answer, Verdict, Refused

LEMMA StepOutcomes ==
    ASSUME Inductive, OutcomesAreTheGateways, ~ RefusalIsRejection, [Next]_vars
    PROVE  OutcomesAreTheGateways'
<1> USE DEF Inductive
<1>1. \A k \in Key : /\ gateway[k] \in Final => gateway'[k] = gateway[k]
                     /\ refund[k].status = "absent" => gateway'[k] = gateway[k]
  BY GatewayStep
<1>2. \A k \in Key : gateway[k] \in Refused => gateway'[k] = gateway[k]
  BY <1>1 DEF Refused, Final
<1>3. ASSUME NEW k \in Key, refund'[k].status = "absent" PROVE gateway'[k] = "none"
  <2>1. refund[k].status = "absent"
    BY <1>3, StepMoney, StepRows
  <2>2. QED BY <1>1, <2>1 DEF OutcomesAreTheGateways
<1>4. ASSUME NEW k \in Key, thread'[k] \in Refused PROVE gateway'[k] = thread'[k]
  <2>1. CASE thread'[k] = thread[k]
    BY <1>2, <1>4, <2>1 DEF OutcomesAreTheGateways
  <2>2. CASE ThreadCall(k)
    <3>1. CASE refund[k].status # "pending"
      BY <1>4, <2>2, <3>1 DEF ThreadCall, TypeOK, Refused
    <3>2. CASE refund[k].status = "pending"
      <4>1. PICK answer \in Answer :
               GatewayCreate(k, answer) /\ thread' = [thread EXCEPT ![k] = answer]
        BY <2>2, <3>2 DEF ThreadCall
      <4>2. thread'[k] = answer
        BY <4>1 DEF TypeOK
      <4>3. QED BY <1>4, <4>1, <4>2, GatewayCreateKeeps
    <3>3. QED BY <3>1, <3>2
  <2>3. thread'[k] = thread[k] \/ thread'[k] \in {"none", "call"} \/ ThreadCall(k)
    BY DEF Next, JobStep, PaymentCompleted, CreateRefund, GatewaySettles, ThreadCall,
           ThreadFinalize, ThreadCrash, JobStart, JobRead, JobGiveUp, JobQuery, JobReplay,
           JobApply, JobCount, JobCrash, vars, TypeOK
  <2>4. QED BY <1>4, <2>1, <2>2, <2>3 DEF Refused
<1>5. ASSUME NEW j \in Jobs, job'[j].answer \in Refused
      PROVE  gateway'[job'[j].key] = job'[j].answer
  <2>1. CASE job'[j].answer = job[j].answer /\ job'[j].key = job[j].key
    <3>1. job[j].key \in Key /\ gateway[job[j].key] = job[j].answer
      BY <1>5, <2>1 DEF OutcomesAreTheGateways, TypeOK, Run
    <3>2. QED BY <1>2, <1>5, <2>1, <3>1
  <2>2. ASSUME job'[j].answer = "lost" PROVE FALSE
    BY <1>5, <2>2 DEF Refused
  <2>3. CASE JobQuery(j)
    <3>1. CASE \E answer \in Answers(gateway[job[j].key]) :
                  job' = [job EXCEPT ![j].pc = "apply", ![j].answer = answer]
      <4>1. PICK answer \in Answers(gateway[job[j].key]) :
               job' = [job EXCEPT ![j].pc = "apply", ![j].answer = answer]
        BY <3>1
      <4>2. job'[j].answer = answer /\ job'[j].key = job[j].key
        BY <4>1 DEF TypeOK, Run
      <4>3. gateway[job[j].key] \in GatewayStatus /\ UNCHANGED gateway
        BY <2>3 DEF JobQuery, TypeOK, Run
      <4>4. QED BY <1>5, <4>1, <4>2, <4>3 DEF Answers, Refused, GatewayStatus
    <3>2. CASE job' = [job EXCEPT ![j].pc = "count"] \/ job' = [job EXCEPT ![j].pc = "replay"]
      <4>1. job'[j].answer = job[j].answer /\ job'[j].key = job[j].key
        BY <3>2 DEF TypeOK, Run
      <4>2. QED BY <2>1, <4>1
    <3>3. QED BY <2>3, <3>1, <3>2 DEF JobQuery
  <2>4. CASE JobReplay(j)
    <3>1. PICK answer \in Answer :
             /\ GatewayCreate(job[j].key, answer)
             /\ job' = [job EXCEPT ![j].pc = "apply", ![j].answer = answer]
      BY <2>4 DEF JobReplay
    <3>2. job[j].key \in Key /\ job'[j].answer = answer /\ job'[j].key = job[j].key
      BY <3>1 DEF TypeOK, Run
    <3>3. QED BY <1>5, <3>1, <3>2, GatewayCreateKeeps
  <2>5. ASSUME NEW i \in Jobs, i # j, JobStep(i) \/ JobCrash(i) PROVE job'[j] = job[j]
    BY <2>5 DEF JobStep, JobStart, JobRead, JobGiveUp, JobQuery, JobReplay, JobApply,
                JobCount, JobCrash, JobNext, TypeOK
  <2>6. ASSUME JobStart(j)
        PROVE  job'[j].answer = job[j].answer /\ job'[j].key = job[j].key
    BY <2>6 DEF JobStart, TypeOK, Run
  <2>7. ASSUME JobRead(j) PROVE job'[j].answer = "lost"
    BY <2>7 DEF JobRead, TypeOK
  <2>8. ASSUME job' = JobNext(j) \/ job' = [job EXCEPT ![j] = Idle] PROVE job'[j].answer = "lost"
    <3>1. job'[j] = Between(job[j].todo) \/ job'[j] = Between({})
      BY <2>8 DEF JobNext, Idle, TypeOK
    <3>2. QED BY <3>1 DEF Between
  <2>9. ASSUME JobApply(j)
        PROVE  \/ job'[j].answer = job[j].answer /\ job'[j].key = job[j].key
               \/ job'[j].answer = "lost"
    <3>1. job' = JobNext(j) \/ job' = [job EXCEPT ![j].pc = "count"]
      BY <2>9 DEF JobApply
    <3>2. CASE job' = [job EXCEPT ![j].pc = "count"]
      BY <3>2 DEF TypeOK, Run
    <3>3. QED BY <2>8, <3>1, <3>2
  <2>10. QED
    <3>1. ASSUME NEW i \in Jobs, JobStep(i) \/ JobCrash(i)
          PROVE  gateway'[job'[j].key] = job'[j].answer
      <4>1. CASE i # j
        BY <2>1, <2>5, <3>1, <4>1
      <4>2. CASE i = j
        BY <2>1, <2>2, <2>3, <2>4, <2>6, <2>7, <2>8, <2>9, <3>1, <4>2
           DEF JobStep, JobGiveUp, JobCount, JobCrash
      <4>3. QED BY <4>1, <4>2
    <3>2. UNCHANGED job \/ \E i \in Jobs : JobStep(i) \/ JobCrash(i)
      BY DEF Next, PaymentCompleted, CreateRefund, GatewaySettles, ThreadCall,
             ThreadFinalize, ThreadCrash, vars
    <3>3. QED BY <2>1, <3>1, <3>2
<1>6. ASSUME NEW k \in Key, refund'[k].status = "failed"
      PROVE  refund'[k].error = "max_attempts" \/ gateway'[k] \in Refused
  <2>1. ASSUME refund[k].status = "failed", refund'[k].error = refund[k].error
        PROVE  refund'[k].error = "max_attempts" \/ gateway'[k] \in Refused
    BY <1>2, <2>1 DEF OutcomesAreTheGateways
  <2>2. ASSUME NEW i \in Key, ThreadFinalize(i)
        PROVE  refund'[k].error = "max_attempts" \/ gateway'[k] \in Refused
    <3>1. /\ Verdict(thread[i]) \in Outcome
          /\ FinalizeRefund(i, Verdict(thread[i]), CarriesId(thread[i]), "gateway")
      BY <2>2, VerdictType DEF ThreadFinalize
    <3>2. Verdict(thread[i]) = "failed" => gateway'[i] \in Refused
      BY <1>2, <2>2, RefusedVerdict DEF ThreadFinalize, OutcomesAreTheGateways
    <3>3. QED BY <1>6, <2>1, <3>1, <3>2, FinalizeOutcome
  <2>3. ASSUME NEW j \in Jobs, JobGiveUp(j)
        PROVE  refund'[k].error = "max_attempts" \/ gateway'[k] \in Refused
    <3>1. job[j].key \in Key /\ "failed" \in Outcome
          /\ FinalizeRefund(job[j].key, "failed", FALSE, "max_attempts")
      BY <2>3 DEF JobGiveUp, TypeOK, Run, Outcome
    <3>2. QED BY <1>6, <2>1, <3>1, FinalizeOutcome
  <2>4. ASSUME NEW j \in Jobs, JobApply(j)
        PROVE  refund'[k].error = "max_attempts" \/ gateway'[k] \in Refused
    <3>1. job[j].key \in Key /\ job[j].answer \in Answer
      BY DEF TypeOK, Run
    <3>2. /\ Verdict(job[j].answer) \in Outcome
          /\ FinalizeRefund(job[j].key, Verdict(job[j].answer), CarriesId(job[j].answer),
                            "gateway")
      BY <2>4, <3>1, VerdictType DEF JobApply
    <3>3. Verdict(job[j].answer) = "failed" => gateway'[job[j].key] \in Refused
      BY <1>2, <3>1, RefusedVerdict DEF OutcomesAreTheGateways
    <3>4. QED BY <1>6, <2>1, <3>1, <3>2, <3>3, FinalizeOutcome
  <2>5. ASSUME NEW j \in Jobs, JobCount(j)
        PROVE  refund[k].status = "failed" /\ refund'[k].error = refund[k].error
    <3>1. refund' = [refund EXCEPT ![job[j].key].attempts = Count(j)]
      BY <2>5 DEF JobCount
    <3>2. refund'[k].status = refund[k].status /\ refund'[k].error = refund[k].error
      BY <3>1 DEF TypeOK, Row
    <3>3. QED BY <1>6, <3>2
  <2>6. ASSUME NEW i \in Key, NEW amount,
               refund' = [refund EXCEPT ![i] = NewRow("pending", amount)]
        PROVE  refund[k].status = "failed" /\ refund'[k].error = refund[k].error
    BY <1>6, <2>6 DEF TypeOK, NewRow
  <2>7. ASSUME NEW cancelled \in BOOLEAN, PaymentCompleted(cancelled)
        PROVE  refund[k].status = "failed" /\ refund'[k].error = refund[k].error
    BY <1>6, <2>6, <2>7 DEF PaymentCompleted, Key
  <2>8. ASSUME NEW i \in Key, NEW amount \in 1..Amount, CreateRefund(i, amount)
        PROVE  refund[k].status = "failed" /\ refund'[k].error = refund[k].error
    BY <2>6, <2>8 DEF CreateRefund
  <2>9. CASE UNCHANGED refund
    BY <1>6, <2>1, <2>9
  <2>10. QED
    BY <2>1, <2>2, <2>3, <2>4, <2>5, <2>7, <2>8, <2>9 DEF Next, JobStep, GatewaySettles,
       ThreadCall, ThreadCrash, JobStart, JobRead, JobQuery, JobReplay, JobCrash, vars, db
<1>7. QED BY <1>3, <1>4, <1>5, <1>6 DEF OutcomesAreTheGateways

\* Money the gateway has paid out stays counted as reserved unless a job gave the
\* row up: no lost answer, crash or overlap of jobs makes the code believe that a
\* refund that happened did not.  Of a gateway client that takes no refusal at the
\* door for a rejection.
THEOREM PaidOutStaysCounted ==
    ASSUME ~ RefusalIsRejection
    PROVE  Spec => []PaidOutIsCounted
<1>1. Init => OutcomesAreTheGateways
  BY DEF Init, OutcomesAreTheGateways, Absent, NewRow, Idle, Between, Refused
<1>2. Inductive /\ OutcomesAreTheGateways /\ [Next]_vars => OutcomesAreTheGateways'
  BY StepOutcomes
<1>3. Inductive /\ OutcomesAreTheGateways => PaidOutIsCounted
  BY DEF Inductive, TypeOK, Row, RefundStatus, Open, Terminal, OutcomesAreTheGateways,
         PaidOutIsCounted, Refused
<1>4. QED BY <1>1, <1>2, <1>3, AlwaysInductive, PTL DEF Spec

-----------------------------------------------------------------------------
(***************************************************************************)
(* The coupon of the order.                                                *)
(***************************************************************************)
LEMMA FinalizeCoupon ==
    ASSUME CouponBackOnlyWhenRefunded, NEW k, NEW status, NEW hasId, NEW error,
           FinalizeRefund(k, status, hasId, error)
    PROVE  CouponBackOnlyWhenRefunded'
BY DEF FinalizeRefund, CouponAfter, CouponBackOnlyWhenRefunded, db

\* The coupon comes back in the transaction that settles the last refund of a full
\* one, and a refunded payment is never anything else again.
THEOREM CouponBackAfterFullRefund == Spec => []CouponBackOnlyWhenRefunded
<1>1. Init => CouponBackOnlyWhenRefunded
  BY DEF Init, CouponBackOnlyWhenRefunded
<1>2. CouponBackOnlyWhenRefunded /\ [Next]_vars => CouponBackOnlyWhenRefunded'
  <2> SUFFICES ASSUME CouponBackOnlyWhenRefunded, [Next]_vars
               PROVE  CouponBackOnlyWhenRefunded'
    OBVIOUS
  <2>1. ASSUME NEW k \in Key, ThreadFinalize(k) PROVE CouponBackOnlyWhenRefunded'
    BY <2>1, FinalizeCoupon DEF ThreadFinalize
  <2>2. ASSUME NEW j \in Jobs, JobGiveUp(j) \/ JobApply(j) PROVE CouponBackOnlyWhenRefunded'
    BY <2>2, FinalizeCoupon DEF JobGiveUp, JobApply
  <2>3. ASSUME NEW cancelled \in BOOLEAN, PaymentCompleted(cancelled)
        PROVE  CouponBackOnlyWhenRefunded'
    BY <2>3 DEF PaymentCompleted, CouponBackOnlyWhenRefunded
  <2>4. CASE UNCHANGED <<payment, coupon>>
    BY <2>4 DEF CouponBackOnlyWhenRefunded
  <2>5. QED
    BY <2>1, <2>2, <2>3, <2>4 DEF Next, JobStep, CreateRefund, GatewaySettles, ThreadCall,
       ThreadCrash, JobStart, JobRead, JobQuery, JobReplay, JobCount, JobCrash, vars, db
<1>3. QED BY <1>1, <1>2, PTL DEF Spec
=============================================================================
