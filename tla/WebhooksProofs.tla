---------------------------- MODULE WebhooksProofs ---------------------------
(* What the delivery of webhooks promises, for any events, endpoints,      *)
(* workers, staff, limit of attempts and size of batch.                    *)
EXTENDS Webhooks, TLAPS

Statuses == {"none", "pending", "retrying", "delivered", "failed"}

(* The types of the rows and of what the merchant received.                *)
RowTypes ==
    /\ status \in [Deliveries -> Statuses]
    /\ attempts \in [Deliveries -> 0 .. MaxAttempts]
    /\ waiting \subseteq Deliveries
    /\ born \in [Deliveries -> Nat]
    /\ history \in [Deliveries -> SUBSET (1 .. MaxAttempts)]
    /\ received \in [Deliveries -> Nat]
    /\ doubts \in [Deliveries -> Nat]

(* The types of what workers and staff have in hand.                       *)
DeskTypes ==
    /\ endpoint \in [Endpoints -> {"absent", "active", "paused"}]
    /\ batch \in [Workers -> SUBSET Deliveries]
    /\ overdue \in [Workers -> SUBSET Deliveries]
    /\ desk \in [Staff -> SUBSET Deliveries]
    /\ retrying \in [Staff -> SUBSET Deliveries]
    /\ crashes \in 0 .. MaxCrashes /\ replays \in 0 .. MaxReplays

RowInv ==
    /\ RowTypes
    /\ AttemptsAreRecorded
    /\ DuplicatesHaveACause
    /\ RetriesHaveAttemptsLeft

HooksInv == RowInv /\ DeskTypes

(* A row that counted its attempt: the audit stays whole.                  *)
LEMMA CountKeepsTheAudit ==
    ASSUME RowTypes, AttemptsAreRecorded, NEW d \in Deliveries, Deliverable(d), Count(d)
    PROVE  /\ attempts' \in [Deliveries -> 0 .. MaxAttempts]
           /\ history' \in [Deliveries -> SUBSET (1 .. MaxAttempts)]
           /\ \A x \in Deliveries : history'[x] = 1 .. attempts'[x]
           /\ \A x \in Deliveries : x # d => attempts'[x] = attempts[x]
           /\ attempts'[d] = attempts[d] + 1
<1>1. attempts[d] \in 0 .. MaxAttempts /\ attempts[d] < MaxAttempts /\ MaxAttempts \in Nat
  BY HooksAssumption DEF RowTypes, Deliverable
<1>2. attempts[d] + 1 \in 1 .. MaxAttempts
  BY <1>1
<1>3. attempts' = [attempts EXCEPT ![d] = attempts[d] + 1]
  BY DEF Count
<1>4. history' = [history EXCEPT ![d] = history[d] \cup {attempts[d] + 1}]
  BY DEF Count
<1>5. attempts' \in [Deliveries -> 0 .. MaxAttempts]
  BY <1>2, <1>3 DEF RowTypes
<1>6. history' \in [Deliveries -> SUBSET (1 .. MaxAttempts)]
  BY <1>2, <1>4 DEF RowTypes
<1>7. history[d] \cup {attempts[d] + 1} = 1 .. (attempts[d] + 1)
  <2>1. history[d] = 1 .. attempts[d]
    BY DEF AttemptsAreRecorded
  <2> QED
    BY <1>1, <2>1
<1>8. \A x \in Deliveries : history'[x] = 1 .. attempts'[x]
  BY <1>3, <1>4, <1>7 DEF RowTypes, AttemptsAreRecorded
<1> QED
  BY <1>3, <1>5, <1>6, <1>8 DEF RowTypes

(* deliver() keeps the rows in order, whoever calls it.                    *)
LEMMA DeliverKeepsRows ==
    ASSUME RowInv, NEW d \in Deliveries, Deliver(d)
    PROVE  RowInv'
<1> USE DEF RowInv
<1>0. MaxAttempts \in Nat \ {0} /\ attempts[d] \in 0 .. MaxAttempts
  BY HooksAssumption DEF RowTypes
<1>1. CASE Accepted(d)
  <2>1. Deliverable(d) /\ Count(d)
    BY <1>1 DEF Accepted
  <2>2. /\ status' = [status EXCEPT ![d] = "delivered"]
        /\ received' = [received EXCEPT ![d] = received[d] + 1]
        /\ waiting' = waiting \ {d}
        /\ doubts' = doubts /\ born' = born
    BY <1>1 DEF Accepted
  <2>3. RowTypes'
    BY <2>1, <2>2, CountKeepsTheAudit DEF RowTypes, Statuses
  <2>4. AttemptsAreRecorded'
    <3>1. \A x \in Deliveries : history'[x] = 1 .. attempts'[x]
      BY <2>1, CountKeepsTheAudit
    <3>2. attempts'[d] > 0 /\ \A x \in Deliveries : x # d => attempts'[x] = attempts[x]
      BY <1>0, <2>1, CountKeepsTheAudit
    <3>3. \A x \in Deliveries : x # d => status'[x] = status[x]
      BY <2>2 DEF RowTypes
    <3> QED
      BY <3>1, <3>2, <3>3 DEF AttemptsAreRecorded
  <2>5. DuplicatesHaveACause'
    BY <2>1, <2>2 DEF RowTypes, DuplicatesHaveACause, Deliverable
  <2>6. RetriesHaveAttemptsLeft'
    BY <2>1, <2>2, CountKeepsTheAudit DEF RowTypes, RetriesHaveAttemptsLeft
  <2> QED
    BY <2>3, <2>4, <2>5, <2>6
<1>2. ASSUME NEW lost \in BOOLEAN, Refused(d, lost) PROVE RowInv'
  <2>1. Deliverable(d) /\ Count(d)
    BY <1>2 DEF Refused
  <2> DEFINE more == attempts[d] + 1 < MaxAttempts
  <2>2. /\ status' = [status EXCEPT ![d] = IF more THEN "retrying" ELSE "failed"]
        /\ received' = [received EXCEPT ![d] = IF lost THEN received[d] + 1 ELSE received[d]]
        /\ doubts' = [doubts EXCEPT ![d] = IF lost THEN doubts[d] + 1 ELSE doubts[d]]
        /\ waiting' = IF more THEN waiting \cup {d} ELSE waiting \ {d}
        /\ born' = born
    BY <1>2 DEF Refused
  <2>3. RowTypes'
    <3>1. status' \in [Deliveries -> Statuses]
      BY <2>2 DEF RowTypes, Statuses
    <3>2. waiting' \subseteq Deliveries
      BY <2>2 DEF RowTypes
    <3>3. received' \in [Deliveries -> Nat] /\ doubts' \in [Deliveries -> Nat]
      BY <2>2 DEF RowTypes
    <3> QED
      BY <2>1, <2>2, <3>1, <3>2, <3>3, CountKeepsTheAudit DEF RowTypes
  <2>4. AttemptsAreRecorded'
    <3>1. \A x \in Deliveries : history'[x] = 1 .. attempts'[x]
      BY <2>1, CountKeepsTheAudit
    <3>2. attempts'[d] > 0 /\ \A x \in Deliveries : x # d => attempts'[x] = attempts[x]
      BY <1>0, <2>1, CountKeepsTheAudit
    <3>3. \A x \in Deliveries : x # d => status'[x] = status[x]
      BY <2>2 DEF RowTypes
    <3> QED
      BY <3>1, <3>2, <3>3 DEF AttemptsAreRecorded
  <2>5. DuplicatesHaveACause'
    BY <2>1, <2>2 DEF RowTypes, DuplicatesHaveACause, Deliverable
  <2>6. RetriesHaveAttemptsLeft'
    BY <2>1, <2>2, CountKeepsTheAudit DEF RowTypes, RetriesHaveAttemptsLeft
  <2> QED
    BY <2>3, <2>4, <2>5, <2>6
<1>3. CASE BadUrl(d)
  <2>1. Deliverable(d) /\ Count(d)
    BY <1>3 DEF BadUrl
  <2>2. /\ status' = [status EXCEPT ![d] = "failed"]
        /\ waiting' = waiting \ {d}
        /\ received' = received /\ doubts' = doubts /\ born' = born
    BY <1>3 DEF BadUrl
  <2>3. RowTypes'
    BY <2>1, <2>2, CountKeepsTheAudit DEF RowTypes, Statuses
  <2>4. AttemptsAreRecorded'
    <3>1. \A x \in Deliveries : history'[x] = 1 .. attempts'[x]
      BY <2>1, CountKeepsTheAudit
    <3>2. attempts'[d] > 0 /\ \A x \in Deliveries : x # d => attempts'[x] = attempts[x]
      BY <1>0, <2>1, CountKeepsTheAudit
    <3>3. \A x \in Deliveries : x # d => status'[x] = status[x]
      BY <2>2 DEF RowTypes
    <3> QED
      BY <3>1, <3>2, <3>3 DEF AttemptsAreRecorded
  <2>5. DuplicatesHaveACause'
    BY <2>1, <2>2 DEF RowTypes, DuplicatesHaveACause, Deliverable
  <2>6. RetriesHaveAttemptsLeft'
    BY <2>1, <2>2, CountKeepsTheAudit DEF RowTypes, RetriesHaveAttemptsLeft
  <2> QED
    BY <2>3, <2>4, <2>5, <2>6
<1>4. CASE GiveUp(d)
  <2>1. RowTypes'
    BY <1>4 DEF GiveUp, RowTypes, Statuses
  <2>2. AttemptsAreRecorded'
    BY <1>0, <1>4 DEF GiveUp, RowTypes, AttemptsAreRecorded
  <2>3. DuplicatesHaveACause'
    BY <1>4 DEF GiveUp, RowTypes, DuplicatesHaveACause
  <2>4. RetriesHaveAttemptsLeft'
    BY <1>4 DEF GiveUp, RowTypes, RetriesHaveAttemptsLeft
  <2> QED
    BY <2>1, <2>2, <2>3, <2>4
<1>5. CASE AlreadyDelivered(d)
  BY <1>5 DEF AlreadyDelivered, rowVars, RowTypes, AttemptsAreRecorded,
              DuplicatesHaveACause, RetriesHaveAttemptsLeft
<1> QED
  BY <1>1, <1>2, <1>3, <1>4, <1>5 DEF Deliver

(* So does the row an event makes: it is a new one.                        *)
LEMMA QueueKeepsRows ==
    ASSUME RowInv, NEW v, NEW to \in SUBSET Endpoints, Queue(v, to)
    PROVE  RowInv'
<1> USE DEF RowInv
<1>1. \A d \in Deliveries :
         status'[d] = status[d] \/ (status[d] = "none" /\ status'[d] = "pending")
  BY DEF Queue, Made
<1>2. status' \in [Deliveries -> Statuses]
  BY DEF Queue, RowTypes, Statuses
<1>3. born' \in [Deliveries -> Nat]
  <2>1. PICK place \in [to -> 1 .. Cardinality(Deliveries)] :
           born' = [d \in Deliveries |->
                      IF d[1] = v /\ d[2] \in to THEN place[d[2]] ELSE born[d]]
    BY DEF Queue
  <2>2. 1 .. Cardinality(Deliveries) \subseteq Nat
    BY SMT
  <2>3. \A d \in Deliveries : d[2] \in to => place[d[2]] \in Nat
    BY <2>2
  <2> QED
    BY <2>1, <2>3 DEF RowTypes
<1>4. UNCHANGED <<attempts, waiting, history, received, doubts>>
  BY DEF Queue
<1>5. RowTypes'
  BY <1>2, <1>3, <1>4 DEF RowTypes
<1>6. AttemptsAreRecorded'
  BY <1>1, <1>4 DEF AttemptsAreRecorded
<1>7. DuplicatesHaveACause'
  BY <1>1, <1>4 DEF DuplicatesHaveACause
<1>8. RetriesHaveAttemptsLeft'
  BY <1>1, <1>4 DEF RowTypes, RetriesHaveAttemptsLeft
<1> QED
  BY <1>5, <1>6, <1>7, <1>8

(* The invariant holds at first ...                                        *)
LEMMA HooksInit == Init => HooksInv
<1> SUFFICES ASSUME Init PROVE HooksInv
  OBVIOUS
<1>1. RowTypes /\ DeskTypes
  BY HooksAssumption DEF Init, RowTypes, Statuses, DeskTypes
<1>2. AttemptsAreRecorded
  <2>1. 1 .. 0 = {}
    BY SMT
  <2> QED
    BY <2>1 DEF Init, AttemptsAreRecorded
<1>3. DuplicatesHaveACause /\ RetriesHaveAttemptsLeft
  BY DEF Init, DuplicatesHaveACause, RetriesHaveAttemptsLeft
<1> QED
  BY <1>1, <1>2, <1>3 DEF HooksInv, RowInv

(* ... and every step keeps it.                                            *)
LEMMA HooksStep == HooksInv /\ [Next]_hookVars => HooksInv'
<1> SUFFICES ASSUME HooksInv, [Next]_hookVars PROVE HooksInv'
  OBVIOUS
<1> USE DEF HooksInv
<1>0. ASSUME UNCHANGED <<rowVars, received, doubts>> PROVE RowInv'
  BY <1>0 DEF RowInv, rowVars, RowTypes, AttemptsAreRecorded,
              DuplicatesHaveACause, RetriesHaveAttemptsLeft
<1>1. ASSUME NEW e \in Endpoints, Create(e) \/ Toggle(e) PROVE HooksInv'
  <2>1. DeskTypes'
    BY <1>1 DEF Create, Toggle, DeskTypes
  <2> QED
    BY <1>0, <1>1, <2>1 DEF Create, Toggle
<1>2. ASSUME NEW v, NEW to \in SUBSET Endpoints, Queue(v, to) PROVE HooksInv'
  <2>1. DeskTypes'
    BY <1>2 DEF Queue, DeskTypes
  <2> QED
    BY <1>2, <2>1, QueueKeepsRows
<1>3. ASSUME NEW v \in Events, Emit(v) PROVE HooksInv'
  <2>1. Subscribers(v) \in SUBSET Endpoints
    BY DEF Subscribers, Active
  <2> QED
    BY <1>2, <1>3, <2>1 DEF Emit
<1>4. ASSUME NEW v \in Tests, NEW e \in Endpoints, Ping(v, e) PROVE HooksInv'
  <2>1. Subscribers(v) \cup {e} \in SUBSET Endpoints
    BY DEF Subscribers, Active
  <2> QED
    BY <1>2, <1>4, <2>1 DEF Ping
<1>5. ASSUME NEW w \in Workers, ReadBatch(w) PROVE HooksInv'
  <2>1. DeskTypes'
    BY <1>5 DEF ReadBatch, DeskTypes, Open
  <2> QED
    BY <1>0, <1>5, <2>1 DEF ReadBatch
<1>6. ASSUME NEW w \in Workers, NEW d \in Deliveries, WorkerDelivers(w, d) PROVE HooksInv'
  <2>1. DeskTypes'
    BY <1>6 DEF WorkerDelivers, Handled, DeskTypes
  <2> QED
    BY <1>6, <2>1, DeliverKeepsRows DEF WorkerDelivers
<1>7. ASSUME NEW w \in Workers, NEW d \in Deliveries, WorkerSkips(w, d) PROVE HooksInv'
  <2>1. DeskTypes'
    BY <1>7 DEF WorkerSkips, Handled, DeskTypes
  <2> QED
    BY <1>0, <1>7, <2>1 DEF WorkerSkips
<1>8. ASSUME NEW w \in Workers, NEW d \in Deliveries, WorkerDies(w, d) PROVE HooksInv'
  <2>1. DeskTypes'
    BY <1>8, HooksAssumption DEF WorkerDies, DeskTypes
  <2>2. RowTypes'
    BY <1>8 DEF WorkerDies, RowInv, RowTypes, rowVars
  <2>3. DuplicatesHaveACause'
    BY <1>8 DEF WorkerDies, RowInv, RowTypes, rowVars, DuplicatesHaveACause, Deliverable
  <2>4. AttemptsAreRecorded' /\ RetriesHaveAttemptsLeft'
    BY <1>8 DEF WorkerDies, RowInv, rowVars, AttemptsAreRecorded, RetriesHaveAttemptsLeft
  <2> QED
    BY <2>1, <2>2, <2>3, <2>4 DEF RowInv
<1>9. ASSUME NEW d \in Deliveries, RetryTimeComes(d) PROVE HooksInv'
  <2>1. DeskTypes'
    BY <1>9 DEF RetryTimeComes, DeskTypes
  <2>2. RowTypes' /\ RetriesHaveAttemptsLeft'
    BY <1>9 DEF RetryTimeComes, RowInv, RowTypes, RetriesHaveAttemptsLeft
  <2>3. AttemptsAreRecorded' /\ DuplicatesHaveACause'
    BY <1>9 DEF RetryTimeComes, RowInv, AttemptsAreRecorded, DuplicatesHaveACause
  <2> QED
    BY <2>1, <2>2, <2>3 DEF RowInv
<1>10. ASSUME NEW s \in Staff, NEW rows \in SUBSET Deliveries, Select(s, rows)
       PROVE HooksInv'
  <2>1. DeskTypes'
    BY <1>10, HooksAssumption DEF Select, DeskTypes
  <2> QED
    BY <1>0, <1>10, <2>1 DEF Select
<1>11. ASSUME NEW s \in Staff, NEW d \in Deliveries, SetPending(s, d) PROVE HooksInv'
  <2>1. DeskTypes'
    BY <1>11 DEF SetPending, DeskTypes
  <2>2. RowTypes'
    BY <1>11 DEF SetPending, RowInv, RowTypes, Statuses
  <2>3. DuplicatesHaveACause'
    BY <1>11 DEF SetPending, RowInv, RowTypes, DuplicatesHaveACause
  <2>4. AttemptsAreRecorded' /\ RetriesHaveAttemptsLeft'
    BY <1>11 DEF SetPending, RowInv, RowTypes, AttemptsAreRecorded, RetriesHaveAttemptsLeft
  <2> QED
    BY <2>1, <2>2, <2>3, <2>4 DEF RowInv
<1>12. ASSUME NEW s \in Staff, NEW d \in Deliveries, StaffDelivers(s, d) PROVE HooksInv'
  <2>1. DeskTypes'
    BY <1>12 DEF StaffDelivers, DeskTypes
  <2> QED
    BY <1>12, <2>1, DeliverKeepsRows DEF StaffDelivers
<1>13. ASSUME NEW w \in Workers, NEW d \in Deliveries, WorkerRaises(w, d) PROVE HooksInv'
  <2>1. DeskTypes'
    BY <1>13 DEF WorkerRaises, DeskTypes
  <2> QED
    BY <1>0, <1>13, <2>1 DEF WorkerRaises
<1>14. ASSUME NEW s \in Staff, NEW d \in Deliveries, StaffRaises(s, d) PROVE HooksInv'
  <2>1. DeskTypes'
    BY <1>14 DEF StaffRaises, DeskTypes
  <2> QED
    BY <1>0, <1>14, <2>1 DEF StaffRaises
<1>15. CASE UNCHANGED hookVars
  <2>1. DeskTypes'
    BY <1>15 DEF hookVars, DeskTypes
  <2> QED
    BY <1>0, <1>15, <2>1 DEF hookVars
<1> QED
  BY <1>1, <1>3, <1>4, <1>5, <1>6, <1>7, <1>8, <1>9, <1>10, <1>11, <1>12, <1>13,
     <1>14, <1>15 DEF Next, Worker

(* The rows, the audit and what the merchant received agree for ever.      *)
THEOREM HooksInvariant == Spec => []HooksInv
BY HooksInit, HooksStep, PTL DEF Spec

(* The rows, batches and selections keep their types.                      *)
THEOREM HooksTypeCorrect == Spec => []HooksTypeOK
<1>1. HooksInv => HooksTypeOK
  BY DEF HooksInv, RowInv, RowTypes, DeskTypes, HooksTypeOK, Statuses
<1> QED
  BY <1>1, HooksInvariant, PTL

(* deliver() numbers its attempts without gap or repeat, up to the limit.  *)
THEOREM TheAuditIsWhole == Spec => []AttemptsAreRecorded
<1>1. HooksInv => AttemptsAreRecorded
  BY DEF HooksInv, RowInv
<1> QED
  BY <1>1, HooksInvariant, PTL

(* The row lock and the check behind it keep workers from posting twice.   *)
THEOREM WorkersDoNotDuplicate == Spec => []DuplicatesHaveACause
<1>1. HooksInv => DuplicatesHaveACause
  BY DEF HooksInv, RowInv
<1> QED
  BY <1>1, HooksInvariant, PTL

(* Of a row to be retried an attempt is left, and no other row waits.        *)
THEOREM RetriesCanBeMade == Spec => []RetriesHaveAttemptsLeft
<1>1. HooksInv => RetriesHaveAttemptsLeft
  BY DEF HooksInv, RowInv
<1> QED
  BY <1>1, HooksInvariant, PTL
=============================================================================
