----------------------------- MODULE RailProofs -----------------------------
(***************************************************************************)
(* What AmatoPay books and tells agrees with what the rail did, for any    *)
(* payments, reconcilers, amounts and lives of an order on the rail.       *)
(***************************************************************************)
EXTENDS EscrowProofs, Reports

USE DEF codeVars, sessionVars, collVars, fundVars, deliveryVars, payoutVars,
        railVars

Final == Failures \cup {"COMPLETED"}

(* A final answer a reconciler holds is the rail's last word, and so is    *)
(* the final status of a callback.                                         *)
AnswerIsTrue(q) == q.result \in Final => RailAnswer(q) = q.result

CallbacksAreTrue(p) ==
  /\ \A s \in collEvents[p] : s \in Final => railColl[p] = s
  /\ \A e \in p2pEvents[p] : e[2] \in Final => railP2P[p] = e[2]
  /\ p2p[p] = None => p2pEvents[p] = {}

RailIsHeard ==
  /\ \A q \in polls : AnswerIsTrue(q)
  /\ \A p \in Payments : CallbacksAreTrue(p)

-----------------------------------------------------------------------------
LEMMA FinalIsFinal == \A s \in Final : LaterStatus(s) = {}
BY DEF Final, Failures, LaterStatus, Polled

(* A step that leaves the rail alone and holds no new final answer.        *)
LEMMA NothingHeard ==
  ASSUME RailIsHeard, polls' \subseteq polls,
         UNCHANGED <<railColl, railP2P, collEvents, p2pEvents, p2p>>
  PROVE  RailIsHeard'
BY DEF RailIsHeard, AnswerIsTrue, CallbacksAreTrue, RailAnswer

LEMMA SubmitHeard ==
  ASSUME EscrowInv, RailIsHeard, NEW p \in Payments, NEW s \in SyncStatus,
         SubmitCollection(p, s)
  PROVE  RailIsHeard'
<1>1. TypeOK /\ RowsOf(p) /\ coll[p] = None
  BY DEF EscrowInv, EscrowState, SubmitCollection, Submittable
<1>2. collEvents[p] = {}
  BY <1>1 DEF RowsOf, Collected
<1>3. \A q \in polls : q.rail = "collection" => q.payment # p
  BY <1>1 DEF EscrowInv, PollsHaveRequests
<1>4. /\ UNCHANGED <<polls, railP2P, collEvents, p2pEvents, p2p>>
      /\ \A o \in Payments \ {p} : railColl'[o] = railColl[o]
  BY <1>1 DEF TypeOK, SubmitCollection
<1>5. \A q \in polls : AnswerIsTrue(q)'
  BY <1>1, <1>3, <1>4, PollTypes DEF RailIsHeard, AnswerIsTrue, RailAnswer
<1>6. \A o \in Payments : CallbacksAreTrue(o)'
  BY <1>2, <1>4 DEF RailIsHeard, CallbacksAreTrue
<1> QED
  BY <1>4, <1>5, <1>6 DEF RailIsHeard

LEMMA OrderHeard ==
  ASSUME EscrowInv, RailIsHeard, NEW p \in Payments, NEW s \in SyncStatus,
         OrderPayout(p, s), UNCHANGED collEvents,
         \/ UNCHANGED p2pEvents
         \/ /\ s = "COMPLETED"
            /\ p2pEvents' = [p2pEvents EXCEPT ![p] = @ \cup {<<"sync", s>>}]
  PROVE  RailIsHeard'
<1> USE RecordsAssumption
<1>1. TypeOK /\ p2p[p] = None /\ p2pEvents[p] = {}
  BY DEF EscrowInv, OrderPayout, Payable, RailIsHeard, CallbacksAreTrue
<1>2. \A q \in polls : q.rail # "collection" => q.payment # p
  BY <1>1 DEF EscrowInv, PollsHaveRequests
<1>3. /\ UNCHANGED <<polls, railColl>>
      /\ railP2P'[p] = s /\ p2p'[p] = s
      /\ \A o \in Payments \ {p} : /\ railP2P'[o] = railP2P[o]
                                   /\ p2p'[o] = p2p[o]
                                   /\ p2pEvents'[o] = p2pEvents[o]
  BY <1>1 DEF TypeOK, OrderPayout
<1>4. p2pEvents'[p] = {} \/ (p2pEvents'[p] = {<<"sync", s>>} /\ s = "COMPLETED")
  BY <1>1 DEF TypeOK
<1>5. \A q \in polls : AnswerIsTrue(q)'
  BY <1>1, <1>2, <1>3, PollTypes DEF RailIsHeard, AnswerIsTrue, RailAnswer
<1>6. CallbacksAreTrue(p)'
  <2>1. s # None
    BY NoneApart
  <2> QED
    BY <1>3, <1>4, <2>1 DEF RailIsHeard, CallbacksAreTrue
<1>7. \A o \in Payments \ {p} : CallbacksAreTrue(o)'
  BY <1>3 DEF RailIsHeard, CallbacksAreTrue
<1> QED
  BY <1>3, <1>5, <1>6, <1>7 DEF RailIsHeard

LEMMA AskHeard ==
  ASSUME EscrowInv, RailIsHeard, NEW q \in polls, Ask(q)
  PROVE  RailIsHeard'
<1> DEFINE answered == [q EXCEPT !.result = RailAnswer(q)]
<1>1. /\ UNCHANGED <<railColl, railP2P, collEvents, p2pEvents, p2p>>
      /\ \A o \in polls' : o \in polls \/ o = answered
  BY DEF Ask
<1>2. /\ answered.payment = q.payment /\ answered.rail = q.rail
      /\ answered.result = RailAnswer(q)
  BY PollTypes DEF EscrowInv, Poll
<1>3. \A o \in polls' : AnswerIsTrue(o)'
  BY <1>1, <1>2 DEF RailIsHeard, AnswerIsTrue, RailAnswer
<1> QED
  BY <1>1, <1>3 DEF RailIsHeard, CallbacksAreTrue

LEMMA AppliedHeard ==
  ASSUME EscrowInv, RailIsHeard, NEW q \in polls, polls' \subseteq polls,
         UNCHANGED <<railColl, railP2P>>,
         \/ /\ q.rail = "collection" /\ Record(q)
            /\ UNCHANGED <<p2pEvents, p2p>>
         \/ /\ q.rail = "p2p" /\ q.result # None /\ RecordPayout(q)
            /\ UNCHANGED collEvents
  PROVE  RailIsHeard'
<1> DEFINE p == q.payment
<1>1. TypeOK /\ p \in Payments
  BY PollTypes DEF EscrowInv
<1>2. /\ \A o \in Payments \ {p} : /\ collEvents'[o] = collEvents[o]
                                   /\ p2pEvents'[o] = p2pEvents[o]
                                   /\ p2p'[o] = p2p[o]
  BY <1>1 DEF TypeOK, Record, RecordPayout
<1>3. CallbacksAreTrue(p)'
  <2>1. AnswerIsTrue(q) /\ CallbacksAreTrue(p)
    BY <1>1 DEF RailIsHeard
  <2>2. CASE q.rail = "collection" /\ Record(q) /\ UNCHANGED <<p2pEvents, p2p>>
    <3>1. collEvents'[p] = collEvents[p] \cup {q.result}
      BY <1>1, <2>2 DEF TypeOK, Record
    <3> QED
      BY <2>1, <2>2, <3>1 DEF AnswerIsTrue, RailAnswer, CallbacksAreTrue
  <2>3. CASE /\ q.rail = "p2p" /\ q.result # None /\ RecordPayout(q)
             /\ UNCHANGED collEvents
    <3>1. /\ p2pEvents'[p] = p2pEvents[p] \cup {<<"poll", q.result>>}
          /\ p2p'[p] = q.result
      BY <1>1, <2>3 DEF TypeOK, RecordPayout
    <3>2. RailAnswer(q) = railP2P[p]
      BY <2>3 DEF RailAnswer
    <3> QED
      BY <2>1, <2>3, <3>1, <3>2 DEF AnswerIsTrue, CallbacksAreTrue
  <2> QED
    BY <2>2, <2>3
<1>4. \A o \in Payments \ {p} : CallbacksAreTrue(o)'
  BY <1>2 DEF RailIsHeard, CallbacksAreTrue
<1>5. \A o \in polls' : AnswerIsTrue(o)'
  BY DEF RailIsHeard, AnswerIsTrue, RailAnswer
<1> QED
  BY <1>3, <1>4, <1>5 DEF RailIsHeard

LEMMA RailHeard ==
  ASSUME EscrowInv, RailIsHeard, NEW p \in Payments,
         RailAdvancesCollection(p) \/ RailAdvancesPayout(p)
  PROVE  RailIsHeard'
<1>1. /\ UNCHANGED <<polls, collEvents, p2pEvents, p2p>>
      /\ \A o \in Payments :
           /\ railColl[o] \in Final => railColl'[o] = railColl[o]
           /\ railP2P[o] \in Final => railP2P'[o] = railP2P[o]
  BY FinalIsFinal DEF EscrowInv, TypeOK, RailAdvancesCollection, RailAdvancesPayout
<1>2. \A q \in polls : q.payment \in Payments
  BY PollTypes DEF EscrowInv
<1>3. \A q \in polls : AnswerIsTrue(q)'
  BY <1>1, <1>2 DEF RailIsHeard, AnswerIsTrue, RailAnswer
<1>4. \A o \in Payments : CallbacksAreTrue(o)'
  BY <1>1 DEF RailIsHeard, CallbacksAreTrue
<1> QED
  BY <1>1, <1>3, <1>4 DEF RailIsHeard

LEMMA RailIsHeardStep ==
  ASSUME EscrowInv, RailIsHeard, Next
  PROVE  RailIsHeard'
<1> USE RecordsAssumption
<1>1. ASSUME NEW p \in Payments, NEW s \in SyncStatus, SubmitCollection(p, s)
      PROVE  RailIsHeard'
  BY <1>1, SubmitHeard
<1>2. ASSUME NEW p \in Payments, NEW s \in SyncStatus, StartPayout(p, s)
      PROVE  RailIsHeard'
  BY <1>2, OrderHeard DEF StartPayout, OrderPayout
<1>3. ASSUME NEW p \in Payments, StartAndSettle(p) PROVE RailIsHeard'
  BY <1>3, OrderHeard DEF StartAndSettle, OrderPayout
<1>4. ASSUME NEW r \in Reconcilers, NEW batch \in SUBSET Payments,
             ReadCollections(r, batch) \/ ReadPayouts(r, batch)
      PROVE  RailIsHeard'
  <2>1. /\ UNCHANGED <<railColl, railP2P, collEvents, p2pEvents, p2p>>
        /\ \A q \in polls' : q \in polls \/ q.result = None
    BY <1>4 DEF ReadCollections, ReadPayouts
  <2>2. None \notin Final
    BY NoneApart DEF Final, AnyStatus
  <2> QED
    BY <2>1, <2>2 DEF RailIsHeard, AnswerIsTrue, CallbacksAreTrue, RailAnswer
<1>5. ASSUME NEW q \in polls, Ask(q) PROVE RailIsHeard'
  BY <1>5, AskHeard
<1>6. ASSUME NEW q \in polls,
             \/ ApplyOpenCollection(q) \/ FailCollection(q)
             \/ CompleteAndHold(q) \/ CompleteAndRelease(q)
      PROVE  RailIsHeard'
  BY <1>6, AppliedHeard DEF ApplyOpenCollection, FailCollection,
     CompleteAndHold, CompleteAndRelease, Complete, Applying
<1>7. ASSUME NEW q \in polls,
             ApplyOpenPayout(q) \/ CompletePayout(q) \/ FailPayout(q)
      PROVE  RailIsHeard'
  BY <1>7, AppliedHeard DEF ApplyOpenPayout, CompletePayout, FailPayout,
     ApplyingPayout
<1>8. ASSUME NEW p \in Payments,
             RailAdvancesCollection(p) \/ RailAdvancesPayout(p)
      PROVE  RailIsHeard'
  BY <1>8, RailHeard
<1>9. CASE /\ polls' \subseteq polls
           /\ UNCHANGED <<railColl, railP2P, collEvents, p2pEvents, p2p>>
  BY <1>9, NothingHeard
<1> QED
  BY <1>1, <1>2, <1>3, <1>4, <1>5, <1>6, <1>7, <1>8, <1>9, Steps, ZenonT(60)
     DEF LoseCollection, ViewExpired, ExpireSession, ConfirmWithCode,
         WrongCode, OpenClaim, RetryInstant, LosePayout, DropPoll,
         SkipCollection, SkipPayout, Applying, ApplyingPayout

-----------------------------------------------------------------------------
(* How a payout ended: the hold and the settlement say what its callbacks   *)
(* say.                                                                    *)
Outcome(p) ==
  /\ hold[p] = "released" <=> \E e \in p2pEvents[p] : e[2] = "COMPLETED"
  /\ settlement[p] = "completed" <=> hold[p] = "released"
  /\ settlement[p] = "failed" <=> \E e \in p2pEvents[p] : e[2] \in Failures
  /\ status[p] = "settled" => hold[p] = "released"
  /\ \A e \in p2pEvents[p] : e[1] = "sync" => p2p[p] = "COMPLETED"

(* A payout that completed in its first answer is polled by nobody.        *)
NotSettledAtOnce(q) ==
  q.rail = "p2p" => \A e \in p2pEvents[q.payment] : e[1] # "sync"

(* EventsTellTheTruth with payment.failed tied to the callbacks.           *)
Told(p) ==
  /\ emitted[p]["payment.paid"] = IF hold[p] = None THEN 0 ELSE 1
  /\ emitted[p]["payment.failed"] =
       IF \E s \in collEvents[p] : s \in Failures THEN 1 ELSE 0
  /\ emitted[p]["delivery.confirmed"] = IF confirmed[p] THEN 1 ELSE 0
  /\ emitted[p]["payment.disputed"] = claims[p]
  /\ emitted[p]["settlement.completed"] = IF hold[p] = "released" THEN 1 ELSE 0
  /\ emitted[p]["settlement.failed"] = IF settlement[p] = "failed" THEN 1 ELSE 0

OutcomesAreTold ==
  /\ \A p \in Payments : Outcome(p) /\ Told(p)
  /\ \A q \in polls : NotSettledAtOnce(q)

RailInv == EscrowInv /\ RailIsHeard /\ OutcomesAreTold

-----------------------------------------------------------------------------
LEMMA EmitCounts ==
  ASSUME TypeOK, NEW p \in Payments, NEW types, Emit(p, types)
  PROVE  /\ \A t \in EventType : emitted'[p][t] =
              emitted[p][t] + (IF t \in types THEN 1 ELSE 0)
         /\ \A o \in Payments \ {p} : emitted'[o] = emitted[o]
         /\ \A t \in EventType : emitted[p][t] \in Nat
BY DEF TypeOK, Emit

(* It is enough to look at the payment a step is about.                    *)
OthersUntold(p) ==
  \A o \in Payments \ {p} :
    /\ hold'[o] = hold[o] /\ settlement'[o] = settlement[o]
    /\ status'[o] = status[o] /\ p2p'[o] = p2p[o]
    /\ p2pEvents'[o] = p2pEvents[o] /\ collEvents'[o] = collEvents[o]
    /\ confirmed'[o] = confirmed[o] /\ claims'[o] = claims[o]
    /\ emitted'[o] = emitted[o]

LEMMA OneOutcome ==
  ASSUME \A o \in Payments : Outcome(o) /\ Told(o),
         NEW p \in Payments, OthersUntold(p), Outcome(p)', Told(p)'
  PROVE  \A o \in Payments : Outcome(o)' /\ Told(o)'
<1>1. ASSUME NEW o \in Payments \ {p} PROVE Outcome(o)' /\ Told(o)'
  BY <1>1 DEF OthersUntold, Outcome, Told
<1> QED
  BY <1>1

(* Before a payout ends nothing is told of its end.                        *)
LEMMA NotPaidOut ==
  ASSUME RailInv, NEW p \in Payments,
         settlement[p] \in {None, "pending", "processing"}
  PROVE  /\ hold[p] # "released" /\ status[p] # "settled"
         /\ \A e \in p2pEvents[p] : e[2] \notin Final
         /\ emitted[p]["settlement.completed"] = 0
         /\ emitted[p]["settlement.failed"] = 0
BY NoneApart DEF RailInv, OutcomesAreTold, Outcome, Told, Final

(* Confirming a payment whose funds are held and undecided.                *)
LEMMA ReleaseTold ==
  ASSUME RailInv, NEW p \in Payments, status[p] = "delivery_pending",
         Release(p), Emit(p, ReleaseEvents(p)),
         UNCHANGED <<collVars, claims, p2p, p2pEvents>>
  PROVE  \A o \in Payments : Outcome(o)' /\ Told(o)'
<1>1. /\ TypeOK /\ hold[p] = "delivery_pending" /\ RowsOf(p)
      /\ Outcome(p) /\ Told(p)
  BY DEF RailInv, EscrowInv, EscrowState, RowsOf, Collected, OutcomesAreTold
<1>2. settlement[p] = None /\ decision[p] = None /\ ~confirmed[p]
  BY <1>1, NoneApart DEF RowsOf, Decided, Approved
<1>3. /\ hold'[p] = "release_pending" /\ settlement'[p] = "pending"
      /\ confirmed'[p] = TRUE /\ status'[p] = "release_pending"
  BY <1>1, <1>2 DEF TypeOK, Release
<1>4. Outcome(p)'
  BY <1>1, <1>2, <1>3, NotPaidOut DEF Outcome, Final
<1>5. Told(p)'
  <2>1. /\ emitted'[p]["delivery.confirmed"] = 1
        /\ \A t \in EventType \ {"delivery.confirmed"} :
             emitted'[p][t] = emitted[p][t]
    BY <1>1, <1>2, EmitCounts DEF Told, ReleaseEvents, EventType
  <2> QED
    BY <1>1, <1>2, <1>3, <2>1, NoneApart DEF Told, EventType
<1>6. OthersUntold(p)
  BY <1>1, EmitCounts DEF TypeOK, Release, OthersUntold
<1> QED
  BY <1>4, <1>5, <1>6, OneOutcome DEF RailInv, OutcomesAreTold

LEMMA ClaimTold ==
  ASSUME RailInv, NEW p \in Payments, OpenClaim(p)
  PROVE  \A o \in Payments : Outcome(o)' /\ Told(o)'
<1>1. /\ TypeOK /\ hold[p] = "delivery_pending" /\ RowsOf(p)
      /\ Outcome(p) /\ Told(p)
  BY DEF RailInv, EscrowInv, EscrowState, RowsOf, Collected, OutcomesAreTold,
     OpenClaim, CodeUsable
<1>2. settlement[p] = None /\ claims[p] \in Nat
  BY <1>1, NoneApart DEF RowsOf, Decided, Approved
<1>3. /\ hold'[p] = "disputed" /\ status'[p] = "disputed"
      /\ claims'[p] = claims[p] + 1
      /\ UNCHANGED <<confirmed, settlement, collEvents, p2p, p2pEvents>>
  BY <1>1 DEF TypeOK, OpenClaim
<1>4. Outcome(p)'
  BY <1>1, <1>2, <1>3, NotPaidOut DEF Outcome, Final
<1>5. Told(p)'
  <2>1. /\ emitted'[p]["payment.disputed"] = emitted[p]["payment.disputed"] + 1
        /\ \A t \in EventType \ {"payment.disputed"} :
             emitted'[p][t] = emitted[p][t]
    BY <1>1, EmitCounts DEF OpenClaim, EventType
  <2> QED
    BY <1>1, <1>3, <2>1, NoneApart DEF Told, EventType
<1>6. OthersUntold(p)
  BY <1>1, <1>3, EmitCounts DEF TypeOK, OpenClaim, OthersUntold
<1> QED
  BY <1>4, <1>5, <1>6, OneOutcome DEF RailInv, OutcomesAreTold

-----------------------------------------------------------------------------
(* COMPLETED is told of once, and of no collection that failed.            *)
LEMMA CompleteTold ==
  ASSUME RailInv, NEW q \in polls, CompleteAndHold(q) \/ CompleteAndRelease(q)
  PROVE  \A o \in Payments : Outcome(o)' /\ Told(o)'
<1> DEFINE p == q.payment
<1>1. /\ p \in Payments /\ TypeOK /\ RowsOf(p) /\ hold[p] = None
      /\ Outcome(p) /\ Told(p)
  BY CompleteFacts DEF RailInv, OutcomesAreTold, CompleteAndHold,
     CompleteAndRelease
<1>2. settlement[p] = None /\ decision[p] = None /\ ~confirmed[p]
  BY <1>1, NoneApart DEF RowsOf, Decided, Approved
<1>3. /\ collEvents' = [collEvents EXCEPT ![p] = @ \cup {"COMPLETED"}]
      /\ UNCHANGED <<claims, p2p, p2pEvents>>
  BY DEF CompleteAndHold, CompleteAndRelease, Complete, Record
<1>4. (\E s \in collEvents'[p] : s \in Failures)
        <=> (\E s \in collEvents[p] : s \in Failures)
  BY <1>1, <1>3 DEF TypeOK, Failures
<1>5. CASE CompleteAndHold(q)
  <2>1. /\ hold'[p] = "delivery_pending" /\ status'[p] = "delivery_pending"
        /\ UNCHANGED <<confirmed, settlement>>
    BY <1>1, <1>5 DEF TypeOK, CompleteAndHold, Hold
  <2>2. Outcome(p)'
    BY <1>1, <1>2, <1>3, <2>1, NotPaidOut DEF Outcome, Final
  <2>3. Told(p)'
    <3>1. /\ emitted'[p]["payment.paid"] = emitted[p]["payment.paid"] + 1
          /\ \A t \in EventType \ {"payment.paid"} :
               emitted'[p][t] = emitted[p][t]
      BY <1>1, <1>5, EmitCounts DEF CompleteAndHold, EventType
    <3> QED
      BY <1>1, <1>3, <1>4, <2>1, <3>1, NoneApart DEF Told, EventType
  <2>4. OthersUntold(p)
    BY <1>1, <1>3, <1>5, <2>1, EmitCounts
       DEF TypeOK, CompleteAndHold, Hold, OthersUntold
  <2> QED
    BY <1>1, <2>2, <2>3, <2>4, OneOutcome DEF RailInv, OutcomesAreTold
<1>6. CASE CompleteAndRelease(q)
  <2>1. /\ hold'[p] = "release_pending" /\ status'[p] = "release_pending"
        /\ settlement'[p] = "pending" /\ confirmed'[p] = TRUE
    BY <1>1, <1>2, <1>6 DEF TypeOK, CompleteAndRelease, Release
  <2>2. Outcome(p)'
    BY <1>1, <1>2, <1>3, <2>1, NotPaidOut DEF Outcome, Final
  <2>3. Told(p)'
    <3>1. /\ emitted'[p]["payment.paid"] = emitted[p]["payment.paid"] + 1
          /\ emitted'[p]["delivery.confirmed"] =
               emitted[p]["delivery.confirmed"] + 1
          /\ \A t \in EventType \ {"payment.paid", "delivery.confirmed"} :
               emitted'[p][t] = emitted[p][t]
      BY <1>1, <1>2, <1>6, EmitCounts
         DEF CompleteAndRelease, ReleaseEvents, EventType
    <3> QED
      BY <1>1, <1>2, <1>3, <1>4, <2>1, <3>1, NoneApart DEF Told, EventType
  <2>4. OthersUntold(p)
    <3>1. \A o \in Payments \ {p} : emitted'[o] = emitted[o]
      BY <1>1, <1>6, EmitCounts DEF CompleteAndRelease
    <3>2. \A o \in Payments \ {p} :
            /\ hold'[o] = hold[o] /\ settlement'[o] = settlement[o]
            /\ status'[o] = status[o] /\ confirmed'[o] = confirmed[o]
      BY <1>1, <1>6 DEF TypeOK, CompleteAndRelease, Release
    <3> QED
      BY <1>1, <1>3, <3>1, <3>2 DEF TypeOK, OthersUntold
  <2> QED
    BY <1>1, <2>2, <2>3, <2>4, OneOutcome DEF RailInv, OutcomesAreTold
<1> QED
  BY <1>5, <1>6

(* The first failure of a collection is told of, and there is no second.   *)
LEMMA FailTold ==
  ASSUME RailInv, NEW q \in polls, FailCollection(q)
  PROVE  \A o \in Payments : Outcome(o)' /\ Told(o)'
<1> DEFINE p == q.payment
<1>1. /\ TypeOK /\ p \in Payments /\ Outcome(p) /\ Told(p)
      /\ AnswerIsTrue(q) /\ CallbacksAreTrue(p)
  BY PollTypes DEF RailInv, EscrowInv, RailIsHeard, OutcomesAreTold
<1>2. /\ q.result \in Failures /\ q.result \notin collEvents[p]
      /\ collEvents' = [collEvents EXCEPT ![p] = @ \cup {q.result}]
      /\ UNCHANGED <<hold, settlement, confirmed, claims, p2p, p2pEvents>>
  BY DEF FailCollection, Record, KnownEvent
<1>3. railColl[p] = q.result
  BY <1>1, <1>2 DEF AnswerIsTrue, RailAnswer, Final, FailCollection, Applying
<1>4. /\ ~ \E s \in collEvents[p] : s \in Failures
      /\ \E s \in collEvents'[p] : s \in Failures
  BY <1>1, <1>2, <1>3 DEF TypeOK, CallbacksAreTrue, Final
<1>5. status'[p] # "settled" /\ \A o \in Payments \ {p} : status'[o] = status[o]
  BY <1>1, <1>2, MappedStatus DEF TypeOK, FailCollection
<1>6. Told(p)'
  <2>1. /\ emitted'[p]["payment.failed"] = emitted[p]["payment.failed"] + 1
        /\ \A t \in EventType \ {"payment.failed"} :
             emitted'[p][t] = emitted[p][t]
    BY <1>1, EmitCounts DEF FailCollection, EventType
  <2> QED
    BY <1>1, <1>2, <1>4, <2>1 DEF Told, EventType
<1>7. Outcome(p)'
  BY <1>1, <1>2, <1>5 DEF Outcome
<1>8. OthersUntold(p)
  <2>1. \A o \in Payments \ {p} : emitted'[o] = emitted[o]
    BY <1>1, EmitCounts DEF FailCollection
  <2> QED
    BY <1>1, <1>2, <1>5, <2>1 DEF TypeOK, OthersUntold
<1> QED
  BY <1>1, <1>6, <1>7, <1>8, OneOutcome DEF RailInv, OutcomesAreTold

(* Steps that tell nothing: a collection is started or stays open.         *)
LEMMA OpenTold ==
  ASSUME RailInv, NEW p \in Payments,
         status' = [status EXCEPT ![p] = status'[p]], status'[p] # "settled",
         UNCHANGED <<fundVars, deliveryVars, payoutVars, emitted>>,
         confirmed' = [confirmed EXCEPT ![p] = confirmed'[p]],
         confirmed'[p] = confirmed[p],
         \A o \in Payments : \A s \in Failures :
           s \in collEvents'[o] <=> s \in collEvents[o],
         \A o \in Payments \ {p} : collEvents'[o] = collEvents[o]
  PROVE  \A o \in Payments : Outcome(o)' /\ Told(o)'
<1>1. TypeOK /\ Outcome(p) /\ Told(p)
  BY DEF RailInv, EscrowInv, OutcomesAreTold
<1>2. Outcome(p)' /\ Told(p)'
  BY <1>1 DEF Outcome, Told
<1>3. OthersUntold(p)
  BY <1>1 DEF TypeOK, OthersUntold
<1> QED
  BY <1>2, <1>3, OneOutcome DEF RailInv, OutcomesAreTold

(* A first payout order, in whichever status it is.                        *)
LEMMA StartTold ==
  ASSUME RailInv, NEW p \in Payments, NEW s \in SyncStatus, StartPayout(p, s)
  PROVE  \A o \in Payments : Outcome(o)' /\ Told(o)'
<1>1. /\ TypeOK /\ Outcome(p) /\ Told(p) /\ CallbacksAreTrue(p)
      /\ p2p[p] = None
  BY DEF RailInv, EscrowInv, RailIsHeard, OutcomesAreTold, StartPayout,
     OrderPayout, Payable
<1>2. p2pEvents[p] = {}
  BY <1>1 DEF CallbacksAreTrue
<1>3. /\ settlement'[p] = "processing" /\ status'[p] = "settlement_processing"
      /\ UNCHANGED <<hold, confirmed, claims, collEvents, p2pEvents, emitted>>
  BY <1>1 DEF TypeOK, StartPayout, OrderPayout
<1>4. Outcome(p)' /\ Told(p)'
  BY <1>1, <1>2, <1>3 DEF Outcome, Told
<1>5. OthersUntold(p)
  BY <1>1, <1>3 DEF TypeOK, StartPayout, OrderPayout, OthersUntold
<1> QED
  BY <1>4, <1>5, OneOutcome DEF RailInv, OutcomesAreTold

(* Settling, in the order's transaction or in a poll's.                    *)
LEMMA SettleTold ==
  ASSUME RailInv, NEW p \in Payments, NEW via \in {"sync", "poll"}, Settle(p),
         Approved(p),
         \A e \in p2pEvents[p] : e[2] \notin Final,
         UNCHANGED <<confirmed, claims, collEvents>>,
         p2pEvents' = [p2pEvents EXCEPT ![p] = @ \cup {<<via, "COMPLETED">>}],
         p2p' = [p2p EXCEPT ![p] = "COMPLETED"]
  PROVE  \A o \in Payments : Outcome(o)' /\ Told(o)'
<1>1. TypeOK /\ Outcome(p) /\ Told(p)
  BY DEF RailInv, EscrowInv, OutcomesAreTold
<1>2. /\ hold[p] # "released" /\ settlement[p] # "failed"
  BY <1>1 DEF Outcome, Final
<1>3. /\ hold'[p] = "released" /\ settlement'[p] = "completed"
      /\ p2p'[p] = "COMPLETED"
      /\ p2pEvents'[p] = p2pEvents[p] \cup {<<via, "COMPLETED">>}
  BY <1>1 DEF TypeOK, Settle
<1>4. hold[p] # None
  BY NoneApart DEF Approved
<1>5. Outcome(p)'
  <2>1. \A e \in p2pEvents'[p] : e[2] \notin Failures
    BY <1>3 DEF Final, Failures
  <2>2. \E e \in p2pEvents'[p] : e[2] = "COMPLETED"
    <3>1. <<via, "COMPLETED">> \in p2pEvents'[p] /\ <<via, "COMPLETED">>[2] = "COMPLETED"
      BY <1>3
    <3> QED
      BY <3>1
  <2> QED
    BY <1>3, <2>1, <2>2 DEF Outcome
<1>6. Told(p)'
  <2>1. /\ emitted'[p]["settlement.completed"] =
             emitted[p]["settlement.completed"] + 1
        /\ \A t \in EventType \ {"settlement.completed"} :
             emitted'[p][t] = emitted[p][t]
    BY <1>1, EmitCounts DEF Settle, EventType
  <2> QED
    BY <1>1, <1>2, <1>3, <1>4, <2>1, NoneApart DEF Told, EventType
<1>7. OthersUntold(p)
  <2>1. \A o \in Payments \ {p} : emitted'[o] = emitted[o]
    BY <1>1, EmitCounts DEF Settle
  <2> QED
    BY <1>1, <2>1 DEF TypeOK, Settle, OthersUntold
<1> QED
  BY <1>5, <1>6, <1>7, OneOutcome DEF RailInv, OutcomesAreTold

(* What a poll of a payout knows when it is applied.                       *)
LEMMA PolledPayoutFacts ==
  ASSUME RailInv, NEW q \in polls, ApplyingPayout(q), RecordPayout(q)
  PROVE  LET p == q.payment IN
         /\ p \in Payments /\ TypeOK /\ Approved(p) /\ Outcome(p) /\ Told(p)
         /\ \A e \in p2pEvents[p] : e[1] # "sync"
         /\ p2pEvents' = [p2pEvents EXCEPT ![p] = @ \cup {<<"poll", q.result>>}]
         /\ p2p' = [p2p EXCEPT ![p] = q.result]
         /\ q.result \in Final => \A e \in p2pEvents[p] : e[2] \notin Final
<1> DEFINE p == q.payment
<1>1. /\ p \in Payments /\ TypeOK /\ Approved(p) /\ Outcome(p) /\ Told(p)
      /\ AnswerIsTrue(q) /\ CallbacksAreTrue(p) /\ NotSettledAtOnce(q)
  BY PolledPayoutIsApproved
     DEF RailInv, RailIsHeard, OutcomesAreTold, ApplyingPayout
<1>2. \A e \in p2pEvents[p] : e[1] # "sync"
  BY <1>1 DEF NotSettledAtOnce, ApplyingPayout
<1>3. ASSUME q.result \in Final, NEW e \in p2pEvents[p], e[2] \in Final
      PROVE  FALSE
  <2>1. railP2P[p] = q.result /\ railP2P[p] = e[2]
    BY <1>1, <1>3 DEF AnswerIsTrue, RailAnswer, CallbacksAreTrue, ApplyingPayout
  <2>2. e \in {"sync", "poll"} \X AnyStatus
    BY <1>1, <1>3 DEF TypeOK
  <2>3. e = <<"sync", q.result>> \/ e = <<"poll", q.result>>
    BY <2>1, <2>2
  <2> QED
    BY <1>2, <1>3, <2>3 DEF RecordPayout, KnownPayoutEvent
<1> QED
  BY <1>1, <1>2, <1>3 DEF RecordPayout

(* A payout that failed is told of once.                                   *)
LEMMA FailPayoutTold ==
  ASSUME RailInv, NEW q \in polls, FailPayout(q)
  PROVE  \A o \in Payments : Outcome(o)' /\ Told(o)'
<1> DEFINE p == q.payment
<1>1. /\ p \in Payments /\ TypeOK /\ Outcome(p) /\ Told(p)
      /\ \A e \in p2pEvents[p] : e[1] # "sync"
      /\ p2pEvents' = [p2pEvents EXCEPT ![p] = @ \cup {<<"poll", q.result>>}]
      /\ p2p' = [p2p EXCEPT ![p] = q.result]
      /\ q.result \in Final => \A e \in p2pEvents[p] : e[2] \notin Final
  BY PolledPayoutFacts DEF FailPayout
<1>2. /\ q.result \in Failures /\ q.result # "COMPLETED"
      /\ \A e \in p2pEvents[p] : e[2] \notin Final
  BY <1>1 DEF FailPayout, Final, Failures
<1>3. /\ settlement'[p] = "failed"
      /\ UNCHANGED <<status, hold, confirmed, claims, collEvents>>
      /\ p2pEvents'[p] = p2pEvents[p] \cup {<<"poll", q.result>>}
  BY <1>1 DEF TypeOK, FailPayout
<1>4. hold[p] # "released" /\ settlement[p] # "failed"
  BY <1>1, <1>2 DEF Outcome, Final
<1>5. Outcome(p)'
  <2>1. /\ <<"poll", q.result>> \in p2pEvents'[p]
        /\ <<"poll", q.result>>[2] \in Failures
    BY <1>2, <1>3
  <2>2. \A e \in p2pEvents'[p] : e[2] # "COMPLETED" /\ e[1] # "sync"
    BY <1>1, <1>2, <1>3 DEF Final
  <2> QED
    BY <1>1, <1>3, <1>4, <2>1, <2>2 DEF Outcome
<1>6. Told(p)'
  <2>1. /\ emitted'[p]["settlement.failed"] = emitted[p]["settlement.failed"] + 1
        /\ \A t \in EventType \ {"settlement.failed"} :
             emitted'[p][t] = emitted[p][t]
    BY <1>1, EmitCounts DEF FailPayout, EventType
  <2> QED
    BY <1>1, <1>3, <1>4, <2>1 DEF Told, EventType
<1>7. OthersUntold(p)
  <2>1. \A o \in Payments \ {p} : emitted'[o] = emitted[o]
    BY <1>1, EmitCounts DEF FailPayout
  <2> QED
    BY <1>1, <1>3, <2>1 DEF TypeOK, FailPayout, OthersUntold
<1> QED
  BY <1>1, <1>5, <1>6, <1>7, OneOutcome DEF RailInv, OutcomesAreTold

LEMMA OpenPayoutTold ==
  ASSUME RailInv, NEW q \in polls, ApplyOpenPayout(q)
  PROVE  \A o \in Payments : Outcome(o)' /\ Told(o)'
<1> DEFINE p == q.payment
<1>1. /\ p \in Payments /\ TypeOK /\ Outcome(p) /\ Told(p)
      /\ \A e \in p2pEvents[p] : e[1] # "sync"
      /\ p2pEvents' = [p2pEvents EXCEPT ![p] = @ \cup {<<"poll", q.result>>}]
      /\ p2p' = [p2p EXCEPT ![p] = q.result]
  BY PolledPayoutFacts DEF ApplyOpenPayout
<1>2. q.result \notin Failures /\ q.result # "COMPLETED"
  BY DEF ApplyOpenPayout, Polled, Failures
<1>3. /\ UNCHANGED <<status, hold, settlement, confirmed, claims, collEvents, emitted>>
      /\ p2pEvents'[p] = p2pEvents[p] \cup {<<"poll", q.result>>}
  BY <1>1 DEF TypeOK, ApplyOpenPayout
<1>4. /\ \A e \in p2pEvents'[p] : e[1] # "sync"
      /\ (\E e \in p2pEvents'[p] : e[2] = "COMPLETED")
           <=> (\E e \in p2pEvents[p] : e[2] = "COMPLETED")
      /\ (\E e \in p2pEvents'[p] : e[2] \in Failures)
           <=> (\E e \in p2pEvents[p] : e[2] \in Failures)
  BY <1>1, <1>2, <1>3
<1>5. Outcome(p)' /\ Told(p)'
  BY <1>1, <1>3, <1>4 DEF Outcome, Told
<1>6. OthersUntold(p)
  BY <1>1, <1>3 DEF TypeOK, OthersUntold
<1> QED
  BY <1>1, <1>5, <1>6, OneOutcome DEF RailInv, OutcomesAreTold

-----------------------------------------------------------------------------
LEMMA OutcomesStep ==
  ASSUME RailInv, Next
  PROVE  \A o \in Payments : Outcome(o)' /\ Told(o)'
<1> USE RecordsAssumption
<1>0. TypeOK /\ EscrowInv /\ \A p \in Payments : Outcome(p) /\ Told(p)
  BY DEF RailInv, EscrowInv, OutcomesAreTold
<1>1. ASSUME NEW p \in Payments, NEW s \in SyncStatus, SubmitCollection(p, s)
      PROVE  \A o \in Payments : Outcome(o)' /\ Told(o)'
  <2>1. RowsOf(p) /\ coll[p] = None
    BY <1>1 DEF RailInv, EscrowInv, EscrowState, SubmitCollection, Submittable
  <2>2. ~confirmed[p]
    BY <2>1, NoneApart DEF RowsOf, Collected, Decided, Approved
  <2>3. /\ status' = [status EXCEPT ![p] = status'[p]]
        /\ status'[p] = "collection_pending"
        /\ confirmed' = [confirmed EXCEPT ![p] = confirmed'[p]]
        /\ confirmed'[p] = FALSE /\ confirmed[p] = FALSE
    BY <1>0, <1>1, <2>2 DEF TypeOK, SubmitCollection
  <2> QED
    BY <1>1, <2>3, OpenTold DEF SubmitCollection
<1>2. ASSUME NEW p \in Payments, ConfirmWithCode(p) \/ RetryInstant(p)
      PROVE  \A o \in Payments : Outcome(o)' /\ Told(o)'
  BY <1>2, ReleaseTold DEF ConfirmWithCode, CodeUsable, RetryInstant,
     InstantReleasable
<1>3. ASSUME NEW p \in Payments, OpenClaim(p)
      PROVE  \A o \in Payments : Outcome(o)' /\ Told(o)'
  BY <1>3, ClaimTold
<1>4. ASSUME NEW p \in Payments, NEW s \in SyncStatus, StartPayout(p, s)
      PROVE  \A o \in Payments : Outcome(o)' /\ Told(o)'
  BY <1>4, StartTold
<1>5. ASSUME NEW p \in Payments, StartAndSettle(p)
      PROVE  \A o \in Payments : Outcome(o)' /\ Told(o)'
  <2>1. Payable(p) /\ Approved(p) /\ p2pEvents[p] = {}
    BY <1>0, <1>5, OrderFacts DEF RailInv, RailIsHeard, CallbacksAreTrue,
       StartAndSettle, OrderPayout, Payable
  <2> QED
    BY <1>5, <2>1, SettleTold DEF StartAndSettle, OrderPayout
<1>6. ASSUME NEW q \in polls, ApplyOpenCollection(q)
      PROVE  \A o \in Payments : Outcome(o)' /\ Told(o)'
  <2> DEFINE p == q.payment
  <2>1. /\ p \in Payments /\ q.result \in Polled
        /\ collEvents' = [collEvents EXCEPT ![p] = @ \cup {q.result}]
        /\ status' = [status EXCEPT ![p] = OpenStatus[q.result]]
        /\ UNCHANGED confirmed
    BY <1>0, <1>6, PollTypes DEF ApplyOpenCollection, Record
  <2>2. /\ status' = [status EXCEPT ![p] = status'[p]]
        /\ status'[p] # "settled"
        /\ confirmed = [confirmed EXCEPT ![p] = confirmed[p]]
    BY <1>0, <2>1, MappedStatus DEF TypeOK
  <2>3. /\ \A o \in Payments : \A s \in Failures :
             s \in collEvents'[o] <=> s \in collEvents[o]
        /\ \A o \in Payments \ {p} : collEvents'[o] = collEvents[o]
    BY <1>0, <2>1 DEF TypeOK, Polled, Failures
  <2> QED
    BY <1>6, <2>1, <2>2, <2>3, OpenTold DEF ApplyOpenCollection
<1>7. ASSUME NEW q \in polls,
             FailCollection(q) \/ CompleteAndHold(q) \/ CompleteAndRelease(q)
      PROVE  \A o \in Payments : Outcome(o)' /\ Told(o)'
  BY <1>7, FailTold, CompleteTold
<1>8. ASSUME NEW q \in polls, CompletePayout(q)
      PROVE  \A o \in Payments : Outcome(o)' /\ Told(o)'
  <2> DEFINE p == q.payment
  <2>1. /\ ApplyingPayout(q) /\ RecordPayout(q) /\ Settle(p)
        /\ q.result = "COMPLETED" /\ UNCHANGED <<confirmed, claims, collEvents>>
    BY <1>8 DEF CompletePayout
  <2>2. /\ p \in Payments /\ Approved(p)
        /\ \A e \in p2pEvents[p] : e[2] \notin Final
        /\ p2pEvents' = [p2pEvents EXCEPT ![p] = @ \cup {<<"poll", "COMPLETED">>}]
        /\ p2p' = [p2p EXCEPT ![p] = "COMPLETED"]
        /\ \A e \in p2pEvents[p] : e[1] # "sync"
    BY <2>1, PolledPayoutFacts DEF Final
  <2> QED
    BY <2>1, <2>2, SettleTold
<1>9. ASSUME NEW q \in polls, FailPayout(q) \/ ApplyOpenPayout(q)
      PROVE  \A o \in Payments : Outcome(o)' /\ Told(o)'
  BY <1>9, FailPayoutTold, OpenPayoutTold
<1>10. CASE UNCHANGED <<status, confirmed, collVars, fundVars, deliveryVars,
                        payoutVars, emitted>>
  BY <1>0, <1>10 DEF Outcome, Told
<1> QED
  BY <1>1, <1>2, <1>3, <1>4, <1>5, <1>6, <1>7, <1>8, <1>9, <1>10, Steps
     DEF LoseCollection, ViewExpired, ExpireSession, WrongCode, LosePayout,
         RailAdvancesCollection, RailAdvancesPayout, ReadCollections,
         ReadPayouts, Ask, DropPoll, SkipCollection, SkipPayout

LEMMA NotSettledStep ==
  ASSUME RailInv, Next
  PROVE  \A q \in polls' : NotSettledAtOnce(q)'
<1> USE RecordsAssumption
<1>0. /\ TypeOK /\ PollsHaveRequests
      /\ \A q \in polls : q.payment \in Payments /\ NotSettledAtOnce(q)
      /\ \A p \in Payments : Outcome(p)
  BY PollTypes DEF RailInv, EscrowInv, OutcomesAreTold
<1>1. ASSUME NEW p \in Payments, StartAndSettle(p)
      PROVE  \A q \in polls' : NotSettledAtOnce(q)'
  <2>1. \A q \in polls : q.rail = "p2p" => q.payment # p
    BY <1>0, <1>1 DEF PollsHaveRequests, StartAndSettle, OrderPayout, Payable
  <2>2. UNCHANGED polls /\ \A o \in Payments \ {p} : p2pEvents'[o] = p2pEvents[o]
    BY <1>0, <1>1 DEF TypeOK, StartAndSettle, OrderPayout
  <2> QED
    BY <1>0, <2>1, <2>2 DEF NotSettledAtOnce
<1>2. ASSUME NEW q \in polls,
             ApplyOpenPayout(q) \/ CompletePayout(q) \/ FailPayout(q)
      PROVE  \A o \in polls' : NotSettledAtOnce(o)'
  <2>1. /\ polls' \subseteq polls
        /\ p2pEvents' = [p2pEvents EXCEPT ![q.payment] = @ \cup {<<"poll", q.result>>}]
    BY <1>2 DEF ApplyOpenPayout, CompletePayout, FailPayout, ApplyingPayout,
       RecordPayout
  <2>2. \A o \in Payments : \A e \in p2pEvents'[o] :
          e \in p2pEvents[o] \/ e[1] # "sync"
    BY <1>0, <2>1 DEF TypeOK
  <2> QED
    BY <1>0, <2>1, <2>2 DEF NotSettledAtOnce
<1>3. ASSUME NEW r \in Reconcilers, NEW batch \in SUBSET Payments,
             ReadPayouts(r, batch)
      PROVE  \A q \in polls' : NotSettledAtOnce(q)'
  <2>1. \A p \in batch : p2p[p] # "COMPLETED"
    BY <1>3 DEF ReadPayouts, DuePayouts, Polled
  <2>2. \A p \in batch : \A e \in p2pEvents[p] : e[1] # "sync"
    BY <1>0, <2>1 DEF Outcome
  <2> QED
    BY <1>0, <1>3, <2>2 DEF ReadPayouts, NotSettledAtOnce
<1>4. ASSUME NEW r \in Reconcilers, NEW batch \in SUBSET Payments,
             ReadCollections(r, batch)
      PROVE  \A q \in polls' : NotSettledAtOnce(q)'
  BY <1>0, <1>4 DEF ReadCollections, NotSettledAtOnce
<1>5. ASSUME NEW q \in polls, Ask(q)
      PROVE  \A o \in polls' : NotSettledAtOnce(o)'
  <2> DEFINE answered == [q EXCEPT !.result = RailAnswer(q)]
  <2>1. answered.payment = q.payment /\ answered.rail = q.rail
    BY <1>0, PollTypes DEF Poll
  <2>2. UNCHANGED p2pEvents /\ \A o \in polls' : o \in polls \/ o = answered
    BY <1>5 DEF Ask
  <2> QED
    BY <1>0, <2>1, <2>2 DEF NotSettledAtOnce
<1>6. CASE polls' \subseteq polls /\ UNCHANGED p2pEvents
  BY <1>0, <1>6 DEF NotSettledAtOnce
<1> QED
  BY <1>1, <1>2, <1>3, <1>4, <1>5, <1>6, Steps, ZenonT(60)
     DEF SubmitCollection, LoseCollection, ViewExpired, ExpireSession,
         ConfirmWithCode, WrongCode, OpenClaim, RetryInstant, StartPayout,
         OrderPayout, LosePayout, RailAdvancesCollection, RailAdvancesPayout,
         DropPoll, SkipCollection, ApplyOpenCollection, FailCollection,
         CompleteAndHold, CompleteAndRelease, Complete, Applying, SkipPayout,
         ApplyingPayout

-----------------------------------------------------------------------------
(* The callbacks, the hold, the settlement and the events of a payment      *)
(* agree with the rail's last word, whatever the reconcilers repeat or      *)
(* overtake.                                                               *)
THEOREM RailInvariant == Spec => []RailInv
<1>1. Init => RailIsHeard /\ OutcomesAreTold
  BY NoneApart DEF Init, RailIsHeard, AnswerIsTrue, CallbacksAreTrue,
     OutcomesAreTold, NotSettledAtOnce, Outcome, Told, EventType
<1>2. RailInv /\ EscrowInv' /\ [Next]_vars => RailInv'
  <2>1. RailInv /\ EscrowInv' /\ Next => RailInv'
    BY RailIsHeardStep, OutcomesStep, NotSettledStep DEF RailInv, OutcomesAreTold
  <2>2. RailInv /\ EscrowInv' /\ UNCHANGED vars => RailInv'
    BY DEF RailInv, vars, RailIsHeard, AnswerIsTrue, RailAnswer,
       CallbacksAreTrue, OutcomesAreTold, NotSettledAtOnce, Outcome, Told
  <2> QED
    BY <2>1, <2>2
<1>3. Init /\ EscrowInv => RailInv
  BY <1>1 DEF RailInv
<1> QED
  BY <1>2, <1>3, EscrowInvariant, PTL DEF Spec

(* The merchant hears of each fact once and never of two that exclude each  *)
(* other (emit_event in the transactions of what it tells).                 *)
THEOREM EventsAreTrue == Spec => []EventsTellTheTruth
<1>1. ASSUME RailInv, NEW p \in Payments
      PROVE  /\ emitted[p]["payment.failed"] <= 1
             /\ emitted[p]["payment.failed"] = 1 => hold[p] = None
  <2>1. Told(p) /\ CallbacksAreTrue(p) /\ RowsOf(p)
    BY <1>1 DEF RailInv, OutcomesAreTold, RailIsHeard, EscrowInv, EscrowState
  <2>2. ASSUME NEW s \in collEvents[p], s \in Failures PROVE hold[p] = None
    <3>1. "COMPLETED" \notin collEvents[p]
      BY <2>1, <2>2 DEF CallbacksAreTrue, Final, Failures
    <3> QED
      BY <2>1, <3>1 DEF RowsOf, Collected
  <2> QED
    BY <2>1, <2>2 DEF Told
<1>2. RailInv => EventsTellTheTruth
  BY <1>1 DEF RailInv, OutcomesAreTold, Told, EventsTellTheTruth
<1> QED
  BY <1>2, RailInvariant, PTL

(* AmatoPay books no money the rail did not move (apply_collection_status,  *)
(* apply_p2p_status).                                                      *)
THEOREM BooksAreBacked == Spec => []BackedByTheRail
<1>1. ASSUME RailInv, NEW p \in Payments
      PROVE  /\ hold[p] # None => railColl[p] = "COMPLETED"
             /\ hold[p] = "released" => railP2P[p] = "COMPLETED"
  BY <1>1 DEF RailInv, OutcomesAreTold, Outcome, RailIsHeard, CallbacksAreTrue,
     EscrowInv, EscrowState, RowsOf, Collected, Final
<1>2. RailInv => BackedByTheRail
  BY <1>1 DEF BackedByTheRail, RailInv, OutcomesAreTold, Outcome
<1> QED
  BY <1>2, RailInvariant, PTL

(* A settlement that completed or failed stays so, whatever polls are       *)
(* under way (apply_p2p_status, start_merchant_payout).                     *)
THEOREM SettlementsAreFinal == Spec => SettlementIsFinal
<1> DEFINE Ended(p) == settlement[p] \in {"completed", "failed"}
<1>1. ASSUME RailInv, Next, NEW p \in Payments, Ended(p)
      PROVE  settlement'[p] = settlement[p]
  <2> USE RecordsAssumption
  <2>1. /\ TypeOK /\ Outcome(p) /\ CallbacksAreTrue(p)
        /\ settlement[p] # None /\ settlement[p] # "pending"
    BY <1>1, NoneApart DEF RailInv, EscrowInv, OutcomesAreTold, RailIsHeard
  <2>2. p2p[p] # None
    BY <1>1, <2>1 DEF Outcome, CallbacksAreTrue
  <2>3. ASSUME NEW o \in Payments, Release(o) PROVE settlement'[p] = settlement[p]
    BY <2>1, <2>3 DEF TypeOK, Release
  <2>4. ASSUME NEW o \in Payments,
               (\E s \in SyncStatus : StartPayout(o, s)) \/ StartAndSettle(o)
        PROVE  settlement'[p] = settlement[p]
    BY <2>1, <2>2, <2>4 DEF TypeOK, StartPayout, StartAndSettle, OrderPayout,
       Payable, Settle
  <2>5. ASSUME NEW q \in polls, CompletePayout(q) \/ FailPayout(q)
        PROVE  settlement'[p] = settlement[p]
    <3>1. /\ q.payment \in Payments
          /\ q.result \in Final => \A e \in p2pEvents[q.payment] : e[2] \notin Final
      BY <1>1, <2>5, PolledPayoutFacts DEF CompletePayout, FailPayout
    <3>2. q.result \in Final
      BY <2>5 DEF CompletePayout, FailPayout, Final
    <3>3. q.payment # p
      BY <1>1, <2>1, <3>1, <3>2 DEF Outcome, Final
    <3> QED
      BY <2>1, <2>5, <3>1, <3>3 DEF TypeOK, CompletePayout, FailPayout, Settle
  <2>6. CASE UNCHANGED settlement
    BY <2>6
  <2> QED
    BY <1>1, <2>3, <2>4, <2>5, <2>6, Steps
       DEF SubmitCollection, LoseCollection, ViewExpired, ExpireSession,
           ConfirmWithCode, WrongCode, OpenClaim, RetryInstant, LosePayout,
           RailAdvancesCollection, RailAdvancesPayout, ReadCollections,
           ReadPayouts, Ask, DropPoll, SkipCollection, ApplyOpenCollection,
           FailCollection, CompleteAndHold, Complete, CompleteAndRelease,
           SkipPayout, ApplyOpenPayout
<1>2. RailInv /\ [Next]_vars =>
        [\A p \in Payments : settlement[p] \in {"completed", "failed"} =>
           settlement'[p] = settlement[p]]_vars
  BY <1>1
<1> QED
  BY <1>2, RailInvariant, PTL DEF Spec, SettlementIsFinal

-----------------------------------------------------------------------------
(* What a session says of the funds holds step by step as well.            *)
SessionIsTrue(p) ==
  /\ session[p] = "completed" => hold[p] # None
  /\ session[p] = "failed" => hold[p] = None

LEMMA SessionStep ==
  ASSUME RailInv, Next, \A p \in Payments : SessionIsTrue(p)
  PROVE  \A p \in Payments : SessionIsTrue(p)'
<1> USE RecordsAssumption
<1>0. TypeOK /\ EscrowInv
  BY DEF RailInv, EscrowInv
<1>1. ASSUME NEW p \in Payments,
             (\E s \in SyncStatus : SubmitCollection(p, s)) \/ ExpireSession(p)
      PROVE  \A o \in Payments : SessionIsTrue(o)'
  BY <1>0, <1>1 DEF TypeOK, SubmitCollection, ExpireSession, SessionIsTrue
<1>2. ASSUME NEW q \in polls, FailCollection(q)
      PROVE  \A o \in Payments : SessionIsTrue(o)'
  <2> DEFINE p == q.payment
  <2>1. /\ p \in Payments /\ AnswerIsTrue(q) /\ CallbacksAreTrue(p) /\ RowsOf(p)
    BY <1>0, PollTypes DEF RailInv, RailIsHeard, EscrowInv, EscrowState
  <2>2. "COMPLETED" \notin collEvents[p]
    BY <1>2, <2>1 DEF FailCollection, Applying, AnswerIsTrue, RailAnswer,
       CallbacksAreTrue, Final, Failures
  <2>3. hold[p] = None
    BY <2>1, <2>2 DEF RowsOf, Collected
  <2> QED
    BY <1>0, <1>2, <2>1, <2>3 DEF TypeOK, FailCollection, SessionIsTrue
<1>3. ASSUME NEW q \in polls, CompleteAndHold(q) \/ CompleteAndRelease(q)
      PROVE  \A o \in Payments : SessionIsTrue(o)'
  <2> DEFINE p == q.payment
  <2>1. p \in Payments /\ hold[p] = None
    BY <1>0, <1>3, CompleteFacts DEF CompleteAndHold, CompleteAndRelease
  <2>2. /\ hold'[p] # None /\ session'[p] = "completed"
        /\ \A o \in Payments \ {p} : hold'[o] = hold[o] /\ session'[o] = session[o]
    BY <1>0, <1>3, <2>1, NoneApart
       DEF TypeOK, CompleteAndHold, CompleteAndRelease, Complete, Hold, Release
  <2> QED
    BY <2>2 DEF SessionIsTrue
<1>4. ASSUME NEW p \in Payments, hold[p] # None, hold'[p] # None,
             \A o \in Payments \ {p} : hold'[o] = hold[o], UNCHANGED session
      PROVE  \A o \in Payments : SessionIsTrue(o)'
  BY <1>4 DEF SessionIsTrue
<1>5. ASSUME NEW p \in Payments,
             ConfirmWithCode(p) \/ RetryInstant(p) \/ OpenClaim(p)
      PROVE  \A o \in Payments : SessionIsTrue(o)'
  <2>1. hold[p] = "delivery_pending"
    BY <1>0, <1>5 DEF EscrowInv, EscrowState, RowsOf, Collected, ConfirmWithCode,
       CodeUsable, OpenClaim, RetryInstant, InstantReleasable
  <2> QED
    BY <1>0, <1>4, <1>5, <2>1, NoneApart
       DEF TypeOK, ConfirmWithCode, RetryInstant, OpenClaim, Release
<1>6. ASSUME NEW p \in Payments, Approved(p), Settle(p), UNCHANGED session
      PROVE  \A o \in Payments : SessionIsTrue(o)'
  BY <1>0, <1>4, <1>6, NoneApart DEF TypeOK, Approved, Settle
<1>7. ASSUME NEW p \in Payments, StartAndSettle(p)
      PROVE  \A o \in Payments : SessionIsTrue(o)'
  BY <1>0, <1>6, <1>7, OrderFacts DEF StartAndSettle, OrderPayout
<1>8. ASSUME NEW q \in polls, CompletePayout(q)
      PROVE  \A o \in Payments : SessionIsTrue(o)'
  BY <1>0, <1>6, <1>8, PolledPayoutIsApproved DEF CompletePayout, ApplyingPayout
<1>9. CASE UNCHANGED <<session, hold>>
  BY <1>9 DEF SessionIsTrue
<1> QED
  BY <1>1, <1>2, <1>3, <1>5, <1>7, <1>8, <1>9, Steps
     DEF LoseCollection, ViewExpired, WrongCode, StartPayout, OrderPayout,
         LosePayout, RailAdvancesCollection, RailAdvancesPayout,
         ReadCollections, ReadPayouts, Ask, DropPoll, SkipCollection,
         ApplyOpenCollection, SkipPayout, ApplyOpenPayout, FailPayout

(* A session says completed only of funds that are held and failed only of  *)
(* funds never received, with any number of reconcilers                    *)
(* (apply_payment_collection_status, the expiry in checkout/views.py).      *)
THEOREM SessionsAreTrue == Spec => []SessionTellsTheTruth
<1> DEFINE Inv == \A p \in Payments : SessionIsTrue(p)
<1>1. Init => Inv
  BY DEF Init, SessionIsTrue
<1>2. RailInv /\ Inv /\ [Next]_vars => Inv'
  <2>1. RailInv /\ Inv /\ Next => Inv'
    BY SessionStep
  <2>2. Inv /\ UNCHANGED vars => Inv'
    BY DEF SessionIsTrue, vars
  <2> QED
    BY <2>1, <2>2
<1>3. Inv => SessionTellsTheTruth
  BY DEF SessionIsTrue, SessionTellsTheTruth
<1> HIDE DEF Inv
<1> QED
  BY <1>1, <1>2, <1>3, RailInvariant, PTL DEF Spec

-----------------------------------------------------------------------------
(* A code is live only for funds that are undecided, and locked only while  *)
(* they are held.                                                          *)
CodeIsGuarded(p) ==
  /\ hasCode[p] => ~confirmed[p] /\ claims[p] = 0 /\ p \notin Instant
  /\ locked[p] => hold[p] = "delivery_pending" /\ p \notin Instant

CodeInv == LockAtLimit /\ \A p \in Payments : CodeIsGuarded(p)

(* What a step may do to a payment whose code is locked.                   *)
Locked(p) ==
  locked[p] => locked'[p] /\ hold'[p] = hold[p] /\ settlement'[p] = settlement[p]

LEMMA CodeStep ==
  ASSUME EscrowInv, CodeInv, Next
  PROVE  \A p \in Payments : CodeIsGuarded(p)' /\ Locked(p)
<1> USE RecordsAssumption
<1>0. TypeOK /\ \A p \in Payments : CodeIsGuarded(p) /\ RowsOf(p)
  BY DEF EscrowInv, EscrowState, CodeInv
<1>1. ASSUME NEW p \in Payments, CodeIsGuarded(p)' /\ Locked(p),
             \A o \in Payments \ {p} :
               /\ hasCode'[o] = hasCode[o] /\ confirmed'[o] = confirmed[o]
               /\ claims'[o] = claims[o] /\ locked'[o] = locked[o]
               /\ hold'[o] = hold[o] /\ settlement'[o] = settlement[o]
      PROVE  \A o \in Payments : CodeIsGuarded(o)' /\ Locked(o)
  BY <1>0, <1>1 DEF CodeIsGuarded, Locked
<1>2. ASSUME NEW p \in Payments, NEW s \in SyncStatus, SubmitCollection(p, s)
      PROVE  \A o \in Payments : CodeIsGuarded(o)' /\ Locked(o)
  <2>1. hold[p] = None /\ claims[p] = 0
    BY <1>0, <1>2, NoneApart DEF RowsOf, Collected, Decided, SubmitCollection,
       Submittable
  <2>2. ~locked[p]
    BY <1>0, <2>1, NoneApart DEF CodeIsGuarded
  <2>3. CodeIsGuarded(p)' /\ Locked(p)
    BY <1>0, <1>2, <2>1, <2>2 DEF TypeOK, SubmitCollection, CodeIsGuarded, Locked
  <2> QED
    BY <1>0, <1>1, <1>2, <2>3 DEF TypeOK, SubmitCollection
<1>3. ASSUME NEW p \in Payments,
             ConfirmWithCode(p) \/ RetryInstant(p) \/ OpenClaim(p)
      PROVE  \A o \in Payments : CodeIsGuarded(o)' /\ Locked(o)
  <2>1. ~locked[p]
    BY <1>0, <1>3 DEF ConfirmWithCode, OpenClaim, CodeUsable, RetryInstant,
       InstantReleasable, CodeIsGuarded
  <2>2. CodeIsGuarded(p)' /\ Locked(p)
    BY <1>0, <1>3, <2>1 DEF TypeOK, ConfirmWithCode, RetryInstant, OpenClaim,
       Release, CodeIsGuarded, Locked
  <2> QED
    BY <1>0, <1>1, <1>3, <2>2
       DEF TypeOK, ConfirmWithCode, RetryInstant, OpenClaim, Release
<1>4. ASSUME NEW p \in Payments, WrongCode(p)
      PROVE  \A o \in Payments : CodeIsGuarded(o)' /\ Locked(o)
  <2>1. hold[p] = "delivery_pending" /\ p \notin Instant
    BY <1>0, <1>4 DEF WrongCode, CodeUsable, RowsOf, Collected, CodeIsGuarded
  <2>2. /\ UNCHANGED <<hasCode, confirmed, claims, hold, settlement>>
        /\ \A o \in Payments : locked[o] => locked'[o]
        /\ \A o \in Payments \ {p} : locked'[o] = locked[o]
    BY <1>0, <1>4 DEF TypeOK, WrongCode
  <2> QED
    BY <1>0, <1>1, <2>1, <2>2 DEF CodeIsGuarded, Locked
<1>5. ASSUME NEW q \in polls, CompleteAndHold(q) \/ CompleteAndRelease(q)
      PROVE  \A o \in Payments : CodeIsGuarded(o)' /\ Locked(o)
  <2> DEFINE p == q.payment
  <2>1. p \in Payments /\ hold[p] = None
    BY <1>5, CompleteFacts DEF CompleteAndHold, CompleteAndRelease
  <2>2. ~locked[p]
    BY <1>0, <2>1, NoneApart DEF CodeIsGuarded
  <2>3. CodeIsGuarded(p)' /\ Locked(p)
    BY <1>0, <1>5, <2>1, <2>2 DEF TypeOK, CompleteAndHold, CompleteAndRelease,
       Complete, Hold, Release, CodeIsGuarded, Locked
  <2> QED
    BY <1>0, <1>1, <1>5, <2>1, <2>3
       DEF TypeOK, CompleteAndHold, CompleteAndRelease, Complete, Hold, Release
<1>6. ASSUME NEW p \in Payments, Approved(p),
             UNCHANGED <<hasCode, confirmed, claims, locked>>,
             \A o \in Payments \ {p} :
               hold'[o] = hold[o] /\ settlement'[o] = settlement[o]
      PROVE  \A o \in Payments : CodeIsGuarded(o)' /\ Locked(o)
  <2>1. ~locked[p]
    BY <1>0, <1>6 DEF CodeIsGuarded, Approved
  <2> QED
    BY <1>0, <1>1, <1>6, <2>1 DEF CodeIsGuarded, Locked
<1>7. ASSUME NEW p \in Payments,
             (\E s \in SyncStatus : StartPayout(p, s)) \/ StartAndSettle(p)
      PROVE  \A o \in Payments : CodeIsGuarded(o)' /\ Locked(o)
  <2>1. Approved(p)
    BY <1>7, OrderFacts DEF StartPayout, StartAndSettle, OrderPayout
  <2> QED
    BY <1>0, <1>6, <1>7, <2>1
       DEF TypeOK, StartPayout, StartAndSettle, OrderPayout, Settle
<1>8. ASSUME NEW q \in polls, CompletePayout(q) \/ FailPayout(q)
      PROVE  \A o \in Payments : CodeIsGuarded(o)' /\ Locked(o)
  <2>1. q.payment \in Payments /\ Approved(q.payment)
    BY <1>8, PolledPayoutIsApproved DEF CompletePayout, FailPayout, ApplyingPayout
  <2> QED
    BY <1>0, <1>6, <1>8, <2>1 DEF TypeOK, CompletePayout, FailPayout, Settle
<1>9. CASE UNCHANGED <<codeVars, claims, hold, settlement>>
  BY <1>0, <1>9 DEF CodeIsGuarded, Locked
<1> QED
  BY <1>2, <1>3, <1>4, <1>5, <1>7, <1>8, <1>9, Steps
     DEF LoseCollection, ViewExpired, ExpireSession, LosePayout,
         RailAdvancesCollection, RailAdvancesPayout, ReadCollections,
         ReadPayouts, Ask, DropPoll, SkipCollection, ApplyOpenCollection,
         FailCollection, SkipPayout, ApplyOpenPayout

LEMMA CodeInvariant == Spec => [](EscrowInv /\ CodeInv)
<1>1. Init => CodeInv
  BY RecordsAssumption DEF Init, CodeInv, LockAtLimit, CodeIsGuarded
<1>2. EscrowInv /\ CodeInv /\ [Next]_vars => CodeInv'
  <2>1. EscrowInv /\ CodeInv /\ Next => CodeInv'
    BY CodeStep, LockStep DEF CodeInv, EscrowInv
  <2>2. CodeInv /\ UNCHANGED vars => CodeInv'
    BY DEF CodeInv, LockAtLimit, CodeIsGuarded, vars
  <2> QED
    BY <2>1, <2>2
<1> QED
  BY <1>1, <1>2, EscrowInvariant, PTL DEF Spec

(* The code is spent by its first use and locked exactly at the limit of    *)
(* wrong attempts (_validate_release_code and its two callers).             *)
THEOREM CodesAreSpent == Spec => []CodeSpent
<1>1. EscrowInv /\ CodeInv => CodeSpent
  BY DEF EscrowInv, TypeOK, CodeInv, LockAtLimit, CodeIsGuarded, CodeSpent
<1> QED
  BY <1>1, CodeInvariant, PTL

(* Nothing moves the funds of a payment whose code is locked, and nothing   *)
(* unlocks it (_validate_release_code).                                    *)
THEOREM LockedFundsDoNotMove == Spec => LockedFundsStay
<1>1. EscrowInv /\ CodeInv /\ [Next]_vars =>
        [\A p \in Payments :
           locked[p] => locked'[p] /\ hold'[p] = hold[p]
                        /\ settlement'[p] = settlement[p]]_vars
  BY CodeStep DEF Locked
<1> QED
  BY <1>1, CodeInvariant, PTL DEF Spec, LockedFundsStay

-----------------------------------------------------------------------------
(* Without lost answers an order on the rail is an order AmatoPay knows.    *)
OrdersAreKnown ==
  \A p \in Payments :
    /\ collOrders[p] = IF coll[p] = None THEN 0 ELSE 1
    /\ p2pOrders[p] = IF p2p[p] = None THEN 0 ELSE 1

LEMMA OrdersStep ==
  ASSUME MaxLost = 0, EscrowInv, OrdersAreKnown, Next
  PROVE  OrdersAreKnown'
<1> USE RecordsAssumption
<1>0. TypeOK
  BY DEF EscrowInv
<1>1. ASSUME NEW p \in Payments, NEW s \in SyncStatus, SubmitCollection(p, s)
      PROVE  OrdersAreKnown'
  BY <1>0, <1>1, NoneApart DEF TypeOK, OrdersAreKnown, SubmitCollection, Submittable
<1>2. ASSUME NEW p \in Payments, NEW s \in SyncStatus, OrderPayout(p, s)
      PROVE  OrdersAreKnown'
  BY <1>0, <1>2, NoneApart DEF TypeOK, OrdersAreKnown, OrderPayout, Payable
<1>3. ASSUME NEW p \in Payments, LoseCollection(p) \/ LosePayout(p)
      PROVE  FALSE
  BY <1>0, <1>3 DEF LoseCollection, LosePayout, TypeOK
<1>4. ASSUME NEW q \in polls,
             \/ ApplyOpenCollection(q) \/ FailCollection(q)
             \/ CompleteAndHold(q) \/ CompleteAndRelease(q)
      PROVE  OrdersAreKnown'
  <2>1. /\ coll[q.payment] # None /\ Record(q) /\ q.result # None
        /\ UNCHANGED <<p2p, collOrders, p2pOrders>>
    BY <1>4 DEF EscrowInv, PollsHaveRequests, ApplyOpenCollection,
       FailCollection, CompleteAndHold, CompleteAndRelease, Complete, Applying
  <2> QED
    BY <1>0, <2>1 DEF TypeOK, OrdersAreKnown, Record
<1>5. ASSUME NEW q \in polls,
             ApplyOpenPayout(q) \/ CompletePayout(q) \/ FailPayout(q)
      PROVE  OrdersAreKnown'
  <2>1. /\ p2p[q.payment] # None /\ RecordPayout(q) /\ q.result # None
        /\ UNCHANGED <<coll, collOrders, p2pOrders>>
    BY <1>5 DEF EscrowInv, PollsHaveRequests, ApplyOpenPayout, CompletePayout,
       FailPayout, ApplyingPayout
  <2> QED
    BY <1>0, <2>1 DEF TypeOK, OrdersAreKnown, RecordPayout
<1>6. CASE UNCHANGED <<coll, p2p, collOrders, p2pOrders>>
  BY <1>6 DEF OrdersAreKnown
<1> QED
  BY <1>1, <1>2, <1>3, <1>4, <1>5, <1>6, Steps
     DEF ViewExpired, ExpireSession, ConfirmWithCode, WrongCode, OpenClaim,
         RetryInstant, StartPayout, StartAndSettle, RailAdvancesCollection,
         RailAdvancesPayout, ReadCollections, ReadPayouts, Ask, DropPoll,
         SkipCollection, SkipPayout

(* A rail whose answers arrive gets at most one collection and one payout   *)
(* order per payment, from any number of submitters and reconcilers         *)
(* (submit_checkout_payment_collection, start_merchant_payout).             *)
THEOREM OrdersAreUnique ==
  ASSUME MaxLost = 0
  PROVE  Spec => []OneOrderEach
<1>1. Init => OrdersAreKnown
  BY DEF Init, OrdersAreKnown
<1>2. EscrowInv /\ OrdersAreKnown /\ [Next]_vars => OrdersAreKnown'
  <2>1. EscrowInv /\ OrdersAreKnown /\ Next => OrdersAreKnown'
    BY OrdersStep
  <2>2. OrdersAreKnown /\ UNCHANGED vars => OrdersAreKnown'
    BY DEF OrdersAreKnown, vars
  <2> QED
    BY <2>1, <2>2
<1>3. OrdersAreKnown => OneOrderEach
  BY DEF OrdersAreKnown, OneOrderEach
<1> QED
  BY <1>1, <1>2, <1>3, EscrowInvariant, PTL DEF Spec
-----------------------------------------------------------------------------
(* What a page may say of one payment: one that is said not to have         *)
(* completed has a callback of the failure, and a protected payment has its *)
(* code from the submission until the decision.                            *)
Unpaid == {"rejected", "failed", "cancelled"}

PageFits(p) ==
  /\ status[p] \in Unpaid => \E s \in collEvents[p] : s \in Failures
  /\ coll[p] # None /\ hold[p] \in {None, "delivery_pending"} /\ p \notin Instant
       => hasCode[p]

LEMMA PageStep ==
  ASSUME EscrowInv, \A p \in Payments : PageFits(p), Next
  PROVE  \A p \in Payments : PageFits(p)'
<1> USE RecordsAssumption
<1>0. TypeOK /\ \A p \in Payments : PageFits(p) /\ RowsOf(p)
  BY DEF EscrowInv, EscrowState
<1>1. ASSUME NEW p \in Payments, PageFits(p)',
             \A o \in Payments \ {p} :
               /\ status'[o] = status[o] /\ hasCode'[o] = hasCode[o]
               /\ collEvents'[o] = collEvents[o]
               /\ coll'[o] = coll[o] /\ hold'[o] = hold[o]
      PROVE  \A o \in Payments : PageFits(o)'
  BY <1>0, <1>1 DEF PageFits
<1>2. ASSUME NEW p \in Payments, NEW s \in SyncStatus, SubmitCollection(p, s)
      PROVE  \A o \in Payments : PageFits(o)'
  <2>1. PageFits(p)'
    BY <1>0, <1>2 DEF TypeOK, SubmitCollection, PageFits, Unpaid
  <2> QED
    BY <1>0, <1>1, <1>2, <2>1 DEF TypeOK, SubmitCollection
<1>3. ASSUME NEW p \in Payments,
             ConfirmWithCode(p) \/ RetryInstant(p) \/ OpenClaim(p)
      PROVE  \A o \in Payments : PageFits(o)'
  <2>1. PageFits(p)'
    BY <1>0, <1>3, NoneApart
       DEF TypeOK, ConfirmWithCode, RetryInstant, OpenClaim, Release, PageFits, Unpaid
  <2> QED
    BY <1>0, <1>1, <1>3, <2>1
       DEF TypeOK, ConfirmWithCode, RetryInstant, OpenClaim, Release
<1>4. ASSUME NEW q \in polls, ApplyOpenCollection(q) \/ FailCollection(q)
      PROVE  \A o \in Payments : PageFits(o)'
  <2> DEFINE p == q.payment
  <2>1. p \in Payments /\ coll[p] # None /\ q.result \in Polled \cup Failures
    BY <1>4, PollTypes DEF EscrowInv, PollsHaveRequests, ApplyOpenCollection,
       FailCollection, Applying
  <2>2. /\ status'[p] \in Unpaid => q.result \in Failures
        /\ collEvents'[p] = collEvents[p] \cup {q.result}
        /\ hasCode'[p] = hasCode[p] /\ hold'[p] = hold[p]
    BY <1>0, <1>4, <2>1, MappedStatus DEF TypeOK, ApplyOpenCollection,
       FailCollection, Record, OpenStatus, Unpaid, Polled
  <2>3. PageFits(p)'
    BY <1>0, <2>1, <2>2 DEF PageFits
  <2> QED
    BY <1>0, <1>1, <1>4, <2>1, <2>3
       DEF TypeOK, ApplyOpenCollection, FailCollection, Record
<1>5. ASSUME NEW q \in polls, CompleteAndHold(q) \/ CompleteAndRelease(q)
      PROVE  \A o \in Payments : PageFits(o)'
  <2> DEFINE p == q.payment
  <2>1. /\ p \in Payments /\ coll[p] # None /\ hold[p] = None
        /\ \A o \in Payments \ {p} : coll'[o] = coll[o]
    BY <1>5, CompleteFacts DEF EscrowInv, PollsHaveRequests, CompleteAndHold,
       CompleteAndRelease, Complete, Applying
  <2>2. /\ status'[p] \in {"delivery_pending", "release_pending"}
        /\ hold'[p] = status'[p]
        /\ hold'[p] = "delivery_pending" => hasCode'[p] = hasCode[p]
    BY <1>0, <1>5, <2>1 DEF TypeOK, CompleteAndHold, CompleteAndRelease,
       Complete, Hold, Release
  <2>3. PageFits(p)'
    BY <1>0, <2>1, <2>2, NoneApart DEF PageFits, Unpaid
  <2> QED
    BY <1>0, <1>1, <1>5, <2>1, <2>3
       DEF TypeOK, CompleteAndHold, CompleteAndRelease, Complete, Record, Hold,
           Release
<1>6. ASSUME NEW p \in Payments,
             (\E s \in SyncStatus : StartPayout(p, s)) \/ StartAndSettle(p)
      PROVE  \A o \in Payments : PageFits(o)'
  <2>1. Approved(p)
    BY <1>6, OrderFacts DEF StartPayout, StartAndSettle, OrderPayout
  <2>2. PageFits(p)'
    BY <1>0, <1>6, <2>1, NoneApart
       DEF TypeOK, StartPayout, StartAndSettle, OrderPayout, Settle, PageFits,
           Approved, Unpaid
  <2> QED
    BY <1>0, <1>1, <1>6, <2>2
       DEF TypeOK, StartPayout, StartAndSettle, OrderPayout, Settle
<1>7. ASSUME NEW q \in polls,
             ApplyOpenPayout(q) \/ CompletePayout(q) \/ FailPayout(q)
      PROVE  \A o \in Payments : PageFits(o)'
  <2> DEFINE p == q.payment
  <2>1. p \in Payments /\ Approved(p)
    BY <1>7, PolledPayoutIsApproved
       DEF ApplyOpenPayout, CompletePayout, FailPayout, ApplyingPayout
  <2>2. PageFits(p)'
    BY <1>0, <1>7, <2>1, NoneApart
       DEF TypeOK, ApplyOpenPayout, CompletePayout, FailPayout, Settle,
           PageFits, Approved, Unpaid
  <2> QED
    BY <1>0, <1>1, <1>7, <2>1, <2>2
       DEF TypeOK, ApplyOpenPayout, CompletePayout, FailPayout, Settle
<1>8. CASE UNCHANGED <<status, hasCode, collVars, hold>>
  BY <1>0, <1>8 DEF PageFits
<1> QED
  BY <1>2, <1>3, <1>4, <1>5, <1>6, <1>7, <1>8, Steps
     DEF LoseCollection, ViewExpired, ExpireSession, LosePayout, WrongCode,
         RailAdvancesCollection, RailAdvancesPayout, ReadCollections,
         ReadPayouts, Ask, DropPoll, SkipCollection, SkipPayout

LEMMA PageInvariant == Spec => [](\A p \in Payments : PageFits(p))
<1> DEFINE Inv == \A p \in Payments : PageFits(p)
<1>1. Init => Inv
  BY DEF Init, PageFits, Unpaid
<1>2. EscrowInv /\ Inv /\ [Next]_vars => Inv'
  <2>1. EscrowInv /\ Inv /\ Next => Inv'
    BY PageStep
  <2>2. Inv /\ UNCHANGED vars => Inv'
    BY DEF PageFits, vars
  <2> QED
    BY <2>1, <2>2
<1> HIDE DEF Inv
<1>3. Spec => []Inv
  BY <1>1, <1>2, EscrowInvariant, PTL DEF Spec
<1> QED
  BY <1>3 DEF Inv

-----------------------------------------------------------------------------
(* What the staff are told.  A sum is of one row's amount per payment, so    *)
(* two of them are equal when their rows are.                              *)
HeldRow(p) ==
  /\ hold[p] \in HoldStatus \cup {None}
  /\ hold[p] # None /\ hold[p] # "released"
       <=> hold[p] \in {"delivery_pending", "disputed", "release_pending"}
  /\ ledger[p].customer_funds - (ledger[p].release + ledger[p].fee)
       = IF hold[p] # None /\ hold[p] # "released" THEN Gross[p] ELSE 0
  /\ ledger[p].customer_funds = IF hold[p] # None THEN Gross[p] ELSE 0
  /\ settlement[p] \in {"pending", "processing"}
       <=> hold[p] = "release_pending" /\ settlement[p] # "failed"
  /\ ledger[p].release = IF settlement[p] = "completed" THEN Net(p) ELSE 0

LEMMA HeldRows == RailInv => \A p \in Payments : HeldRow(p)
<1> SUFFICES ASSUME RailInv, NEW p \in Payments PROVE HeldRow(p)
  OBVIOUS
<1> USE RecordsAssumption
<1>1. TypeOK /\ RowsOf(p) /\ Outcome(p)
  BY DEF RailInv, EscrowInv, EscrowState, OutcomesAreTold
<1>2. /\ hold[p] \in HoldStatus \cup {None}
      /\ settlement[p] \in SettlementStatus \cup {None}
      /\ Gross[p] \in Nat /\ Fee[p] \in Nat
  BY <1>1 DEF TypeOK
<1>3. hold[p] # None /\ hold[p] # "released"
        <=> hold[p] \in {"delivery_pending", "disputed", "release_pending"}
  BY <1>2, NoneApart DEF HoldStatus
<1>4. /\ ledger[p].customer_funds - (ledger[p].release + ledger[p].fee)
           = IF hold[p] # None /\ hold[p] # "released" THEN Gross[p] ELSE 0
      /\ ledger[p].customer_funds = IF hold[p] # None THEN Gross[p] ELSE 0
  BY <1>1, <1>2, NoneApart DEF RowsOf, Books, Net
<1>5. settlement[p] \in {"pending", "processing"}
        <=> hold[p] = "release_pending" /\ settlement[p] # "failed"
  BY <1>1, <1>2, NoneApart DEF RowsOf, Decided, Approved, Outcome, SettlementStatus
<1>6. ledger[p].release = IF settlement[p] = "completed" THEN Net(p) ELSE 0
  BY <1>1 DEF RowsOf, Books, Outcome
<1> QED
  BY <1>2, <1>3, <1>4, <1>5, <1>6 DEF HeldRow

(* The staff's totals are the ledger's, for all amounts and any number of    *)
(* reconcilers (_protected_funds, dashboard_callback).                     *)
THEOREM TotalsAreRight == Spec => []TotalsAgree
<1>1. ASSUME \A p \in Payments : HeldRow(p) PROVE TotalsAgree
  <2>1. ActiveHolds = StillHeld
    BY <1>1 DEF HeldRow, ActiveHolds, StillHeld, Held
  <2>2. Total(LAMBDA p : Gross[p], StillHeld)
         = Total(LAMBDA p : ledger[p].customer_funds
                            - (ledger[p].release + ledger[p].fee), Payments)
    <3>1. [p \in Payments |-> IF p \in StillHeld THEN Gross[p] ELSE 0]
            = [p \in Payments |-> IF p \in Payments
                                  THEN ledger[p].customer_funds
                                       - (ledger[p].release + ledger[p].fee)
                                  ELSE 0]
      BY <1>1 DEF HeldRow, StillHeld, Held
    <3> QED
      BY <3>1 DEF Total
  <2>3. TotalHoldAmount = Total(LAMBDA p : ledger[p].customer_funds, Payments)
    <3>1. [p \in Payments |-> IF p \in Held THEN Gross[p] ELSE 0]
            = [p \in Payments |-> IF p \in Payments
                                  THEN ledger[p].customer_funds ELSE 0]
      BY <1>1 DEF HeldRow, Held
    <3> QED
      BY <3>1 DEF TotalHoldAmount, Total
  <2>4. PendingSettlements = {p \in Held : hold[p] = "release_pending"
                                          /\ settlement[p] # "failed"}
    BY <1>1, NoneApart DEF HeldRow, PendingSettlements, Held
  <2>5. TrustHolds = StillHeld
    BY <1>1 DEF HeldRow, TrustHolds, StillHeld, Held, HoldStatus
  <2>6. Stats.settlements = Total(LAMBDA p : ledger[p].release, Payments)
    <3>1. [p \in Payments |-> IF p \in {o \in Payments : settlement[o] = "completed"}
                              THEN Net(p) ELSE 0]
            = [p \in Payments |-> IF p \in Payments THEN ledger[p].release ELSE 0]
      BY <1>1 DEF HeldRow
    <3> QED
      BY <3>1 DEF Stats, Total
  <2> QED
    BY <2>1, <2>2, <2>3, <2>4, <2>5, <2>6 DEF TotalsAgree, Total
<1> QED
  BY <1>1, HeldRows, RailInvariant, PTL

(* With one reconciler every figure of the reports and of the dashboard      *)
(* agrees with the ledger and with the others.                             *)
THEOREM ReportsAreRight ==
  ASSUME \A r, s \in Reconcilers : r = s
  PROVE  Spec => []ReportsAgree
<1>1. ASSUME RailInv, TotalsAgree, StatusFollowsHold, CodeInv,
             \A p \in Payments : PageFits(p)
      PROVE  ReportsAgree
  <2>1. ASSUME NEW p \in Payments
        PROVE  /\ status[p] = "settled" <=> settlement[p] = "completed"
               /\ status[p] = "delivery_pending" <=> hold[p] = "delivery_pending"
               /\ status[p] \in {"release_pending", "settlement_processing",
                                 "settled"}
                    <=> Approved(p)
               /\ status[p] \in {"delivery_pending", "release_pending",
                                 "settlement_processing", "settled"}
                    <=> hold[p] # None /\ hold[p] # "disputed"
               /\ hold[p] = None => status[p] \in Unheld
               /\ status[p] = "disputed" <=> hold[p] = "disputed"
    <3>1. Outcome(p) /\ hold[p] \in HoldStatus \cup {None}
      BY <1>1 DEF RailInv, EscrowInv, TypeOK, OutcomesAreTold
    <3>2. /\ hold[p] = "delivery_pending" => status[p] = "delivery_pending"
          /\ hold[p] = "disputed" => status[p] = "disputed"
          /\ hold[p] = "release_pending" =>
               status[p] \in {"release_pending", "settlement_processing"}
          /\ hold[p] = "released" => status[p] = "settled"
          /\ hold[p] = None => status[p] \in Unheld
      BY <1>1, <3>1, NoneApart DEF StatusFollowsHold, HoldStatus, Unheld
    <3> QED
      BY <3>1, <3>2, NoneApart DEF Outcome, HoldStatus, Unheld, Approved
  <2>2. {p \in Payments : status[p] = "settled"}
          = {p \in Payments : settlement[p] = "completed"}
    BY <2>1
  <2>3. SettledCount = CompletedCount
    BY <2>2 DEF SettledCount, CompletedCount
  <2>4. Successful = {p \in Held : hold[p] # "disputed"}
    BY <2>1 DEF Successful, Held
  <2>5. ProtectedGroup \cup SettledGroup \cup ProcessingGroup \cup FailedGroup
          = {p \in Payments : hold[p] # "disputed"}
    <3>1. ASSUME NEW p \in Payments
          PROVE  status[p] \in
                   {"delivery_pending", "release_pending", "settled",
                    "alias_verified", "collection_pending", "awaiting_approval",
                    "processing", "settlement_processing",
                    "failed", "rejected", "cancelled"}
                   <=> hold[p] # "disputed"
      BY <2>1 DEF Unheld
    <3> QED
      BY <3>1 DEF ProtectedGroup, SettledGroup, ProcessingGroup, FailedGroup
  <2>6. Stats.volume = Total(LAMBDA p : ledger[p].customer_funds,
                             {p \in Payments : hold[p] # "disputed"})
    <3>1. \A p \in Payments : HeldRow(p)
      BY <1>1, HeldRows
    <3>2. [p \in Payments |-> IF p \in Successful THEN Gross[p] ELSE 0]
            = [p \in Payments |-> IF p \in {o \in Payments : hold[o] # "disputed"}
                                  THEN ledger[p].customer_funds ELSE 0]
      BY <2>4, <3>1 DEF HeldRow, Held
    <3> QED
      BY <3>2 DEF Stats, Total
  <2>7. PagesAreTrue
    <3>1. Eligible = {p \in Payments : hold[p] = "delivery_pending"}
      BY <2>1 DEF Eligible
    <3>2. ASSUME NEW p \in Payments
          PROVE  /\ TypeOK /\ RowsOf(p) /\ PageFits(p) /\ Told(p)
                 /\ CodeIsGuarded(p)
      BY <1>1 DEF RailInv, EscrowInv, EscrowState, OutcomesAreTold, CodeInv
    <3>3. ASSUME NEW p \in Payments, CanConfirm(p), p \notin Instant
          PROVE  CodeUsable(p)
      <4>1. coll[p] # None /\ hold[p] = "delivery_pending"
        BY <3>2, <3>3, NoneApart DEF CanConfirm, RowsOf, Collected
      <4> QED
        BY <3>2, <3>3, <4>1 DEF CanConfirm, CodeUsable, PageFits
    <3>4. ASSUME NEW p \in Payments
          PROVE  /\ UnavailableReason(p) = "delivery is confirmed" <=> confirmed[p]
                 /\ UnavailableReason(p) = "an investigation is open" <=> claims[p] > 0
      <4>1. /\ UnavailableReason(p) = "delivery is confirmed" <=> Approved(p)
            /\ UnavailableReason(p) = "an investigation is open"
                 <=> hold[p] = "disputed"
        BY <2>1 DEF UnavailableReason
      <4>2. confirmed[p] <=> Approved(p)
        BY <3>2, Zenon DEF RowsOf, Decided
      <4>3. claims[p] > 0 <=> hold[p] = "disputed"
        BY <3>2 DEF RowsOf, Decided
      <4> QED
        BY <4>1, <4>2, <4>3, Zenon
    <3>5. ASSUME NEW p \in Payments, status[p] \in Unpaid
          PROVE  hold[p] = None /\ emitted[p]["payment.failed"] = 1
      BY <2>1, <3>2, <3>5 DEF PageFits, Told, Unpaid
    <3>6. ASSUME NEW p \in Payments
          PROVE  /\ UnavailableReason(p) = "did not complete" =>
                      hold[p] = None /\ emitted[p]["payment.failed"] = 1
                 /\ Terminal(p) =>
                      hold[p] # None \/ emitted[p]["payment.failed"] = 1
      <4>1. UnavailableReason(p) = "did not complete" => status[p] \in Unpaid
        BY DEF UnavailableReason, Unpaid
      <4>2. Terminal(p) => \/ status[p] \in Unpaid
                           \/ hold[p] # None
        BY <2>1 DEF Terminal, Unpaid
      <4> QED
        BY <3>5, <4>1, <4>2
    <3> QED
      BY <3>1, <3>3, <3>4, <3>6 DEF PagesAreTrue
  <2> QED
    BY <1>1, <2>3, <2>4, <2>5, <2>6, <2>7 DEF ReportsAgree
<1> QED
  BY <1>1, RailInvariant, TotalsAreRight, StatusIsRight, CodeInvariant,
     PageInvariant, PTL
=============================================================================
