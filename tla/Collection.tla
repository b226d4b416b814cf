----------------------------- MODULE Collection -----------------------------
(***************************************************************************)
(* The collection of a payment: process_pending_payments submits it to the *)
(* rail, and apply_collection_status applies what a poll of the rail       *)
(* returned (apps/payments/services.py, apps/gateway/services.py).         *)
(***************************************************************************)
EXTENDS Escrow

(* submit_checkout_payment_collection locks the payment and looks for its  *)
(* collection; the session is not looked at.                               *)
Submittable(p) == coll[p] = None /\ status[p] = "alias_verified"

(* The rail accepts the order with status s and the transaction commits.   *)
(* A refusal by the rail changes nothing.                                  *)
SubmitCollection(p, s) ==
  /\ Submittable(p)
  /\ collOrders' = [collOrders EXCEPT ![p] = @ + 1]
  /\ railColl'   = [railColl EXCEPT ![p] = s]
  /\ coll'       = [coll EXCEPT ![p] = s]
  /\ hasCode'    = [hasCode EXCEPT ![p] = p \notin Instant]
  /\ attempts'   = [attempts EXCEPT ![p] = 0]
  /\ locked'     = [locked EXCEPT ![p] = FALSE]
  /\ confirmed'  = [confirmed EXCEPT ![p] = FALSE]
  /\ status'     = [status EXCEPT ![p] = "collection_pending"]
  /\ session'    = [session EXCEPT ![p] = "awaiting_payment"]
  /\ UNCHANGED <<expiring, collEvents, fundVars, deliveryVars, payoutVars,
                 emitted, polls, railP2P, p2pOrders>>

(* The rail accepts the order, but its answer is lost or names no trxRef,  *)
(* or the process dies before the commit: the transaction rolls back, and  *)
(* the next try sends an order with a new request id.                      *)
LoseCollection(p) ==
  /\ Submittable(p)
  /\ collOrders[p] < MaxLost
  /\ collOrders' = [collOrders EXCEPT ![p] = @ + 1]
  /\ UNCHANGED <<status, codeVars, sessionVars, collVars, fundVars,
                 deliveryVars, payoutVars, emitted, polls, railColl, railP2P,
                 p2pOrders>>

-----------------------------------------------------------------------------
(* Mutants of KnownEvent: callbacks are not looked up; or looked up by the  *)
(* order alone, not by order and status.                                   *)
NoEventIsKnown(p, s) == FALSE
AnyEventIsKnown(p, s) == collEvents[p] # {}

(* apply_collection_status returns at once when a GatewayCallback has the  *)
(* event id, which is made of the order and the status.                    *)
KnownEvent(p, s) == s \in collEvents[p]

(* recover_collection_status for the answer of poll q.  The collection row *)
(* is locked by its reference; the status it has now is not looked at.     *)
Applying(q) ==
  /\ q \in polls
  /\ q.rail = "collection"
  /\ q.result # None
  /\ polls' = polls \ {q}

Record(q) ==
  /\ ~KnownEvent(q.payment, q.result)
  /\ collEvents' = [collEvents EXCEPT ![q.payment] = @ \cup {q.result}]
  /\ coll'       = [coll EXCEPT ![q.payment] = q.result]

(* A known event, or a status the mapping lacks: KeyError, rolled back.    *)
SkipCollection(q) ==
  /\ Applying(q)
  /\ \/ KnownEvent(q.payment, q.result)
     \/ q.result = "UNKNOWN"
  /\ UNCHANGED <<status, codeVars, sessionVars, collVars, fundVars,
                 deliveryVars, payoutVars, emitted, railVars>>

OpenStatus == [PENDING           |-> "collection_pending",
               AWAITING_APPROVAL |-> "awaiting_approval",
               PROCESSING        |-> "processing"]

ApplyOpenCollection(q) ==
  LET p == q.payment IN
  /\ Applying(q)
  /\ q.result \in Polled
  /\ Record(q)
  /\ status' = [status EXCEPT ![p] = OpenStatus[q.result]]
  /\ UNCHANGED <<codeVars, sessionVars, fundVars, deliveryVars, payoutVars,
                 emitted, railVars>>

FailedStatus == [REJECTED |-> "rejected", FAILED |-> "failed",
                 CANCELLED |-> "cancelled"]

(* Mutant of FailCollection: the session is closed as a completed one.     *)
FailAndCompleteSession(q) ==
  LET p == q.payment IN
  /\ Applying(q)
  /\ q.result \in Failures
  /\ Record(q)
  /\ status'  = [status EXCEPT ![p] = FailedStatus[q.result]]
  /\ session' = [session EXCEPT ![p] = "completed"]
  /\ Emit(p, {"payment.failed"})
  /\ UNCHANGED <<codeVars, expiring, fundVars, deliveryVars, payoutVars,
                 railVars>>

FailCollection(q) ==
  LET p == q.payment IN
  /\ Applying(q)
  /\ q.result \in Failures
  /\ Record(q)
  /\ status'  = [status EXCEPT ![p] = FailedStatus[q.result]]
  /\ session' = [session EXCEPT ![p] = "failed"]
  /\ Emit(p, {"payment.failed"})
  /\ UNCHANGED <<codeVars, expiring, fundVars, deliveryVars, payoutVars,
                 railVars>>

(* A completed collection: funds held, session completed, payment.paid.    *)
Complete(q) ==
  LET p == q.payment IN
  /\ Applying(q)
  /\ q.result = "COMPLETED"
  /\ Record(q)
  /\ Credit(p)
  /\ session' = [session EXCEPT ![p] = "completed"]
  /\ UNCHANGED <<expiring, attempts, locked, claims, p2p, p2pEvents, railVars>>

(* The payment stays held: a protected one waits for its code, an instant  *)
(* one had its release deferred (no destination; the savepoint rolls back).*)
CompleteAndHold(q) ==
  LET p == q.payment IN
  /\ Complete(q)
  /\ Hold(p)
  /\ Emit(p, {"payment.paid"})
  /\ UNCHANGED <<hasCode, confirmed, delivery, decision, settlement>>

(* An instant payment is confirmed and released in the same transaction.   *)
CompleteAndRelease(q) ==
  LET p == q.payment IN
  /\ Complete(q)
  /\ p \in Instant /\ ~confirmed[p]
  /\ Release(p)
  /\ Emit(p, {"payment.paid"} \cup ReleaseEvents(p))
=============================================================================
