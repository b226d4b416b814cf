------------------------------- MODULE Payout -------------------------------
(***************************************************************************)
(* The merchant payout: start_merchant_payout orders it from the rail,     *)
(* apply_p2p_status settles or fails it (apps/gateway/services.py).        *)
(***************************************************************************)
EXTENDS PaymentRecords

(* Mutants of Payable: no look at an existing payout; none at the hold, nor *)
(* at the settlement it goes with; only settlements that failed.           *)
PayableAgain(p) ==
  settlement[p] \in {"pending", "failed"} /\ hold[p] = "release_pending"
PayableOnceHeld(p) == p2p[p] = None /\ hold[p] # None
PayableOnFailure(p) == PayableAgain(p) /\ settlement[p] = "failed" /\ p2p[p] = None

(* start_merchant_payout's guard, under the locks of the settlement and    *)
(* the payment.  It runs after the commit of a release and in every cycle  *)
(* of a reconciler.                                                        *)
Payable(p) ==
  /\ p2p[p] = None
  /\ settlement[p] \in {"pending", "failed"}
  /\ hold[p] = "release_pending"

(* apply_p2p_status on COMPLETED.  get_or_create posts each debit once.    *)
Settle(p) ==
  /\ settlement' = [settlement EXCEPT ![p] = "completed"]
  /\ hold'       = [hold EXCEPT ![p] = "released"]
  /\ ledger'     = [ledger EXCEPT
                      ![p].release = IF @ = 0 THEN Net(p) ELSE @,
                      ![p].fee     = IF @ = 0 THEN Fee[p] ELSE @]
  /\ status'     = [status EXCEPT ![p] = "settled"]
  /\ Emit(p, {"settlement.completed"})

(* The rail accepts the order with status s and the transaction commits.   *)
OrderPayout(p, s) ==
  /\ Payable(p)
  /\ p2pOrders' = [p2pOrders EXCEPT ![p] = @ + 1]
  /\ railP2P'   = [railP2P EXCEPT ![p] = s]
  /\ p2p'       = [p2p EXCEPT ![p] = s]
  /\ UNCHANGED <<codeVars, sessionVars, collVars, deliveryVars, polls, railColl,
                 collOrders>>

StartPayout(p, s) ==
  /\ s # "COMPLETED"
  /\ OrderPayout(p, s)
  /\ settlement' = [settlement EXCEPT ![p] = "processing"]
  /\ status'     = [status EXCEPT ![p] = "settlement_processing"]
  /\ UNCHANGED <<p2pEvents, fundVars, emitted>>

(* A rail that answers COMPLETED settles in the same transaction.          *)
StartAndSettle(p) ==
  /\ "COMPLETED" \in SyncStatus
  /\ OrderPayout(p, "COMPLETED")
  /\ p2pEvents' = [p2pEvents EXCEPT ![p] = @ \cup {<<"sync", "COMPLETED">>}]
  /\ Settle(p)

(* The order is accepted, its answer lost or without a trxRef, or the      *)
(* commit never reached.                                                   *)
LosePayout(p) ==
  /\ Payable(p)
  /\ p2pOrders[p] < MaxLost
  /\ p2pOrders' = [p2pOrders EXCEPT ![p] = @ + 1]
  /\ UNCHANGED <<status, codeVars, sessionVars, collVars, fundVars,
                 deliveryVars, payoutVars, emitted, polls, railColl, railP2P,
                 collOrders>>

-----------------------------------------------------------------------------
(* Mutants of KnownPayoutEvent, as of KnownEvent in Collection.            *)
NoPayoutEventIsKnown(p, s) == FALSE
AnyPayoutEventIsKnown(p, s) == p2pEvents[p] # {}

(* recover_p2p_status for the answer of poll q.                            *)
KnownPayoutEvent(p, s) == <<"poll", s>> \in p2pEvents[p]

ApplyingPayout(q) ==
  /\ q \in polls
  /\ q.rail = "p2p"
  /\ q.result # None
  /\ polls' = polls \ {q}

RecordPayout(q) ==
  /\ ~KnownPayoutEvent(q.payment, q.result)
  /\ p2pEvents' = [p2pEvents EXCEPT ![q.payment] =
                     @ \cup {<<"poll", q.result>>}]
  /\ p2p'       = [p2p EXCEPT ![q.payment] = q.result]

SkipPayout(q) ==
  /\ ApplyingPayout(q)
  /\ KnownPayoutEvent(q.payment, q.result)
  /\ UNCHANGED <<status, codeVars, sessionVars, collVars, fundVars,
                 deliveryVars, payoutVars, emitted, railVars>>

(* Mutant of ApplyOpenPayout: an open status sets the settlement back.     *)
ReopenPayout(q) ==
  /\ ApplyingPayout(q)
  /\ q.result \in Polled \cup {"UNKNOWN"}
  /\ RecordPayout(q)
  /\ settlement' = [settlement EXCEPT ![q.payment] = "processing"]
  /\ UNCHANGED <<status, codeVars, sessionVars, collVars, fundVars,
                 deliveryVars, emitted, railVars>>

(* Any status but COMPLETED and the failures, also one AmatoPay does not   *)
(* know, changes the gateway request only.                                 *)
ApplyOpenPayout(q) ==
  /\ ApplyingPayout(q)
  /\ q.result \in Polled \cup {"UNKNOWN"}
  /\ RecordPayout(q)
  /\ UNCHANGED <<status, codeVars, sessionVars, collVars, fundVars,
                 deliveryVars, settlement, emitted, railVars>>

CompletePayout(q) ==
  /\ ApplyingPayout(q)
  /\ q.result = "COMPLETED"
  /\ RecordPayout(q)
  /\ Settle(q.payment)
  /\ UNCHANGED <<codeVars, sessionVars, collVars, deliveryVars, railVars>>

FailPayout(q) ==
  LET p == q.payment IN
  /\ ApplyingPayout(q)
  /\ q.result \in Failures
  /\ RecordPayout(q)
  /\ settlement' = [settlement EXCEPT ![p] = "failed"]
  /\ Emit(p, {"settlement.failed"})
  /\ UNCHANGED <<status, codeVars, sessionVars, collVars, fundVars,
                 deliveryVars, railVars>>
=============================================================================
