------------------------------- MODULE Escrow -------------------------------
(***************************************************************************)
(* The fiduciary hold and what may end it: the payer's secure release code *)
(* (apps/deliveries/services.py, apps/fiduciary/services.py).              *)
(*                                                                         *)
(* Credit, Hold and Release are what hold_funds and release_hold change;   *)
(* Collection uses them too, since a completed collection holds the funds  *)
(* and an instant-settlement payment is confirmed in the same transaction. *)
(***************************************************************************)
EXTENDS PaymentRecords

(* hold_funds: get_or_create the hold, and post the credit only when the   *)
(* hold is new.                                                            *)
Credit(p) ==
  ledger' = [ledger EXCEPT ![p].customer_funds =
               IF hold[p] = None THEN @ + Gross[p] ELSE @]

Hold(p) ==
  /\ hold'   = [hold EXCEPT ![p] = IF @ = None THEN "delivery_pending" ELSE @]
  /\ status' = [status EXCEPT ![p] = "delivery_pending"]

(* Mutant of Release: the money leaves at the confirmation, not when the    *)
(* payout completes.                                                       *)
ReleaseAtOnce(p) ==
  /\ delivery'   = [delivery EXCEPT ![p] = "delivered"]
  /\ decision'   = [decision EXCEPT ![p] = IF @ = None THEN "confirmed" ELSE @]
  /\ confirmed'  = [confirmed EXCEPT ![p] = TRUE]
  /\ hasCode'    = [hasCode EXCEPT ![p] = FALSE]
  /\ hold'       = [hold EXCEPT ![p] = "released"]
  /\ status'     = [status EXCEPT ![p] = "release_pending"]
  /\ settlement' = [settlement EXCEPT ![p] = IF @ = None THEN "pending" ELSE @]

(* The confirmation both kinds of payment share: delivery and decision,    *)
(* release code erased, hold confirmed and released for payout, settlement *)
(* created.  It runs under the payment's row lock.                         *)
Release(p) ==
  /\ delivery'   = [delivery EXCEPT ![p] = "delivered"]
  /\ decision'   = [decision EXCEPT ![p] = IF @ = None THEN "confirmed" ELSE @]
  /\ confirmed'  = [confirmed EXCEPT ![p] = TRUE]
  /\ hasCode'    = [hasCode EXCEPT ![p] = FALSE]
  /\ hold'       = [hold EXCEPT ![p] = "release_pending"]
  /\ status'     = [status EXCEPT ![p] = "release_pending"]
  /\ settlement' = [settlement EXCEPT ![p] = IF @ = None THEN "pending" ELSE @]

(* emit_event runs only if this call created the DeliveryConfirmation.     *)
ReleaseEvents(p) == IF decision[p] = None THEN {"delivery.confirmed"} ELSE {}

-----------------------------------------------------------------------------
(* Mutant of CodeUsable: the lock is not looked at.                        *)
CodeUsableThoughLocked(p) == status[p] = "delivery_pending" /\ hasCode[p]

(* The guard of both public operations on a held payment.                  *)
CodeUsable(p) ==
  /\ status[p] = "delivery_pending"
  /\ ~locked[p]
  /\ hasCode[p]

(* confirm_delivery_with_code with the right code, for a merchant with a   *)
(* verified destination (without one the call changes nothing).            *)
ConfirmWithCode(p) ==
  /\ ~confirmed[p]
  /\ CodeUsable(p)
  /\ Release(p)
  /\ Emit(p, ReleaseEvents(p))
  /\ UNCHANGED <<attempts, locked, sessionVars, collVars, ledger, claims, p2p,
                 p2pEvents, polls, railVars>>

(* Mutant of WrongCode: > for >=, one attempt too many.                    *)
WrongCodeLockedLate(p) ==
  /\ CodeUsable(p)
  /\ attempts' = [attempts EXCEPT ![p] = @ + 1]
  /\ locked'   = IF attempts[p] + 1 > MaxAttempts
                 THEN [locked EXCEPT ![p] = TRUE] ELSE locked
  /\ UNCHANGED <<status, hasCode, confirmed, sessionVars, collVars, fundVars,
                 deliveryVars, payoutVars, emitted, polls, railVars>>

(* A wrong code, given to confirm or to a claim.                           *)
WrongCode(p) ==
  /\ CodeUsable(p)
  /\ attempts' = [attempts EXCEPT ![p] = @ + 1]
  /\ locked'   = IF attempts[p] + 1 >= MaxAttempts
                 THEN [locked EXCEPT ![p] = TRUE] ELSE locked
  /\ UNCHANGED <<status, hasCode, confirmed, sessionVars, collVars, fundVars,
                 deliveryVars, payoutVars, emitted, polls, railVars>>

(* Mutant of OpenClaim: the hold is frozen, the payment left as it was.     *)
OpenClaimOnHoldOnly(p) ==
  /\ CodeUsable(p)
  /\ delivery' = [delivery EXCEPT ![p] = "failed"]
  /\ decision' = [decision EXCEPT ![p] = IF @ = None THEN "disputed" ELSE @]
  /\ claims'   = [claims EXCEPT ![p] = @ + 1]
  /\ hold'     = [hold EXCEPT ![p] = "disputed"]
  /\ Emit(p, {"payment.disputed"})
  /\ UNCHANGED <<status, codeVars, sessionVars, collVars, ledger, payoutVars,
                 polls, railVars>>

(* open_customer_delivery_claim with the right code freezes the hold.      *)
OpenClaim(p) ==
  /\ CodeUsable(p)
  /\ delivery' = [delivery EXCEPT ![p] = "failed"]
  /\ decision' = [decision EXCEPT ![p] = IF @ = None THEN "disputed" ELSE @]
  /\ claims'   = [claims EXCEPT ![p] = @ + 1]
  /\ status'   = [status EXCEPT ![p] = "disputed"]
  /\ hasCode'  = [hasCode EXCEPT ![p] = FALSE]
  /\ hold'     = [hold EXCEPT ![p] = "disputed"]
  /\ Emit(p, {"payment.disputed"})
  /\ UNCHANGED <<attempts, locked, confirmed, sessionVars, collVars, ledger,
                 payoutVars, polls, railVars>>

(* Mutant of InstantReleasable: the candidate is not checked again.        *)
InstantUnchecked(p) == p \in Instant /\ ~confirmed[p]

(* retry_pending_instant_settlements: a reconciler releases an instant     *)
(* payment whose release was deferred; confirm_delivery_instant checks the *)
(* candidate again under the payment's lock.                               *)
InstantReleasable(p) ==
  /\ p \in Instant
  /\ status[p] = "delivery_pending"
  /\ ~confirmed[p]

RetryInstant(p) ==
  /\ InstantReleasable(p)
  /\ Release(p)
  /\ Emit(p, ReleaseEvents(p))
  /\ UNCHANGED <<attempts, locked, sessionVars, collVars, ledger, claims, p2p,
                 p2pEvents, polls, railVars>>
=============================================================================
