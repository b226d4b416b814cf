--------------------------- MODULE PaymentRecords ---------------------------
(***************************************************************************)
(* The rows AmatoPay keeps for one checkout payment, and the rows the      *)
(* payment rail (MobileCash) keeps for it.                                 *)
(*                                                                         *)
(* The components of AmatoPay share one PostgreSQL database and change it  *)
(* in transactions that lock the payment, gateway request or settlement    *)
(* row first.  So the components share these variables, and an action of   *)
(* a component module is one committed transaction; what a process reads   *)
(* before its transaction is a step and a variable of its own (polls,      *)
(* expiring).                                                              *)
(***************************************************************************)
EXTENDS Naturals, FiniteSets

CONSTANTS
  Payments,       \* the checkout payments, all of the alias flow
  Instant,        \* those with require_delivery_confirmation = False
  Reconcilers,    \* the processes running reconcile_gateway
  Late,           \* those whose session is viewed after its expires_at
  Gross,          \* Payment.amount, a function of the payment
  Fee,            \* Payment.fee_amount
  MaxAttempts,    \* MAX_RELEASE_CODE_ATTEMPTS
  RailStatus,     \* the normalized statuses the rail reports
  SyncStatus,     \* those it may already answer when an order is created
  MaxLost,        \* bound: orders per rail whose answer is lost
  None            \* no row

(* normalize_status passes a status it does not know through unchanged;   *)
(* "UNKNOWN" stands for all of those.                                      *)
Polled     == {"PENDING", "AWAITING_APPROVAL", "PROCESSING"}
Failures   == {"REJECTED", "FAILED", "CANCELLED"}
AnyStatus  == Polled \cup Failures \cup {"COMPLETED", "UNKNOWN"}

PaymentStatus ==
  {"alias_verified", "collection_pending", "awaiting_approval", "processing",
   "delivery_pending", "disputed", "release_pending", "settlement_processing",
   "settled", "rejected", "failed", "cancelled"}
SessionStatus ==
  {"alias_verified", "awaiting_payment", "completed", "failed", "expired"}
HoldStatus    == {"delivery_pending", "disputed", "release_pending", "released"}
SettlementStatus == {"pending", "processing", "completed", "failed"}
EntryKind     == {"customer_funds", "release", "fee"}
EventType     ==
  {"payment.paid", "payment.failed", "payment.disputed", "delivery.confirmed",
   "settlement.completed", "settlement.failed"}
Decision      == {"confirmed", "disputed"}      \* of a DeliveryConfirmation
DeliveryStatus == {"delivered", "failed"}       \* those the payer can cause

ASSUME RecordsAssumption ==
  /\ Instant \subseteq Payments /\ Late \subseteq Payments
  /\ Gross \in [Payments -> Nat] /\ Fee \in [Payments -> Nat]
  /\ \A p \in Payments : Fee[p] < Gross[p]        \* ck_payment_fee_valid
  /\ MaxAttempts \in Nat \ {0}
  /\ RailStatus \subseteq AnyStatus /\ SyncStatus \subseteq RailStatus
  /\ MaxLost \in Nat
  /\ None \notin AnyStatus \cup HoldStatus \cup SettlementStatus
                 \cup Decision \cup DeliveryStatus

VARIABLES
  status,         \* Payment.status
  hasCode,        \* Payment.release_code_hash is set (and the ciphertext copy)
  attempts,       \* Payment.release_code_failed_attempts
  locked,         \* Payment.release_code_locked_at is set
  confirmed,      \* Payment.release_code_confirmed_at is set
  session,        \* PaymentSession.status
  expiring,       \* a page view has read the session as past expires_at
  coll,           \* status of the payment's collection GatewayRequest
  collEvents,     \* statuses of the collection's GatewayCallback rows
  hold,           \* FundHold.status
  ledger,         \* FiduciaryEntry: amount posted per kind of entry
  delivery,       \* Delivery.status
  decision,       \* DeliveryConfirmation.decision
  claims,         \* number of ProtectionClaim rows
  settlement,     \* Settlement.status
  p2p,            \* status of the settlement's P2P GatewayRequest
  p2pEvents,      \* event ids of the payout's GatewayCallback rows
  emitted,        \* number of WebhookEvent rows per type
  polls,          \* reconcilers between reading a request and applying its poll
  railColl,       \* the rail's status of the collection AmatoPay recorded
  railP2P,        \* the rail's status of the payout AmatoPay recorded
  collOrders,     \* collections the rail has accepted for the payment
  p2pOrders       \* payouts the rail has accepted for the payment

codeVars     == <<hasCode, attempts, locked, confirmed>>
sessionVars  == <<session, expiring>>
collVars     == <<coll, collEvents>>
fundVars     == <<hold, ledger>>
deliveryVars == <<delivery, decision, claims>>
payoutVars   == <<settlement, p2p, p2pEvents>>
railVars     == <<railColl, railP2P, collOrders, p2pOrders>>
vars == <<status, codeVars, sessionVars, collVars, fundVars, deliveryVars,
          payoutVars, emitted, polls, railVars>>

-----------------------------------------------------------------------------
(* A reconciler working on one request: the status it read with the        *)
(* request, and what the rail answered (None: it has not asked yet).       *)
Poll == [by : Reconcilers, rail : {"collection", "p2p"}, payment : Payments,
         seen : AnyStatus, result : AnyStatus \cup {None}]

Net(p) == Gross[p] - Fee[p]

(* emit_event: one more WebhookEvent of each of these types about the      *)
(* payment.                                                                *)
Emit(p, types) ==
  emitted' = [emitted EXCEPT ![p] =
    [t \in EventType |-> emitted[p][t] + (IF t \in types THEN 1 ELSE 0)]]

-----------------------------------------------------------------------------
(* The state create_checkout_session commits: the alias is verified, the   *)
(* session and the payment exist, nothing has been sent to the rail.       *)
Init ==
  /\ status     = [p \in Payments |-> "alias_verified"]
  /\ hasCode    = [p \in Payments |-> FALSE]
  /\ attempts   = [p \in Payments |-> 0]
  /\ locked     = [p \in Payments |-> FALSE]
  /\ confirmed  = [p \in Payments |-> FALSE]
  /\ session    = [p \in Payments |-> "alias_verified"]
  /\ expiring   = [p \in Payments |-> FALSE]
  /\ coll       = [p \in Payments |-> None]
  /\ collEvents = [p \in Payments |-> {}]
  /\ hold       = [p \in Payments |-> None]
  /\ ledger     = [p \in Payments |-> [k \in EntryKind |-> 0]]
  /\ delivery   = [p \in Payments |-> None]
  /\ decision   = [p \in Payments |-> None]
  /\ claims     = [p \in Payments |-> 0]
  /\ settlement = [p \in Payments |-> None]
  /\ p2p        = [p \in Payments |-> None]
  /\ p2pEvents  = [p \in Payments |-> {}]
  /\ emitted    = [p \in Payments |-> [t \in EventType |-> 0]]
  /\ polls      = {}
  /\ railColl   = [p \in Payments |-> None]
  /\ railP2P    = [p \in Payments |-> None]
  /\ collOrders = [p \in Payments |-> 0]
  /\ p2pOrders  = [p \in Payments |-> 0]
=============================================================================
