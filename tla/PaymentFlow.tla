---------------------------- MODULE PaymentFlow -----------------------------
(***************************************************************************)
(* The life of a checkout payment, from the verified alias to the payout:  *)
(* the components composed over the database they share, with the payer,   *)
(* the reconcilers and the rail interleaved.                               *)
(***************************************************************************)
EXTENDS Collection, Payout, Reconciler, CheckoutSession

Checkout(p) ==
  \/ \E s \in SyncStatus : SubmitCollection(p, s)
  \/ LoseCollection(p)
  \/ ViewExpired(p)
  \/ ExpireSession(p)

Payer(p) == ConfirmWithCode(p) \/ WrongCode(p) \/ OpenClaim(p)

OrderingPayout(p) ==
  \/ \E s \in SyncStatus : StartPayout(p, s)
  \/ StartAndSettle(p)

ApplyPoll(q) ==
  \/ SkipCollection(q)
  \/ ApplyOpenCollection(q)
  \/ FailCollection(q)
  \/ CompleteAndHold(q)
  \/ CompleteAndRelease(q)
  \/ SkipPayout(q)
  \/ ApplyOpenPayout(q)
  \/ CompletePayout(q)
  \/ FailPayout(q)

Reconcile ==
  \/ \E r \in Reconcilers :
       \/ \E batch \in SUBSET DueCollections : ReadCollections(r, batch)
       \/ \E batch \in SUBSET DuePayouts : ReadPayouts(r, batch)
  \/ \E q \in polls : Ask(q) \/ DropPoll(q) \/ ApplyPoll(q)
  \/ \E p \in Payments :
       RetryInstant(p) \/ OrderingPayout(p) \/ LosePayout(p)

Rail == \E p \in Payments : RailAdvancesCollection(p) \/ RailAdvancesPayout(p)

Next == (\E p \in Payments : Checkout(p) \/ Payer(p)) \/ Reconcile \/ Rail

Spec == Init /\ [][Next]_vars

-----------------------------------------------------------------------------
TypeOK ==
  /\ status     \in [Payments -> PaymentStatus]
  /\ hasCode    \in [Payments -> BOOLEAN]
  /\ attempts   \in [Payments -> 0..MaxAttempts]
  /\ locked     \in [Payments -> BOOLEAN]
  /\ confirmed  \in [Payments -> BOOLEAN]
  /\ session    \in [Payments -> SessionStatus]
  /\ expiring   \in [Payments -> BOOLEAN]
  /\ coll       \in [Payments -> AnyStatus \cup {None}]
  /\ collEvents \in [Payments -> SUBSET AnyStatus]
  /\ hold       \in [Payments -> HoldStatus \cup {None}]
  /\ ledger     \in [Payments -> [EntryKind -> Nat]]
  /\ delivery   \in [Payments -> DeliveryStatus \cup {None}]
  /\ decision   \in [Payments -> Decision \cup {None}]
  /\ claims     \in [Payments -> Nat]
  /\ settlement \in [Payments -> SettlementStatus \cup {None}]
  /\ p2p        \in [Payments -> AnyStatus \cup {None}]
  /\ p2pEvents  \in [Payments -> SUBSET ({"sync", "poll"} \X AnyStatus)]
  /\ emitted    \in [Payments -> [EventType -> Nat]]
  /\ polls      \subseteq Poll
  /\ railColl   \in [Payments -> AnyStatus \cup {None}]
  /\ railP2P    \in [Payments -> AnyStatus \cup {None}]
  /\ collOrders \in [Payments -> Nat]
  /\ p2pOrders  \in [Payments -> Nat]

(* The fiduciary ledger balances at every commit: a payment's gross is     *)
(* credited exactly when its hold exists, and its debits are none until    *)
(* the release and the whole gross from then on (FEES_AND_SETTLEMENT.md),  *)
(* whatever the reconcilers repeat or overtake.                            *)
LedgerBalanced ==
  \A p \in Payments :
    /\ ledger[p].customer_funds = IF hold[p] = None THEN 0 ELSE Gross[p]
    /\ ledger[p].release = IF hold[p] = "released" THEN Net(p) ELSE 0
    /\ ledger[p].fee = IF hold[p] = "released" THEN Fee[p] ELSE 0

(* AmatoPay books no money the rail did not move: funds are held only for  *)
(* a collection the rail completed, and released, settled or reported as   *)
(* settled only for a payout the rail completed.                           *)
BackedByTheRail ==
  \A p \in Payments :
    /\ hold[p] # None => railColl[p] = "COMPLETED"
    /\ (hold[p] = "released" \/ settlement[p] = "completed" \/ status[p] = "settled")
         => railP2P[p] = "COMPLETED"

(* A payer's claim freezes the money for good: the hold stays disputed,    *)
(* no settlement is created and no payout is ever ordered.                 *)
DisputedFundsStay ==
  \A p \in Payments :
    claims[p] > 0 =>
      /\ claims[p] = 1
      /\ hold[p] = "disputed"
      /\ settlement[p] = None
      /\ p2pOrders[p] = 0
      /\ ~confirmed[p]

(* The rail is asked for a payout only for a payment whose delivery was    *)
(* confirmed and whose hold was approved, not for one merely collected.    *)
PayoutNeedsConfirmation ==
  \A p \in Payments :
    p2pOrders[p] > 0 =>
      /\ confirmed[p] /\ decision[p] = "confirmed" /\ delivery[p] = "delivered"
      /\ settlement[p] # None
      /\ hold[p] \in {"release_pending", "released"}

(* A payment that offers the payer's two operations is one whose funds are *)
(* held and undecided, also while reconcilers overwrite its status.        *)
OfferedFundsAreHeld ==
  \A p \in Payments :
    status[p] = "delivery_pending" =>
      /\ hold[p] = "delivery_pending"
      /\ ~confirmed[p] /\ claims[p] = 0 /\ settlement[p] = None

(* The release code is spent by its first use, and a code that reached the *)
(* limit of wrong attempts is locked, no sooner and no later.              *)
CodeSpent ==
  \A p \in Payments :
    /\ confirmed[p] \/ claims[p] > 0 => ~hasCode[p]
    /\ locked[p] <=> attempts[p] = MaxAttempts

(* Once the code of a payment is locked, nothing the payer does releases   *)
(* or disputes its funds, and no later step unlocks it.                    *)
LockedFundsStay ==
  [][\A p \in Payments :
       locked[p] => locked'[p] /\ hold'[p] = hold[p]
                    /\ settlement'[p] = settlement[p]]_vars

(* The merchant hears of each fact exactly once, and never of two that     *)
(* exclude each other (paid and failed, confirmed and disputed, settlement *)
(* completed and failed).                                                  *)
EventsTellTheTruth ==
  \A p \in Payments :
    LET sent(t) == emitted[p][t] IN
    /\ sent("payment.paid") = IF hold[p] = None THEN 0 ELSE 1
    /\ sent("payment.failed") <= 1
    /\ sent("payment.failed") = 1 => hold[p] = None
    /\ sent("delivery.confirmed") = IF confirmed[p] THEN 1 ELSE 0
    /\ sent("payment.disputed") = claims[p]
    /\ sent("settlement.completed") = IF hold[p] = "released" THEN 1 ELSE 0
    /\ sent("settlement.failed") = IF settlement[p] = "failed" THEN 1 ELSE 0

(* The checkout session says completed only of a payment whose funds are   *)
(* held, and failed only of one whose funds were never received.           *)
SessionTellsTheTruth ==
  \A p \in Payments :
    /\ session[p] = "completed" => hold[p] # None
    /\ session[p] = "failed" => hold[p] = None

(* A settlement that completed or failed stays so, whatever polls of it    *)
(* are still under way.                                                    *)
SettlementIsFinal ==
  [][\A p \in Payments :
       settlement[p] \in {"completed", "failed"} =>
         settlement'[p] = settlement[p]]_vars

(* With one reconciler the payment's status never contradicts its hold:    *)
(* an answer of the rail is applied in the order the rail gave it.         *)
StatusFollowsHold ==
  \A p \in Payments :
    status[p] \in
      CASE hold[p] = "delivery_pending" -> {"delivery_pending"}
        [] hold[p] = "disputed"         -> {"disputed"}
        [] hold[p] = "release_pending"  ->
             IF p2p[p] = None THEN {"release_pending"}
             ELSE {"settlement_processing"}
        [] hold[p] = "released"         -> {"settled"}
        [] OTHER -> {"alias_verified", "collection_pending",
                     "awaiting_approval", "processing", "rejected", "failed",
                     "cancelled"}

(* While no answer of the rail is lost, any number of submitters and       *)
(* reconcilers order at most one collection and one payout per payment.    *)
OneOrderEach ==
  \A p \in Payments : collOrders[p] <= 1 /\ p2pOrders[p] <= 1

-----------------------------------------------------------------------------
(* The escrow as a merchant and a payer may rely on it.                    *)
FundOf(p) ==
  CASE hold[p] = "delivery_pending" -> "held"
    [] hold[p] = "disputed"         -> "disputed"
    [] hold[p] = "release_pending"  -> "approved"
    [] hold[p] = "released"         -> "released"
    [] OTHER                        -> "none"

Contract == INSTANCE EscrowContract WITH
  fund     <- [p \in Payments |-> FundOf(p)],
  inTrust  <- [p \in Payments |-> ledger[p].customer_funds
                                  - (ledger[p].release + ledger[p].fee)],
  merchant <- [p \in Payments |-> ledger[p].release],
  kept     <- [p \in Payments |-> ledger[p].fee]

(* Every step of the program is a step of the escrow's contract or changes *)
(* nothing the contract sees.                                              *)
KeepsTheContract == Contract!ContractSpec

-----------------------------------------------------------------------------
(* docs/GATEWAY_INTEGRATION.md: "repeated polling is idempotent".  A       *)
(* payment whose funds are held is not collecting again.                   *)
HeldIsNotCollecting ==
  \A p \in Payments :
    hold[p] # None =>
      status[p] \notin {"collection_pending", "awaiting_approval", "processing"}

(* docs/API_DESIGN.md: "Every external money-moving request [...] must be  *)
(* idempotent".  Retrying a payout does not order a second one.            *)
OnePayoutOrder == \A p \in Payments : p2pOrders[p] <= 1

(* docs/PRODUCTION_READINESS.md: "expired [...] payment starts are         *)
(* rejected".  No collection is started for an expired session.            *)
ExpiredStartsAreRejected ==
  [][\A p \in Payments :
       session[p] = "expired" /\ coll[p] = None => coll'[p] = None]_vars
=============================================================================
