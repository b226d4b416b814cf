------------------------------- MODULE Reports -------------------------------
(* What the pages say of the payments: to the staff, the compliance reports, *)
(* the administrator's dashboard and the list of fiduciary accounts; to the  *)
(* merchant, the portal; to the payer, the checkout and the delivery page.   *)
(* Each of them selects rows by lists of statuses of its own.                *)
EXTENDS Escrow
LOCAL INSTANCE Functions

Sum(amounts) == SumFunction(amounts)

(* The sum of a column over the rows a filter selects.                       *)
Total(amount(_), ps) ==
  Sum([p \in Payments |-> IF p \in ps THEN amount(p) ELSE 0])

Held == {p \in Payments : hold[p] # None}

-----------------------------------------------------------------------------
(* Mutant: the report lists the statuses that hold money, without disputes.  *)
StillHeldUndisputed ==
  {p \in Held : hold[p] \in {"delivery_pending", "release_pending"}}

(* The report "Protected funds" leaves out what was released.                *)
StillHeld == {p \in Held : hold[p] # "released"}

(* The dashboard's "Funds protected" names the statuses it counts.           *)
ActiveHolds ==
  {p \in Held : hold[p] \in {"delivery_pending", "disputed", "release_pending"}}

(* "Total held amount" of an account, in the list of fiduciary accounts: it  *)
(* sums the holds whatever their status.                                     *)
TotalHoldAmount == Total(LAMBDA p : Gross[p], Held)

(* The reports "Transactions" and "Settlements" count what is done.          *)
SettledCount   == Cardinality({p \in Payments : status[p] = "settled"})
CompletedCount == Cardinality({p \in Payments : settlement[p] = "completed"})

(* The dashboard's payouts to come.                                          *)
PendingSettlements ==
  {p \in Payments : settlement[p] \in {"pending", "processing"}}

(* The payments whose volume and fees the dashboard adds up.                 *)
Successful ==
  {p \in Payments : status[p] \in {"delivery_pending", "release_pending",
                                   "settlement_processing", "settled"}}

(* Its chart of the payments by group.                                       *)
ProtectedGroup == {p \in Payments : status[p] \in {"delivery_pending", "release_pending"}}
SettledGroup   == {p \in Payments : status[p] = "settled"}
ProcessingGroup ==
  {p \in Payments : status[p] \in {"alias_verified", "collection_pending",
                                   "awaiting_approval", "processing",
                                   "settlement_processing"}}
FailedGroup ==
  {p \in Payments : status[p] \in {"failed", "rejected", "cancelled"}}

-----------------------------------------------------------------------------
(* The figures at the head of the merchant's portal.                        *)
Stats ==
  [volume      |-> Total(LAMBDA p : Gross[p], Successful),
   successful  |-> Cardinality(Successful),
   settlements |-> Total(LAMBDA p : Net(p),
                         {p \in Payments : settlement[p] = "completed"})]

(* What the portal's page on trust counts as held.                           *)
TrustHolds ==
  {p \in Held : hold[p] \in {"held", "delivery_pending", "delivery_confirmed",
                             "disputed", "release_pending", "refund_pending",
                             "frozen"}}

(* The page of a payment offers the merchant the form for the payer's code   *)
(* (and a merchant without a verified destination nothing).                  *)
CanConfirm(p) == status[p] = "delivery_pending" /\ ~confirmed[p] /\ ~locked[p]

(* The payments that the public delivery page finds by their reference, and  *)
(* why it offers no decision on another one.                                 *)
Eligible == {p \in Payments : status[p] = "delivery_pending"}

UnavailableReason(p) ==
  CASE status[p] \in {"cancelled", "failed", "rejected"} -> "did not complete"
    [] status[p] = "disputed" -> "an investigation is open"
    [] status[p] \in {"release_pending", "settlement_processing", "settled"} ->
         "delivery is confirmed"
    [] OTHER -> "not waiting for a decision"

(* The statuses at which the checkout page stops asking.                     *)
Terminal(p) ==
  status[p] \in {"delivery_pending", "settled", "failed", "rejected", "cancelled"}

-----------------------------------------------------------------------------
(* The totals agree with the ledger after every transaction, however many    *)
(* reconcilers there are: the money still held is what the ledger has        *)
(* credited and not debited, in the report, on the dashboard and in the      *)
(* portal, what the merchant has got is what it has released, all that was   *)
(* ever held is what it has credited, and the payouts to come are the        *)
(* approved holds whose payout has not failed.                               *)
TotalsAgree ==
  /\ Total(LAMBDA p : Gross[p], StillHeld)
       = Total(LAMBDA p : ledger[p].customer_funds
                          - (ledger[p].release + ledger[p].fee), Payments)
  /\ ActiveHolds = StillHeld /\ TrustHolds = StillHeld
  /\ Stats.settlements = Total(LAMBDA p : ledger[p].release, Payments)
  /\ TotalHoldAmount = Total(LAMBDA p : ledger[p].customer_funds, Payments)
  /\ Total(LAMBDA p : Net(p), PendingSettlements)
       = Total(LAMBDA p : Net(p), {p \in Held : hold[p] = "release_pending"
                                                /\ settlement[p] # "failed"})

(* What is said of a single payment is true: the merchant is offered the     *)
(* form for a code that can be used, the payer is told of a decision or an   *)
(* investigation that there is, and the checkout page stops asking only once *)
(* the money was received, or the merchant told that it will not be.         *)
(* (apps/portal/views.py, apps/checkout/views.py)                            *)
PagesAreTrue ==
  /\ Eligible = {p \in Payments : hold[p] = "delivery_pending"}
  /\ \A p \in Payments :
       /\ CanConfirm(p) /\ p \notin Instant => CodeUsable(p)
       /\ UnavailableReason(p) = "delivery is confirmed" <=> confirmed[p]
       /\ UnavailableReason(p) = "an investigation is open" <=> claims[p] > 0
       /\ UnavailableReason(p) = "did not complete" =>
            hold[p] = None /\ emitted[p]["payment.failed"] = 1
       /\ Terminal(p) => hold[p] # None \/ emitted[p]["payment.failed"] = 1

(* Moreover the figures agree with each other: settled payments are          *)
(* completed settlements, the volume is all money received but what is       *)
(* disputed, and the chart leaves out the disputed payments alone.           *)
(* (apps/compliance/reports.py, config/admin_dashboard.py)                   *)
ReportsAgree ==
  /\ TotalsAgree
  /\ PagesAreTrue
  /\ SettledCount = CompletedCount
  /\ Successful = {p \in Held : hold[p] # "disputed"}
  /\ Stats.volume = Total(LAMBDA p : ledger[p].customer_funds,
                          {p \in Payments : hold[p] # "disputed"})
  /\ ProtectedGroup \cup SettledGroup \cup ProcessingGroup \cup FailedGroup
       = {p \in Payments : hold[p] # "disputed"}
=============================================================================
