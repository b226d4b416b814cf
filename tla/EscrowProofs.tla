---------------------------- MODULE EscrowProofs ----------------------------
(***************************************************************************)
(* The escrow's safety, for any payments, reconcilers and amounts.         *)
(***************************************************************************)
EXTENDS PaymentFlowProofs

USE DEF codeVars, sessionVars, collVars, fundVars, deliveryVars, payoutVars,
        railVars

Approved(p) == hold[p] \in {"release_pending", "released"}

(* The inductive invariant: the rows of one payment agree about where its  *)
(* funds stand.  The hold is the truth; the callbacks say whether it was   *)
(* created, and each of the others what was decided about it.              *)
Books(p) ==
  /\ ledger[p].customer_funds = IF hold[p] = None THEN 0 ELSE Gross[p]
  /\ ledger[p].release = IF hold[p] = "released" THEN Net(p) ELSE 0
  /\ ledger[p].fee = IF hold[p] = "released" THEN Fee[p] ELSE 0

Collected(p) ==
  /\ hold[p] = None <=> "COMPLETED" \notin collEvents[p]
  /\ collEvents[p] # {} => coll[p] # None
  /\ status[p] = "delivery_pending" => hold[p] = "delivery_pending"

Decided(p) ==
  /\ claims[p] = IF hold[p] = "disputed" THEN 1 ELSE 0
  /\ confirmed[p] <=> Approved(p)
  /\ settlement[p] # None <=> Approved(p)
  /\ decision[p] = IF hold[p] = "disputed" THEN "disputed"
                   ELSE IF Approved(p) THEN "confirmed" ELSE None
  /\ delivery[p] = IF hold[p] = "disputed" THEN "failed"
                   ELSE IF Approved(p) THEN "delivered" ELSE None

Ordered(p) ==
  /\ p2p[p] # None => Approved(p)
  /\ p2pOrders[p] > 0 => Approved(p)

RowsOf(p) == Books(p) /\ Collected(p) /\ Decided(p) /\ Ordered(p)

EscrowState == \A p \in Payments : RowsOf(p)

(* A poll under way is about a request that exists.                        *)
PollsHaveRequests ==
  \A q \in polls :
    IF q.rail = "collection" THEN coll[q.payment] # None ELSE p2p[q.payment] # None

EscrowInv == TypeOK /\ EscrowState /\ PollsHaveRequests

-----------------------------------------------------------------------------
LEMMA NoneApart ==
  /\ None \notin {"delivery_pending", "disputed", "release_pending", "released"}
  /\ None \notin {"pending", "processing", "completed", "failed"}
  /\ None \notin {"confirmed", "delivered"}
  /\ None \notin AnyStatus
BY RecordsAssumption DEF HoldStatus, SettlementStatus, Decision, DeliveryStatus

(* It is enough to look at the payment a step is about.                    *)
OthersKept(p) ==
  \A o \in Payments \ {p} :
    /\ hold'[o] = hold[o] /\ ledger'[o] = ledger[o]
    /\ coll'[o] = coll[o] /\ collEvents'[o] = collEvents[o]
    /\ status'[o] = status[o] /\ claims'[o] = claims[o]
    /\ confirmed'[o] = confirmed[o] /\ settlement'[o] = settlement[o]
    /\ decision'[o] = decision[o] /\ delivery'[o] = delivery[o]
    /\ p2p'[o] = p2p[o] /\ p2pOrders'[o] = p2pOrders[o]

LEMMA OnePayment ==
  ASSUME EscrowState, NEW p \in Payments, OthersKept(p), RowsOf(p)'
  PROVE  EscrowState'
<1>1. ASSUME NEW o \in Payments \ {p} PROVE RowsOf(o)'
  <2>1. RowsOf(o)
    BY DEF EscrowState
  <2> QED
    BY <2>1 DEF OthersKept, RowsOf, Books, Net, Collected, Decided, Ordered,
       Approved
<1> QED
  BY <1>1 DEF EscrowState

(* A step that changes none of the rows.                                   *)
LEMMA NoRow ==
  ASSUME EscrowState,
         UNCHANGED <<status, confirmed, collVars, fundVars, deliveryVars,
                     settlement, p2p, p2pOrders>>
  PROVE  EscrowState'
BY DEF EscrowState, RowsOf, Books, Collected, Decided, Ordered, Approved

(* Release moves the rows of a payment whose funds are held and undecided  *)
(* from held to approved.                                                  *)
LEMMA ReleaseKeepsRows ==
  ASSUME EscrowInv, NEW p \in Payments, Release(p),
         status[p] = "delivery_pending",
         UNCHANGED <<collVars, ledger, claims, p2p, railVars>>
  PROVE  EscrowState'
<1>1. TypeOK /\ RowsOf(p) /\ hold[p] = "delivery_pending"
  BY DEF EscrowInv, EscrowState, RowsOf, Collected
<1>2. /\ settlement[p] = None /\ decision[p] = None
      /\ claims[p] = 0 /\ p2pOrders[p] \in Nat
  BY <1>1, NoneApart DEF TypeOK, RowsOf, Decided, Approved
<1>3. /\ hold'[p] = "release_pending" /\ settlement'[p] = "pending"
      /\ decision'[p] = "confirmed" /\ delivery'[p] = "delivered"
      /\ confirmed'[p] = TRUE /\ status'[p] = "release_pending"
  BY <1>1, <1>2 DEF TypeOK, Release
<1>4. RowsOf(p)'
  <2>1. Books(p)'
    BY <1>1, <1>3, NoneApart DEF RowsOf, Books, Net
  <2>2. Collected(p)'
    BY <1>1, <1>3, NoneApart DEF RowsOf, Collected
  <2>3. Decided(p)'
    BY <1>2, <1>3, NoneApart DEF Decided, Approved
  <2>4. Ordered(p)'
    BY <1>3 DEF Ordered, Approved
  <2> QED
    BY <2>1, <2>2, <2>3, <2>4 DEF RowsOf
<1>5. OthersKept(p)
  BY <1>1 DEF TypeOK, Release, OthersKept
<1> QED
  BY <1>4, <1>5, OnePayment DEF EscrowInv

LEMMA ClaimKeepsRows ==
  ASSUME EscrowInv, NEW p \in Payments, OpenClaim(p)
  PROVE  EscrowState'
<1>1. TypeOK /\ RowsOf(p) /\ hold[p] = "delivery_pending"
  BY DEF EscrowInv, EscrowState, RowsOf, Collected, OpenClaim, CodeUsable
<1>2. /\ settlement[p] = None /\ decision[p] = None /\ ~confirmed[p]
      /\ claims[p] = 0 /\ p2p[p] = None /\ ~(p2pOrders[p] > 0)
  BY <1>1, NoneApart DEF TypeOK, RowsOf, Decided, Ordered, Approved
<1>3. /\ hold'[p] = "disputed" /\ claims'[p] = 1
      /\ decision'[p] = "disputed" /\ delivery'[p] = "failed"
      /\ status'[p] = "disputed"
  BY <1>1, <1>2 DEF TypeOK, OpenClaim
<1>4. UNCHANGED <<confirmed, collVars, ledger, settlement, p2p, p2pOrders>>
  BY DEF OpenClaim
<1>5. RowsOf(p)'
  <2>1. Books(p)'
    BY <1>1, <1>3, <1>4, NoneApart DEF RowsOf, Books, Net
  <2>2. Collected(p)'
    BY <1>1, <1>3, <1>4, NoneApart DEF RowsOf, Collected
  <2>3. Decided(p)'
    BY <1>2, <1>3, <1>4, NoneApart DEF Decided, Approved
  <2>4. Ordered(p)'
    BY <1>2, <1>4 DEF Ordered
  <2> QED
    BY <2>1, <2>2, <2>3, <2>4 DEF RowsOf
<1>6. OthersKept(p)
  BY <1>1, <1>4 DEF TypeOK, OpenClaim, OthersKept
<1> QED
  BY <1>5, <1>6, OnePayment DEF EscrowInv

LEMMA SubmitKeepsRows ==
  ASSUME EscrowInv, NEW p \in Payments, NEW s \in SyncStatus,
         SubmitCollection(p, s)
  PROVE  EscrowState'
<1>1. TypeOK /\ RowsOf(p) /\ coll[p] = None
  BY DEF EscrowInv, EscrowState, SubmitCollection, Submittable
<1>2. collEvents[p] = {} /\ hold[p] = None
  BY <1>1 DEF RowsOf, Collected
<1>3. coll'[p] # None /\ status'[p] = "collection_pending" /\ confirmed'[p] = FALSE
  BY <1>1, NoneApart, RecordsAssumption DEF TypeOK, SubmitCollection
<1>4. ~Approved(p)
  BY <1>2, NoneApart DEF Approved
<1>5. UNCHANGED <<collEvents, fundVars, deliveryVars, settlement, p2p, p2pOrders>>
  BY DEF SubmitCollection
<1>6. RowsOf(p)'
  <2>1. Books(p)'
    BY <1>1, <1>5 DEF RowsOf, Books, Net
  <2>2. Collected(p)'
    BY <1>1, <1>2, <1>3, <1>5 DEF RowsOf, Collected
  <2>3. Decided(p)' /\ Ordered(p)'
    BY <1>1, <1>3, <1>4, <1>5 DEF RowsOf, Decided, Ordered, Approved
  <2> QED
    BY <2>1, <2>2, <2>3 DEF RowsOf
<1>7. OthersKept(p)
  BY <1>1, <1>5 DEF TypeOK, SubmitCollection, OthersKept
<1> QED
  BY <1>6, <1>7, OnePayment DEF EscrowInv

-----------------------------------------------------------------------------
(* An answer that is not COMPLETED never touches the hold.                 *)
LEMMA OpenOrFailedKeepsRows ==
  ASSUME EscrowInv, NEW q \in polls, ApplyOpenCollection(q) \/ FailCollection(q)
  PROVE  EscrowState'
<1> DEFINE p == q.payment
<1>1. /\ TypeOK /\ p \in Payments /\ RowsOf(p)
      /\ q.result \in AnyStatus /\ q.result # "COMPLETED"
  BY PollTypes DEF EscrowInv, EscrowState, ApplyOpenCollection, FailCollection,
     Polled, Failures, AnyStatus
<1>2. Record(q)
  BY DEF ApplyOpenCollection, FailCollection
<1>3. UNCHANGED <<confirmed, fundVars, deliveryVars, settlement, p2p, p2pOrders>>
  BY DEF ApplyOpenCollection, FailCollection
<1>4. status' = [status EXCEPT ![p] = status'[p]] /\ status'[p] # "delivery_pending"
  BY <1>1, MappedStatus DEF TypeOK, ApplyOpenCollection, FailCollection
<1>5. /\ coll'[p] # None
      /\ "COMPLETED" \in collEvents'[p] <=> "COMPLETED" \in collEvents[p]
  BY <1>1, <1>2, NoneApart DEF TypeOK, Record
<1>6. RowsOf(p)'
  BY <1>1, <1>3, <1>4, <1>5
     DEF RowsOf, Books, Net, Collected, Decided, Ordered, Approved
<1>7. OthersKept(p)
  BY <1>1, <1>2, <1>3, <1>4 DEF TypeOK, Record, OthersKept
<1> QED
  BY <1>1, <1>6, <1>7, OnePayment DEF EscrowInv

(* COMPLETED is applied once, to a payment without a hold, and credits it. *)
LEMMA CompleteFacts ==
  ASSUME EscrowInv, NEW q \in polls, Complete(q)
  PROVE  LET p == q.payment IN
         /\ p \in Payments /\ TypeOK /\ RowsOf(p) /\ hold[p] = None
         /\ coll'[p] # None /\ "COMPLETED" \in collEvents'[p]
         /\ ledger'[p].customer_funds = Gross[p]
         /\ ledger'[p].release = 0 /\ ledger'[p].fee = 0
         /\ \A o \in Payments \ {p} : /\ ledger'[o] = ledger[o]
                                      /\ coll'[o] = coll[o]
                                      /\ collEvents'[o] = collEvents[o]
<1> DEFINE p == q.payment
<1>1. TypeOK /\ p \in Payments /\ RowsOf(p)
  BY PollTypes DEF EscrowInv, EscrowState
<1>2. Record(q) /\ q.result = "COMPLETED" /\ Credit(p)
  BY DEF Complete
<1>3. hold[p] = None
  BY <1>1, <1>2 DEF Record, KnownEvent, RowsOf, Collected
<1>4. /\ coll'[p] # None /\ "COMPLETED" \in collEvents'[p]
      /\ \A o \in Payments \ {p} : /\ coll'[o] = coll[o]
                                   /\ collEvents'[o] = collEvents[o]
  <2>1. "COMPLETED" # None
    BY NoneApart DEF AnyStatus
  <2> QED
    BY <1>1, <1>2, <2>1 DEF TypeOK, Record
<1>5. /\ ledger[p].customer_funds = 0 /\ ledger[p].release = 0
      /\ ledger[p].fee = 0 /\ Gross[p] \in Nat
  BY <1>1, <1>3, NoneApart, RecordsAssumption DEF RowsOf, Books
<1>6. /\ ledger'[p].customer_funds = Gross[p]
      /\ ledger'[p].release = 0 /\ ledger'[p].fee = 0
      /\ \A o \in Payments \ {p} : ledger'[o] = ledger[o]
  <2>1. /\ ledger'[p].customer_funds = ledger[p].customer_funds + Gross[p]
        /\ ledger'[p].release = ledger[p].release
        /\ ledger'[p].fee = ledger[p].fee
        /\ \A o \in Payments \ {p} : ledger'[o] = ledger[o]
    BY <1>1, <1>2, <1>3, CreditType DEF TypeOK
  <2>2. 0 + Gross[p] = Gross[p]
    BY <1>5
  <2> QED
    BY <1>5, <2>1, <2>2
<1> QED
  BY <1>1, <1>3, <1>4, <1>6

LEMMA CompleteAndHoldKeepsRows ==
  ASSUME EscrowInv, NEW q \in polls, CompleteAndHold(q)
  PROVE  EscrowState'
<1> DEFINE p == q.payment
<1>1. /\ p \in Payments /\ TypeOK /\ RowsOf(p) /\ hold[p] = None
      /\ coll'[p] # None /\ "COMPLETED" \in collEvents'[p]
      /\ ledger'[p].customer_funds = Gross[p]
      /\ ledger'[p].release = 0 /\ ledger'[p].fee = 0
      /\ \A o \in Payments \ {p} : /\ ledger'[o] = ledger[o]
                                   /\ coll'[o] = coll[o]
                                   /\ collEvents'[o] = collEvents[o]
  BY CompleteFacts DEF CompleteAndHold
<1>2. hold' = [hold EXCEPT ![p] = "delivery_pending"]
      /\ status' = [status EXCEPT ![p] = "delivery_pending"]
  BY <1>1 DEF CompleteAndHold, Hold, TypeOK
<1>3. UNCHANGED <<confirmed, deliveryVars, settlement, p2p, p2pOrders>>
  BY DEF CompleteAndHold, Complete
<1>4. hold'[p] = "delivery_pending"
  BY <1>1, <1>2 DEF TypeOK
<1>5. ~Approved(p) /\ hold[p] # "disputed"
  BY <1>1, NoneApart DEF Approved
<1>6. RowsOf(p)'
  <2>1. Books(p)' /\ Collected(p)'
    BY <1>1, <1>4, NoneApart DEF Books, Collected
  <2>2. Decided(p)' /\ Ordered(p)'
    BY <1>1, <1>3, <1>4, <1>5 DEF RowsOf, Decided, Ordered, Approved
  <2> QED
    BY <2>1, <2>2 DEF RowsOf
<1>7. OthersKept(p)
  BY <1>1, <1>2, <1>3 DEF TypeOK, OthersKept
<1> QED
  BY <1>1, <1>6, <1>7, OnePayment DEF EscrowInv

LEMMA CompleteAndReleaseKeepsRows ==
  ASSUME EscrowInv, NEW q \in polls, CompleteAndRelease(q)
  PROVE  EscrowState'
<1> DEFINE p == q.payment
<1>1. /\ p \in Payments /\ TypeOK /\ RowsOf(p) /\ hold[p] = None
      /\ coll'[p] # None /\ "COMPLETED" \in collEvents'[p]
      /\ ledger'[p].customer_funds = Gross[p]
      /\ ledger'[p].release = 0 /\ ledger'[p].fee = 0
      /\ \A o \in Payments \ {p} : /\ ledger'[o] = ledger[o]
                                   /\ coll'[o] = coll[o]
                                   /\ collEvents'[o] = collEvents[o]
  BY CompleteFacts DEF CompleteAndRelease
<1>2. UNCHANGED <<claims, p2p, p2pOrders>>
  BY DEF CompleteAndRelease, Complete
<1>3. settlement[p] = None /\ decision[p] = None /\ claims[p] = 0
  BY <1>1, NoneApart DEF RowsOf, Decided, Approved
<1>4. /\ hold'[p] = "release_pending" /\ settlement'[p] = "pending"
      /\ decision'[p] = "confirmed" /\ delivery'[p] = "delivered"
      /\ confirmed'[p] = TRUE /\ status'[p] = "release_pending"
  BY <1>1, <1>3 DEF TypeOK, Release, CompleteAndRelease
<1>5. RowsOf(p)'
  <2>1. Books(p)' /\ Collected(p)'
    BY <1>1, <1>4, NoneApart DEF Books, Collected
  <2>2. Decided(p)'
    BY <1>2, <1>3, <1>4, NoneApart DEF Decided, Approved
  <2>3. Ordered(p)'
    BY <1>4 DEF Ordered, Approved
  <2> QED
    BY <2>1, <2>2, <2>3 DEF RowsOf
<1>6. OthersKept(p)
  BY <1>1, <1>2, ZenonT(60) DEF TypeOK, Release, CompleteAndRelease, OthersKept
<1> QED
  BY <1>1, <1>5, <1>6, OnePayment DEF EscrowInv

-----------------------------------------------------------------------------
(* A payout is ordered only from an approved hold.                         *)
LEMMA OrderFacts ==
  ASSUME EscrowInv, NEW p \in Payments, Payable(p)
  PROVE  TypeOK /\ RowsOf(p) /\ hold[p] = "release_pending" /\ Approved(p)
BY DEF EscrowInv, EscrowState, Payable, Approved

(* Settling posts the two debits of an approved hold; on one released      *)
(* already it changes none of the books.                                   *)
LEMMA SettleKeepsRows ==
  ASSUME EscrowInv, NEW p \in Payments, Approved(p), Settle(p),
         UNCHANGED <<confirmed, collVars, deliveryVars>>,
         p2p' = [p2p EXCEPT ![p] = p2p'[p]],
         p2pOrders' = [p2pOrders EXCEPT ![p] = p2pOrders'[p]]
  PROVE  EscrowState'
<1>1. TypeOK /\ RowsOf(p) /\ Approved(p)
  BY DEF EscrowInv, EscrowState
<1>2. /\ hold'[p] = "released" /\ settlement'[p] = "completed"
      /\ status'[p] = "settled"
  BY <1>1 DEF TypeOK, Settle
<1>3. /\ ledger'[p].customer_funds = Gross[p]
      /\ ledger'[p].release = Net(p) /\ ledger'[p].fee = Fee[p]
      /\ \A o \in Payments \ {p} : ledger'[o] = ledger[o]
  <2>1. /\ ledger[p].customer_funds = Gross[p]
        /\ ledger[p].release \in {0, Net(p)} /\ ledger[p].fee \in {0, Fee[p]}
    BY <1>1, NoneApart DEF RowsOf, Books, Approved
  <2>2. /\ ledger'[p].customer_funds = ledger[p].customer_funds
        /\ ledger'[p].release =
             IF ledger[p].release = 0 THEN Net(p) ELSE ledger[p].release
        /\ ledger'[p].fee = IF ledger[p].fee = 0 THEN Fee[p] ELSE ledger[p].fee
        /\ \A o \in Payments \ {p} : ledger'[o] = ledger[o]
    BY <1>1, DebitType DEF TypeOK
  <2> QED
    BY <2>1, <2>2
<1>4. RowsOf(p)'
  <2>1. Books(p)'
    BY <1>2, <1>3, NoneApart DEF Books, Net
  <2>2. Collected(p)'
    BY <1>1, <1>2, NoneApart DEF RowsOf, Collected, Approved
  <2>3. Decided(p)'
    BY <1>1, <1>2, NoneApart DEF RowsOf, Decided, Approved
  <2>4. Ordered(p)'
    BY <1>2 DEF Ordered, Approved
  <2> QED
    BY <2>1, <2>2, <2>3, <2>4 DEF RowsOf
<1>5. OthersKept(p)
  BY <1>1, <1>3 DEF TypeOK, Settle, OthersKept
<1> QED
  BY <1>4, <1>5, OnePayment DEF EscrowInv

(* The other payout steps leave hold and ledger alone, and a settlement    *)
(* stays a settlement.                                                     *)
LEMMA PayoutKeepsRows ==
  ASSUME EscrowInv, NEW p \in Payments, Approved(p),
         UNCHANGED <<confirmed, collVars, fundVars, deliveryVars>>,
         status' = [status EXCEPT ![p] = status'[p]],
         status'[p] # "delivery_pending",
         settlement' = [settlement EXCEPT ![p] = settlement'[p]],
         settlement'[p] # None,
         p2p' = [p2p EXCEPT ![p] = p2p'[p]],
         p2pOrders' = [p2pOrders EXCEPT ![p] = p2pOrders'[p]]
  PROVE  EscrowState'
<1>1. TypeOK /\ RowsOf(p)
  BY DEF EscrowInv, EscrowState
<1>2. RowsOf(p)'
  BY <1>1 DEF RowsOf, Books, Net, Collected, Decided, Ordered, Approved
<1>3. OthersKept(p)
  BY <1>1 DEF TypeOK, OthersKept
<1> QED
  BY <1>2, <1>3, OnePayment DEF EscrowInv

-----------------------------------------------------------------------------
(* What a poll of a payout is applied to is an approved hold.              *)
LEMMA PolledPayoutIsApproved ==
  ASSUME EscrowInv, NEW q \in polls, q.rail = "p2p"
  PROVE  TypeOK /\ q.payment \in Payments /\ Approved(q.payment) /\ RowsOf(q.payment)
<1>1. TypeOK /\ q.payment \in Payments /\ RowsOf(q.payment)
  BY PollTypes DEF EscrowInv, EscrowState
<1>2. p2p[q.payment] # None
  BY DEF EscrowInv, PollsHaveRequests
<1> QED
  BY <1>1, <1>2 DEF RowsOf, Ordered

LEMMA EscrowStateStep ==
  ASSUME EscrowInv, Next
  PROVE  EscrowState'
<1> USE RecordsAssumption
<1>0. EscrowState
  BY DEF EscrowInv
<1>1. ASSUME NEW p \in Payments, NEW s \in SyncStatus, SubmitCollection(p, s)
      PROVE  EscrowState'
  BY <1>1, SubmitKeepsRows
<1>2. ASSUME NEW p \in Payments, ConfirmWithCode(p) \/ RetryInstant(p)
      PROVE  EscrowState'
  BY <1>2, ReleaseKeepsRows DEF ConfirmWithCode, CodeUsable, RetryInstant,
     InstantReleasable
<1>3. ASSUME NEW p \in Payments, OpenClaim(p) PROVE EscrowState'
  BY <1>3, ClaimKeepsRows
<1>4. ASSUME NEW p \in Payments, NEW s \in SyncStatus, StartPayout(p, s)
      PROVE  EscrowState'
  <2>1. TypeOK /\ Approved(p)
    BY <1>4, OrderFacts DEF StartPayout, OrderPayout
  <2>2. /\ status'[p] = "settlement_processing" /\ settlement'[p] # None
        /\ status' = [status EXCEPT ![p] = status'[p]]
        /\ settlement' = [settlement EXCEPT ![p] = settlement'[p]]
        /\ p2p' = [p2p EXCEPT ![p] = p2p'[p]]
        /\ p2pOrders' = [p2pOrders EXCEPT ![p] = p2pOrders'[p]]
    BY <1>4, <2>1, NoneApart DEF TypeOK, StartPayout, OrderPayout
  <2> QED
    BY <1>4, <2>1, <2>2, PayoutKeepsRows DEF StartPayout, OrderPayout
<1>5. ASSUME NEW p \in Payments, StartAndSettle(p) PROVE EscrowState'
  <2>1. TypeOK /\ Approved(p)
    BY <1>5, OrderFacts DEF StartAndSettle, OrderPayout
  <2>2. /\ p2p' = [p2p EXCEPT ![p] = p2p'[p]]
        /\ p2pOrders' = [p2pOrders EXCEPT ![p] = p2pOrders'[p]]
    BY <1>5, <2>1 DEF TypeOK, StartAndSettle, OrderPayout
  <2> QED
    BY <1>5, <2>1, <2>2, SettleKeepsRows DEF StartAndSettle, OrderPayout
<1>6. ASSUME NEW p \in Payments, LosePayout(p) PROVE EscrowState'
  <2>1. TypeOK /\ Approved(p) /\ RowsOf(p)
    BY <1>6, OrderFacts DEF LosePayout
  <2>2. status[p] # "delivery_pending" /\ settlement[p] # None
    BY <2>1 DEF RowsOf, Collected, Decided, Approved
  <2>3. /\ status' = [status EXCEPT ![p] = status'[p]]
        /\ settlement' = [settlement EXCEPT ![p] = settlement'[p]]
        /\ p2p' = [p2p EXCEPT ![p] = p2p'[p]]
        /\ p2pOrders' = [p2pOrders EXCEPT ![p] = p2pOrders'[p]]
    BY <1>6, <2>1 DEF TypeOK, LosePayout
  <2>4. UNCHANGED <<status, settlement>>
    BY <1>6 DEF LosePayout
  <2> QED
    BY <1>6, <2>1, <2>2, <2>3, <2>4, PayoutKeepsRows DEF LosePayout
<1>7. ASSUME NEW q \in polls, ApplyOpenCollection(q) \/ FailCollection(q)
      PROVE  EscrowState'
  BY <1>7, OpenOrFailedKeepsRows
<1>8. ASSUME NEW q \in polls, CompleteAndHold(q) \/ CompleteAndRelease(q)
      PROVE  EscrowState'
  BY <1>8, CompleteAndHoldKeepsRows, CompleteAndReleaseKeepsRows
<1>9. ASSUME NEW q \in polls, ApplyOpenPayout(q) \/ FailPayout(q)
      PROVE  EscrowState'
  <2> DEFINE p == q.payment
  <2>1. TypeOK /\ p \in Payments /\ Approved(p) /\ RowsOf(p)
    BY <1>9, PolledPayoutIsApproved
       DEF ApplyOpenPayout, FailPayout, ApplyingPayout
  <2>2. status[p] # "delivery_pending" /\ settlement[p] # None
    BY <2>1 DEF RowsOf, Collected, Decided, Approved
  <2>3. /\ status' = status
        /\ settlement' = [settlement EXCEPT ![p] = settlement'[p]]
        /\ settlement'[p] # None
        /\ p2p' = [p2p EXCEPT ![p] = p2p'[p]]
    BY <1>9, <2>1, <2>2, NoneApart
       DEF TypeOK, ApplyOpenPayout, FailPayout, RecordPayout
  <2>4. /\ UNCHANGED <<confirmed, collVars, fundVars, deliveryVars, p2pOrders>>
        /\ status = [status EXCEPT ![p] = status[p]]
        /\ p2pOrders = [p2pOrders EXCEPT ![p] = p2pOrders[p]]
    BY <1>9, <2>1 DEF TypeOK, ApplyOpenPayout, FailPayout
  <2> QED
    BY <2>1, <2>2, <2>3, <2>4, PayoutKeepsRows
<1>10. ASSUME NEW q \in polls, CompletePayout(q) PROVE EscrowState'
  <2> DEFINE p == q.payment
  <2>1. TypeOK /\ p \in Payments /\ Approved(p)
    BY <1>10, PolledPayoutIsApproved DEF CompletePayout, ApplyingPayout
  <2>2. /\ Settle(p) /\ UNCHANGED <<confirmed, collVars, deliveryVars, p2pOrders>>
        /\ p2p' = [p2p EXCEPT ![p] = p2p'[p]]
        /\ p2pOrders = [p2pOrders EXCEPT ![p] = p2pOrders[p]]
    BY <1>10, <2>1 DEF TypeOK, CompletePayout, RecordPayout
  <2> QED
    BY <2>1, <2>2, SettleKeepsRows
<1>11. CASE UNCHANGED <<status, confirmed, collVars, fundVars, deliveryVars,
                        settlement, p2p, p2pOrders>>
  BY <1>0, <1>11, NoRow
<1> QED
  BY <1>1, <1>2, <1>3, <1>4, <1>5, <1>6, <1>7, <1>8, <1>9, <1>10, <1>11, Steps
     DEF LoseCollection, ViewExpired, ExpireSession, WrongCode,
         RailAdvancesCollection, RailAdvancesPayout, ReadCollections,
         ReadPayouts, Ask, DropPoll, SkipCollection, SkipPayout

(* A request that exists goes on existing, and a poll that starts is about *)
(* one.                                                                    *)
LEMMA PollsStep ==
  ASSUME EscrowInv, Next
  PROVE  PollsHaveRequests'
<1> USE RecordsAssumption
<1>0. TypeOK /\ PollsHaveRequests
  BY DEF EscrowInv
<1>1. /\ \A p \in Payments : coll[p] # None => coll'[p] # None
      /\ \A p \in Payments : p2p[p] # None => p2p'[p] # None
  <2>1. ASSUME NEW q \in polls, Record(q), q.result # None
        PROVE  \A p \in Payments : coll[p] # None => coll'[p] # None
    BY <1>0, <2>1 DEF TypeOK, Record
  <2>2. ASSUME NEW q \in polls, RecordPayout(q), q.result # None
        PROVE  \A p \in Payments : p2p[p] # None => p2p'[p] # None
    BY <1>0, <2>2 DEF TypeOK, RecordPayout
  <2>3. ASSUME NEW p \in Payments, NEW s \in SyncStatus, SubmitCollection(p, s)
        PROVE  \A o \in Payments : coll[o] # None => coll'[o] # None
    BY <1>0, <2>3 DEF TypeOK, SubmitCollection
  <2>4. ASSUME NEW p \in Payments, NEW s \in AnyStatus, OrderPayout(p, s)
        PROVE  \A o \in Payments : p2p[o] # None => p2p'[o] # None
    BY <1>0, <2>4 DEF TypeOK, OrderPayout
  <2>5. \/ /\ UNCHANGED p2p
           /\ \A o \in Payments : coll[o] # None => coll'[o] # None
        \/ /\ UNCHANGED coll
           /\ \A o \in Payments : p2p[o] # None => p2p'[o] # None
    <3>1. SyncStatus \subseteq AnyStatus /\ "COMPLETED" \in AnyStatus
      BY DEF AnyStatus
    <3>2. ASSUME NEW p \in Payments, NEW s \in SyncStatus, SubmitCollection(p, s)
          PROVE  UNCHANGED p2p /\ \A o \in Payments : coll[o] # None => coll'[o] # None
      BY <2>3, <3>2 DEF SubmitCollection
    <3>3. ASSUME NEW q \in polls,
                 \/ ApplyOpenCollection(q) \/ FailCollection(q)
                 \/ CompleteAndHold(q) \/ CompleteAndRelease(q)
          PROVE  UNCHANGED p2p /\ \A o \in Payments : coll[o] # None => coll'[o] # None
      BY <2>1, <3>3 DEF ApplyOpenCollection, FailCollection, CompleteAndHold,
         CompleteAndRelease, Complete, Applying
    <3>4. ASSUME NEW p \in Payments,
                 (\E s \in SyncStatus : StartPayout(p, s)) \/ StartAndSettle(p)
          PROVE  UNCHANGED coll /\ \A o \in Payments : p2p[o] # None => p2p'[o] # None
      BY <2>4, <3>1, <3>4 DEF StartPayout, StartAndSettle, OrderPayout
    <3>5. ASSUME NEW q \in polls,
                 ApplyOpenPayout(q) \/ CompletePayout(q) \/ FailPayout(q)
          PROVE  UNCHANGED coll /\ \A o \in Payments : p2p[o] # None => p2p'[o] # None
      BY <2>2, <3>5 DEF ApplyOpenPayout, CompletePayout, FailPayout,
         ApplyingPayout
    <3>6. CASE UNCHANGED <<coll, p2p>>
      BY <3>6
    <3> QED
      BY <3>2, <3>3, <3>4, <3>5, <3>6, Steps
         DEF LoseCollection, ViewExpired, ExpireSession, ConfirmWithCode,
             WrongCode, OpenClaim, RetryInstant, LosePayout,
             RailAdvancesCollection, RailAdvancesPayout, ReadCollections,
             ReadPayouts, Ask, DropPoll, SkipCollection, SkipPayout
  <2> QED
    BY <2>5
<1> DEFINE Asked(q) == IF q.rail = "collection" THEN coll[q.payment] # None
                       ELSE p2p[q.payment] # None
<1>2. \A q \in polls : q.payment \in Payments /\ Asked(q)
  BY <1>0, PollTypes DEF PollsHaveRequests
<1>3. \A q \in polls' : q.payment \in Payments /\ Asked(q)
  <2>1. ASSUME NEW r \in Reconcilers, NEW batch \in SUBSET Payments,
               ReadCollections(r, batch)
        PROVE  \A q \in polls' : q.payment \in Payments /\ Asked(q)
    <3>1. \A p \in batch : coll[p] # None
      BY <2>1 DEF ReadCollections, DueCollections, Polled, AnyStatus
    <3> QED
      BY <1>2, <2>1, <3>1 DEF ReadCollections
  <2>2. ASSUME NEW r \in Reconcilers, NEW batch \in SUBSET Payments,
               ReadPayouts(r, batch)
        PROVE  \A q \in polls' : q.payment \in Payments /\ Asked(q)
    <3>1. \A p \in batch : p2p[p] # None
      BY <2>2 DEF ReadPayouts, DuePayouts, Polled, AnyStatus
    <3> QED
      BY <1>2, <2>2, <3>1 DEF ReadPayouts
  <2>3. ASSUME NEW q \in polls, Ask(q)
        PROVE  \A o \in polls' : o.payment \in Payments /\ Asked(o)
    <3> DEFINE answered == [q EXCEPT !.result = RailAnswer(q)]
    <3>1. answered.payment = q.payment /\ answered.rail = q.rail
      BY <1>0, PollTypes DEF Poll
    <3>2. \A o \in polls' : o \in polls \/ o = answered
      BY <2>3 DEF Ask
    <3> QED
      BY <1>2, <3>1, <3>2
  <2>4. CASE polls' \subseteq polls
    BY <1>2, <2>4
  <2> QED
    BY <2>1, <2>2, <2>3, <2>4, Steps, ZenonT(60)
       DEF SubmitCollection, LoseCollection, ViewExpired, ExpireSession,
           ConfirmWithCode, WrongCode, OpenClaim, RetryInstant, StartPayout,
           StartAndSettle, OrderPayout, LosePayout, RailAdvancesCollection,
           RailAdvancesPayout, DropPoll,
           SkipCollection, ApplyOpenCollection, FailCollection,
           CompleteAndHold, CompleteAndRelease, Complete, Applying, SkipPayout,
           ApplyOpenPayout, CompletePayout, FailPayout, ApplyingPayout
<1> QED
  BY <1>1, <1>3 DEF PollsHaveRequests

(* The rows of a payment agree at every commit, whatever is repeated,      *)
(* overtaken or lost (deliveries, fiduciary and gateway services).         *)
THEOREM EscrowInvariant == Spec => []EscrowInv
<1>1. Init => EscrowState /\ PollsHaveRequests
  BY NoneApart DEF Init, EscrowState, RowsOf, Books, Collected, Decided,
     Ordered, Approved, EntryKind, PollsHaveRequests
<1>2. EscrowState /\ PollsHaveRequests /\ TypeOK /\ [Next]_vars
        => (EscrowState /\ PollsHaveRequests)'
  <2>1. EscrowInv /\ Next => EscrowState' /\ PollsHaveRequests'
    BY EscrowStateStep, PollsStep
  <2>2. EscrowState /\ UNCHANGED vars => EscrowState'
    BY NoRow DEF vars
  <2>3. PollsHaveRequests /\ UNCHANGED vars => PollsHaveRequests'
    BY DEF PollsHaveRequests, vars
  <2> QED
    BY <2>1, <2>2, <2>3 DEF EscrowInv
<1>3. TypeOK /\ EscrowState /\ PollsHaveRequests <=> EscrowInv
  BY DEF EscrowInv
<1> QED
  BY <1>1, <1>2, <1>3, TypeCorrect, PTL DEF Spec

-----------------------------------------------------------------------------
(* The fiduciary ledger balances at every commit, for all amounts and any  *)
(* number of reconcilers (hold_funds, apply_p2p_status).                   *)
THEOREM LedgerStaysBalanced == Spec => []LedgerBalanced
<1>1. EscrowInv => LedgerBalanced
  BY DEF EscrowInv, EscrowState, RowsOf, Books, LedgerBalanced
<1> QED
  BY <1>1, EscrowInvariant, PTL

(* A claim freezes the money: no settlement and no payout order, ever      *)
(* (open_customer_delivery_claim, start_merchant_payout).                  *)
THEOREM DisputesFreezeFunds == Spec => []DisputedFundsStay
<1>1. ASSUME EscrowInv, NEW p \in Payments, claims[p] > 0
      PROVE  /\ claims[p] = 1 /\ hold[p] = "disputed" /\ settlement[p] = None
             /\ p2pOrders[p] = 0 /\ ~confirmed[p]
  <2>1. RowsOf(p) /\ p2pOrders[p] \in Nat
    BY <1>1 DEF EscrowInv, EscrowState, TypeOK
  <2>2. hold[p] = "disputed" /\ claims[p] = 1
    BY <1>1, <2>1 DEF RowsOf, Decided
  <2>3. ~Approved(p)
    BY <2>2 DEF Approved
  <2>4. settlement[p] = None /\ ~confirmed[p] /\ ~(p2pOrders[p] > 0)
    BY <2>1, <2>3 DEF RowsOf, Decided, Ordered
  <2> QED
    BY <2>1, <2>2, <2>4
<1>2. EscrowInv => DisputedFundsStay
  BY <1>1 DEF DisputedFundsStay
<1> QED
  BY <1>2, EscrowInvariant, PTL

(* No payout is ordered before the delivery was confirmed and the hold     *)
(* approved (start_merchant_payout).                                       *)
THEOREM PayoutsAreConfirmed == Spec => []PayoutNeedsConfirmation
<1>1. EscrowInv => PayoutNeedsConfirmation
  BY DEF EscrowInv, EscrowState, RowsOf, Decided, Ordered, Approved,
     PayoutNeedsConfirmation
<1> QED
  BY <1>1, EscrowInvariant, PTL

(* The payer's two operations are offered only on money that is held and   *)
(* undecided, however stale the polls are (apply_payment_collection_status).*)
THEOREM OffersAreHeld == Spec => []OfferedFundsAreHeld
<1>1. EscrowInv => OfferedFundsAreHeld
  BY DEF EscrowInv, EscrowState, RowsOf, Collected, Decided, Approved,
     OfferedFundsAreHeld
<1> QED
  BY <1>1, EscrowInvariant, PTL
-----------------------------------------------------------------------------
(* With one reconciler no answer is overtaken.  The invariant: every poll  *)
(* under way still knows the status its request has, and no two are about  *)
(* the same request; so an answer is applied to a request that is open,    *)
(* and the status of a payment fits its hold.                              *)
RowOf(q) == IF q.rail = "collection" THEN coll[q.payment] ELSE p2p[q.payment]

PollsInOrder ==
  /\ \A q \in polls : q.seen \in Polled /\ q.seen = RowOf(q)
  /\ \A q, o \in polls : q.rail = o.rail /\ q.payment = o.payment => q = o

Unheld == {"alias_verified", "collection_pending", "awaiting_approval",
           "processing", "rejected", "failed", "cancelled"}

Fits(p) ==
  /\ hold[p] # None => coll[p] = "COMPLETED"
  /\ hold[p] = None => status[p] \in Unheld
  /\ hold[p] = "delivery_pending" => status[p] = "delivery_pending"
  /\ hold[p] = "disputed" => status[p] = "disputed"
  /\ hold[p] = "release_pending" =>
       status[p] = IF p2p[p] = None THEN "release_pending"
                   ELSE "settlement_processing"
  /\ hold[p] = "released" => status[p] = "settled"

StatusesFit == \A p \in Payments : Fits(p)

LEMMA FitsOnePayment ==
  ASSUME StatusesFit, NEW p \in Payments, Fits(p)',
         \A o \in Payments \ {p} :
           /\ hold'[o] = hold[o] /\ status'[o] = status[o]
           /\ coll'[o] = coll[o] /\ p2p'[o] = p2p[o]
  PROVE  StatusesFit'
BY DEF StatusesFit, Fits

LEMMA ReleaseFits ==
  ASSUME EscrowInv, StatusesFit, NEW p \in Payments, Release(p),
         status[p] = "delivery_pending", UNCHANGED <<coll, p2p>>
  PROVE  StatusesFit'
<1>1. TypeOK /\ hold[p] = "delivery_pending" /\ RowsOf(p)
  BY DEF EscrowInv, EscrowState, RowsOf, Collected
<1>2. p2p[p] = None /\ coll[p] = "COMPLETED"
  BY <1>1, NoneApart DEF RowsOf, Ordered, Approved, StatusesFit, Fits
<1>3. /\ hold'[p] = "release_pending" /\ status'[p] = "release_pending"
      /\ \A o \in Payments \ {p} : hold'[o] = hold[o] /\ status'[o] = status[o]
  BY <1>1 DEF TypeOK, Release
<1>4. Fits(p)'
  BY <1>2, <1>3, NoneApart DEF Fits
<1> QED
  BY <1>3, <1>4, FitsOnePayment

LEMMA SettleFits ==
  ASSUME EscrowInv, StatusesFit, NEW p \in Payments, Approved(p), Settle(p),
         UNCHANGED coll, \A o \in Payments \ {p} : p2p'[o] = p2p[o]
  PROVE  StatusesFit'
<1>1. TypeOK /\ hold[p] # None /\ coll[p] = "COMPLETED"
  BY NoneApart DEF EscrowInv, Approved, StatusesFit, Fits
<1>2. /\ hold'[p] = "released" /\ status'[p] = "settled"
      /\ \A o \in Payments \ {p} : hold'[o] = hold[o] /\ status'[o] = status[o]
  BY <1>1 DEF TypeOK, Settle
<1>3. Fits(p)'
  BY <1>1, <1>2, NoneApart DEF Fits
<1> QED
  BY <1>2, <1>3, FitsOnePayment

(* The answer of a poll in order finds its request open, so the payment    *)
(* has no hold an old answer could contradict.                             *)
LEMMA AppliedInOrder ==
  ASSUME EscrowInv, StatusesFit, PollsInOrder, NEW q \in polls,
         ApplyOpenCollection(q) \/ FailCollection(q)
  PROVE  StatusesFit'
<1> DEFINE p == q.payment
<1>1. TypeOK /\ p \in Payments /\ q.rail = "collection" /\ Record(q)
  BY PollTypes DEF EscrowInv, ApplyOpenCollection, FailCollection, Applying
<1>2. coll[p] # "COMPLETED"
  BY <1>1 DEF PollsInOrder, RowOf, Polled
<1>3. hold[p] = None
  BY <1>1, <1>2 DEF StatusesFit, Fits
<1>4. /\ UNCHANGED <<hold, p2p>> /\ status'[p] \in Unheld
      /\ \A o \in Payments \ {p} : /\ coll'[o] = coll[o]
                                   /\ status'[o] = status[o]
  BY <1>1, MappedStatus
     DEF TypeOK, ApplyOpenCollection, FailCollection, Record, Unheld
<1>5. Fits(p)'
  BY <1>3, <1>4, NoneApart DEF Fits
<1> QED
  BY <1>1, <1>4, <1>5, FitsOnePayment

LEMMA CompletedFits ==
  ASSUME EscrowInv, StatusesFit, NEW q \in polls,
         CompleteAndHold(q) \/ CompleteAndRelease(q)
  PROVE  StatusesFit'
<1> DEFINE p == q.payment
<1>1. /\ Complete(q) /\ p \in Payments /\ TypeOK /\ RowsOf(p) /\ hold[p] = None
      /\ \A o \in Payments \ {p} : coll'[o] = coll[o]
  BY CompleteFacts DEF CompleteAndHold, CompleteAndRelease
<1>2. p2p[p] = None /\ UNCHANGED p2p
  BY <1>1, NoneApart DEF RowsOf, Ordered, Approved, Complete
<1>3. coll'[p] = "COMPLETED"
  BY <1>1 DEF TypeOK, Complete, Record
<1>4. /\ hold'[p] = status'[p] /\ hold'[p] \in {"delivery_pending", "release_pending"}
      /\ \A o \in Payments \ {p} : hold'[o] = hold[o] /\ status'[o] = status[o]
  BY <1>1 DEF TypeOK, CompleteAndHold, CompleteAndRelease, Hold, Release
<1>5. Fits(p)'
  BY <1>2, <1>3, <1>4, NoneApart DEF Fits
<1> QED
  BY <1>1, <1>2, <1>4, <1>5, FitsOnePayment

LEMMA StatusesStep ==
  ASSUME EscrowInv, StatusesFit, PollsInOrder, Next
  PROVE  StatusesFit'
<1> USE RecordsAssumption
<1>0. TypeOK
  BY DEF EscrowInv
<1>1. ASSUME NEW p \in Payments, NEW s \in SyncStatus, SubmitCollection(p, s)
      PROVE  StatusesFit'
  <2>1. RowsOf(p) /\ coll[p] = None
    BY <1>1 DEF EscrowInv, EscrowState, SubmitCollection, Submittable
  <2>2. hold[p] = None
    BY <2>1 DEF RowsOf, Collected
  <2>3. /\ UNCHANGED <<hold, p2p>> /\ status'[p] = "collection_pending"
        /\ \A o \in Payments \ {p} : /\ coll'[o] = coll[o]
                                     /\ status'[o] = status[o]
    BY <1>0, <1>1 DEF TypeOK, SubmitCollection
  <2>4. Fits(p)'
    BY <2>2, <2>3, NoneApart DEF Fits, Unheld
  <2> QED
    BY <2>3, <2>4, FitsOnePayment
<1>2. ASSUME NEW p \in Payments, ConfirmWithCode(p) \/ RetryInstant(p)
      PROVE  StatusesFit'
  BY <1>2, ReleaseFits DEF ConfirmWithCode, CodeUsable, RetryInstant,
     InstantReleasable
<1>3. ASSUME NEW p \in Payments, OpenClaim(p) PROVE StatusesFit'
  <2>1. RowsOf(p) /\ status[p] = "delivery_pending"
    BY <1>3 DEF EscrowInv, EscrowState, OpenClaim, CodeUsable
  <2>2. coll[p] = "COMPLETED"
    BY <2>1, NoneApart DEF RowsOf, Collected, StatusesFit, Fits
  <2>3. /\ hold'[p] = "disputed" /\ status'[p] = "disputed"
        /\ UNCHANGED <<coll, p2p>>
        /\ \A o \in Payments \ {p} : hold'[o] = hold[o] /\ status'[o] = status[o]
    BY <1>0, <1>3 DEF TypeOK, OpenClaim
  <2>4. Fits(p)'
    BY <2>2, <2>3, NoneApart DEF Fits
  <2> QED
    BY <2>3, <2>4, FitsOnePayment
<1>4. ASSUME NEW p \in Payments, NEW s \in SyncStatus, StartPayout(p, s)
      PROVE  StatusesFit'
  <2>1. hold[p] = "release_pending" /\ coll[p] = "COMPLETED"
    BY <1>4, OrderFacts, NoneApart DEF StartPayout, OrderPayout, StatusesFit, Fits
  <2>2. /\ UNCHANGED <<hold, coll>> /\ p2p'[p] # None
        /\ status'[p] = "settlement_processing"
        /\ \A o \in Payments \ {p} : p2p'[o] = p2p[o] /\ status'[o] = status[o]
    BY <1>0, <1>4, NoneApart DEF TypeOK, StartPayout, OrderPayout
  <2>3. Fits(p)'
    BY <2>1, <2>2, NoneApart DEF Fits
  <2> QED
    BY <2>2, <2>3, FitsOnePayment
<1>5. ASSUME NEW p \in Payments, StartAndSettle(p) PROVE StatusesFit'
  BY <1>0, <1>5, OrderFacts, SettleFits DEF TypeOK, StartAndSettle, OrderPayout
<1>6. ASSUME NEW q \in polls, ApplyOpenCollection(q) \/ FailCollection(q)
      PROVE  StatusesFit'
  BY <1>6, AppliedInOrder
<1>7. ASSUME NEW q \in polls, CompleteAndHold(q) \/ CompleteAndRelease(q)
      PROVE  StatusesFit'
  BY <1>7, CompletedFits
<1>8. ASSUME NEW q \in polls, ApplyOpenPayout(q) \/ FailPayout(q)
      PROVE  StatusesFit'
  <2>1. /\ q.rail = "p2p" /\ q.result # None /\ RecordPayout(q)
        /\ UNCHANGED <<status, hold, coll>>
    BY <1>8 DEF ApplyOpenPayout, FailPayout, ApplyingPayout
  <2>2. q.payment \in Payments /\ p2p[q.payment] # None
    BY <2>1, PollTypes DEF EscrowInv, PollsHaveRequests
  <2>3. /\ p2p'[q.payment] # None
        /\ \A o \in Payments \ {q.payment} : p2p'[o] = p2p[o]
    BY <1>0, <2>1, <2>2 DEF TypeOK, RecordPayout
  <2>4. Fits(q.payment)'
    BY <2>1, <2>2, <2>3 DEF StatusesFit, Fits
  <2> QED
    BY <2>1, <2>2, <2>3, <2>4, FitsOnePayment
<1>9. ASSUME NEW q \in polls, CompletePayout(q) PROVE StatusesFit'
  <2>1. /\ q.payment \in Payments /\ Approved(q.payment) /\ Settle(q.payment)
        /\ UNCHANGED coll
        /\ \A o \in Payments \ {q.payment} : p2p'[o] = p2p[o]
    BY <1>0, <1>9, PolledPayoutIsApproved
       DEF TypeOK, CompletePayout, ApplyingPayout, RecordPayout
  <2> QED
    BY <2>1, SettleFits
<1>10. CASE UNCHANGED <<status, hold, coll, p2p>>
  BY <1>10 DEF StatusesFit, Fits
<1> QED
  BY <1>1, <1>2, <1>3, <1>4, <1>5, <1>6, <1>7, <1>8, <1>9, <1>10, Steps
     DEF LoseCollection, ViewExpired, ExpireSession, WrongCode, LosePayout,
         RailAdvancesCollection, RailAdvancesPayout, ReadCollections,
         ReadPayouts, Ask, DropPoll, SkipCollection, SkipPayout

LEMMA PollsStayInOrder ==
  ASSUME PollsInOrder, polls' \subseteq polls,
         \A q \in polls' : RowOf(q)' = RowOf(q)
  PROVE  PollsInOrder'
BY DEF PollsInOrder

LEMMA OrderStep ==
  ASSUME \A r, s \in Reconcilers : r = s, EscrowInv, PollsInOrder, Next
  PROVE  PollsInOrder'
<1> USE RecordsAssumption
<1>0. TypeOK
  BY DEF EscrowInv
<1>1. ASSUME NEW p \in Payments, NEW s \in SyncStatus, SubmitCollection(p, s)
      PROVE  PollsInOrder'
  <2>1. \A q \in polls : q.rail = "collection" => q.payment # p
    BY <1>1 DEF SubmitCollection, Submittable, EscrowInv, PollsHaveRequests
  <2>2. /\ UNCHANGED <<polls, p2p>>
        /\ \A o \in Payments \ {p} : coll'[o] = coll[o]
    BY <1>0, <1>1 DEF TypeOK, SubmitCollection
  <2> QED
    BY <1>0, <2>1, <2>2, PollTypes, PollsStayInOrder DEF RowOf
<1>2. ASSUME NEW p \in Payments, NEW s, OrderPayout(p, s) PROVE PollsInOrder'
  <2>1. \A q \in polls : q.rail # "collection" => q.payment # p
    BY <1>2 DEF OrderPayout, Payable, EscrowInv, PollsHaveRequests
  <2>2. /\ UNCHANGED <<polls, coll>>
        /\ \A o \in Payments \ {p} : p2p'[o] = p2p[o]
    BY <1>0, <1>2 DEF TypeOK, OrderPayout
  <2> QED
    BY <1>0, <2>1, <2>2, PollTypes, PollsStayInOrder DEF RowOf
<1>3. ASSUME NEW q \in polls, polls' = polls \ {q},
             \/ /\ q.rail = "collection" /\ UNCHANGED p2p
                /\ \A o \in Payments \ {q.payment} : coll'[o] = coll[o]
             \/ /\ q.rail = "p2p" /\ UNCHANGED coll
                /\ \A o \in Payments \ {q.payment} : p2p'[o] = p2p[o]
      PROVE  PollsInOrder'
  <2>1. \A o \in polls' : o.rail # q.rail \/ o.payment # q.payment
    BY <1>3 DEF PollsInOrder
  <2>2. \A o \in polls' : o.payment \in Payments /\ o.rail \in {"collection", "p2p"}
    BY <1>0, <1>3 DEF TypeOK, Poll
  <2>3. ASSUME NEW o \in polls' PROVE RowOf(o)' = RowOf(o)
    BY <1>3, <2>1, <2>2 DEF RowOf
  <2> QED
    BY <1>3, <2>3, PollsStayInOrder
<1>4. ASSUME NEW q \in polls,
             \/ ApplyOpenCollection(q) \/ FailCollection(q)
             \/ CompleteAndHold(q) \/ CompleteAndRelease(q)
      PROVE  PollsInOrder'
  <2>1. /\ q.rail = "collection" /\ polls' = polls \ {q} /\ UNCHANGED p2p
        /\ Record(q)
    BY <1>4 DEF ApplyOpenCollection, FailCollection, CompleteAndHold,
       CompleteAndRelease, Complete, Applying
  <2>2. \A o \in Payments \ {q.payment} : coll'[o] = coll[o]
    BY <1>0, <2>1 DEF TypeOK, Record
  <2> QED
    BY <1>3, <2>1, <2>2
<1>5. ASSUME NEW q \in polls,
             ApplyOpenPayout(q) \/ CompletePayout(q) \/ FailPayout(q)
      PROVE  PollsInOrder'
  <2>1. /\ q.rail = "p2p" /\ polls' = polls \ {q} /\ UNCHANGED coll
        /\ RecordPayout(q)
    BY <1>5 DEF ApplyOpenPayout, CompletePayout, FailPayout, ApplyingPayout
  <2>2. \A o \in Payments \ {q.payment} : p2p'[o] = p2p[o]
    BY <1>0, <2>1 DEF TypeOK, RecordPayout
  <2> QED
    BY <1>3, <2>1, <2>2
<1>6. ASSUME NEW r \in Reconcilers, Idle(r) PROVE polls = {}
  BY <1>0, <1>6, PollTypes DEF Idle
<1>7. ASSUME NEW r \in Reconcilers, NEW batch \in SUBSET Payments,
             ReadCollections(r, batch)
      PROVE  PollsInOrder'
  BY <1>6, <1>7 DEF ReadCollections, DueCollections, PollsInOrder, RowOf
<1>8. ASSUME NEW r \in Reconcilers, NEW batch \in SUBSET Payments,
             ReadPayouts(r, batch)
      PROVE  PollsInOrder'
  BY <1>6, <1>8 DEF ReadPayouts, DuePayouts, PollsInOrder, RowOf
<1>9. ASSUME NEW q \in polls, Ask(q) PROVE PollsInOrder'
  <2> DEFINE answered == [q EXCEPT !.result = RailAnswer(q)]
  <2>1. /\ answered.payment = q.payment /\ answered.rail = q.rail
        /\ answered.seen = q.seen
    BY <1>0, PollTypes DEF Poll
  <2>2. /\ UNCHANGED <<coll, p2p>>
        /\ \A o \in polls' : (o \in polls /\ o # q) \/ o = answered
    BY <1>9 DEF Ask
  <2> HIDE DEF answered
  <2> QED
    BY <2>1, <2>2 DEF PollsInOrder, RowOf
<1>10. CASE polls' \subseteq polls /\ UNCHANGED <<coll, p2p>>
  BY <1>10, PollsStayInOrder DEF RowOf
<1> QED
  BY <1>1, <1>2, <1>4, <1>5, <1>7, <1>8, <1>9, <1>10, Steps, ZenonT(60)
     DEF LoseCollection, ViewExpired, ExpireSession, ConfirmWithCode, WrongCode,
         OpenClaim, RetryInstant, StartPayout, StartAndSettle, LosePayout,
         RailAdvancesCollection, RailAdvancesPayout, DropPoll, SkipCollection,
         SkipPayout, Applying, ApplyingPayout

(* With one reconciler a payment's status never contradicts its hold: no   *)
(* answer is overtaken (apply_payment_collection_status writes the status  *)
(* of whatever answer it gets).                                            *)
THEOREM StatusIsRight ==
  ASSUME \A r, s \in Reconcilers : r = s
  PROVE  Spec => []StatusFollowsHold
<1>1. Init => StatusesFit /\ PollsInOrder
  BY NoneApart DEF Init, StatusesFit, Fits, Unheld, PollsInOrder
<1>2. EscrowInv /\ StatusesFit /\ PollsInOrder /\ [Next]_vars
        => (StatusesFit /\ PollsInOrder)'
  <2>1. EscrowInv /\ StatusesFit /\ PollsInOrder /\ Next
          => StatusesFit' /\ PollsInOrder'
    BY StatusesStep, OrderStep
  <2>2. StatusesFit /\ UNCHANGED vars => StatusesFit'
    BY DEF StatusesFit, Fits, vars
  <2>3. PollsInOrder /\ UNCHANGED vars => PollsInOrder'
    BY DEF PollsInOrder, RowOf, vars
  <2> QED
    BY <2>1, <2>2, <2>3
<1>3. EscrowInv /\ StatusesFit => StatusFollowsHold
  <2>1. ASSUME EscrowInv, StatusesFit, NEW p \in Payments
        PROVE  status[p] \in
          CASE hold[p] = "delivery_pending" -> {"delivery_pending"}
            [] hold[p] = "disputed"         -> {"disputed"}
            [] hold[p] = "release_pending"  ->
                 IF p2p[p] = None THEN {"release_pending"}
                 ELSE {"settlement_processing"}
            [] hold[p] = "released"         -> {"settled"}
            [] OTHER -> Unheld
    <3>1. Fits(p) /\ hold[p] \in HoldStatus \cup {None}
      BY <2>1 DEF StatusesFit, EscrowInv, TypeOK
    <3> QED
      BY <3>1, NoneApart DEF Fits, HoldStatus
  <2> QED
    BY <2>1 DEF StatusFollowsHold, Unheld
<1> QED
  BY <1>1, <1>2, <1>3, EscrowInvariant, PTL DEF Spec
=============================================================================
