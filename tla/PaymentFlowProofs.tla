------------------------- MODULE PaymentFlowProofs --------------------------
(***************************************************************************)
(* Theorems about PaymentFlow, for any set of payments and reconcilers and *)
(* any amounts.                                                            *)
(***************************************************************************)
EXTENDS PaymentFlow, TLAPS

USE DEF codeVars, sessionVars, collVars, fundVars, deliveryVars, payoutVars,
        railVars

(* The steps of Next, one disjunct per action of the components.           *)
LEMMA Steps ==
  ASSUME Next
  PROVE  \/ \E p \in Payments :
              \/ \E s \in SyncStatus : SubmitCollection(p, s)
              \/ LoseCollection(p) \/ ViewExpired(p) \/ ExpireSession(p)
              \/ ConfirmWithCode(p) \/ WrongCode(p) \/ OpenClaim(p)
              \/ RetryInstant(p)
              \/ \E s \in SyncStatus : StartPayout(p, s)
              \/ StartAndSettle(p) \/ LosePayout(p)
              \/ RailAdvancesCollection(p) \/ RailAdvancesPayout(p)
         \/ \E r \in Reconcilers :
              \/ \E batch \in SUBSET Payments : ReadCollections(r, batch)
              \/ \E batch \in SUBSET Payments : ReadPayouts(r, batch)
         \/ \E q \in polls :
              \/ Ask(q) \/ DropPoll(q)
              \/ SkipCollection(q) \/ ApplyOpenCollection(q)
              \/ FailCollection(q) \/ CompleteAndHold(q)
              \/ CompleteAndRelease(q)
              \/ SkipPayout(q) \/ ApplyOpenPayout(q) \/ CompletePayout(q)
              \/ FailPayout(q)
<1>1. DueCollections \subseteq Payments /\ DuePayouts \subseteq Payments
  BY DEF DueCollections, DuePayouts
<1> QED
  BY <1>1 DEF Next, Checkout, Payer, Reconcile, Rail, OrderingPayout, ApplyPoll

(* What ApplyOpenCollection and FailCollection write is a payment status.  *)
LEMMA MappedStatus ==
  /\ \A s \in Polled : OpenStatus[s] \in
       {"collection_pending", "awaiting_approval", "processing"}
  /\ \A s \in Failures : FailedStatus[s] \in {"rejected", "failed", "cancelled"}
BY DEF Polled, Failures, OpenStatus, FailedStatus

LEMMA EmitType ==
  ASSUME NEW p \in Payments, NEW types, Emit(p, types),
         emitted \in [Payments -> [EventType -> Nat]]
  PROVE  emitted' \in [Payments -> [EventType -> Nat]]
<1>1. [t \in EventType |-> emitted[p][t] + (IF t \in types THEN 1 ELSE 0)]
        \in [EventType -> Nat]
  OBVIOUS
<1> QED
  BY <1>1 DEF Emit

(* TypeOK is not inductive alone: that wrong attempts stay within their    *)
(* limit needs the lock to come on exactly at the limit.                   *)
LockAtLimit == \A p \in Payments : locked[p] <=> attempts[p] = MaxAttempts

LEMMA CheckoutTypes ==
  ASSUME TypeOK, NEW p \in Payments,
         \/ \E s \in SyncStatus : SubmitCollection(p, s)
         \/ LoseCollection(p) \/ ViewExpired(p) \/ ExpireSession(p)
  PROVE  TypeOK'
<1> USE RecordsAssumption
<1>1. ASSUME NEW s \in SyncStatus, SubmitCollection(p, s) PROVE TypeOK'
  BY <1>1 DEF TypeOK, SubmitCollection, PaymentStatus, SessionStatus
<1>2. CASE LoseCollection(p)
  BY <1>2 DEF TypeOK, LoseCollection
<1>3. CASE ViewExpired(p)
  BY <1>3 DEF TypeOK, ViewExpired
<1>4. CASE ExpireSession(p)
  BY <1>4 DEF TypeOK, ExpireSession, SessionStatus
<1> QED
  BY <1>1, <1>2, <1>3, <1>4

LEMMA EscrowTypes ==
  ASSUME TypeOK, LockAtLimit, NEW p \in Payments,
         \/ ConfirmWithCode(p) \/ WrongCode(p) \/ OpenClaim(p)
         \/ RetryInstant(p)
  PROVE  TypeOK'
<1> USE RecordsAssumption
<1>1. CASE ConfirmWithCode(p) \/ RetryInstant(p)
  <2>1. emitted' \in [Payments -> [EventType -> Nat]]
    BY <1>1, EmitType DEF TypeOK, ConfirmWithCode, RetryInstant
  <2> QED
    BY <1>1, <2>1, ZenonT(60) DEF TypeOK, ConfirmWithCode, RetryInstant, Release,
       PaymentStatus, HoldStatus, SettlementStatus, Decision, DeliveryStatus
<1>2. CASE WrongCode(p)
  <2>1. attempts[p] # MaxAttempts
    BY <1>2 DEF WrongCode, CodeUsable, LockAtLimit
  <2>2. attempts[p] + 1 \in 0..MaxAttempts
    <3>1. attempts[p] \in 0..MaxAttempts /\ MaxAttempts \in Nat
      BY DEF TypeOK
    <3> QED
      BY ONLY <2>1, <3>1, SMT
  <2>3. attempts' \in [Payments -> 0..MaxAttempts]
    BY <1>2, <2>2 DEF TypeOK, WrongCode
  <2>4. locked' = locked \/ locked' = [locked EXCEPT ![p] = TRUE]
    BY <1>2 DEF WrongCode
  <2>5. locked' \in [Payments -> BOOLEAN]
    BY <2>4 DEF TypeOK
  <2> QED
    BY <1>2, <2>3, <2>5 DEF TypeOK, WrongCode
<1>3. CASE OpenClaim(p)
  <2>1. emitted' \in [Payments -> [EventType -> Nat]]
    BY <1>3, EmitType DEF TypeOK, OpenClaim
  <2>2. claims' \in [Payments -> Nat]
    BY <1>3 DEF TypeOK, OpenClaim
  <2> QED
    BY <1>3, <2>1, <2>2 DEF TypeOK, OpenClaim, PaymentStatus, HoldStatus,
       Decision, DeliveryStatus
<1> QED
  BY <1>1, <1>2, <1>3

(* A poll in TypeOK is a record of these parts, and dropping it is safe.   *)
LEMMA PollTypes ==
  ASSUME TypeOK, NEW q \in polls
  PROVE  /\ q \in Poll
         /\ q.by \in Reconcilers
         /\ q.payment \in Payments
         /\ q.seen \in AnyStatus
         /\ q.result \in AnyStatus \cup {None}
         /\ polls \ {q} \subseteq Poll
BY DEF TypeOK, Poll

(* The ledger after a credit, and after the two debits of a release.       *)
LEMMA CreditType ==
  ASSUME NEW p \in Payments, ledger \in [Payments -> [EntryKind -> Nat]],
         Credit(p)
  PROVE  /\ ledger' \in [Payments -> [EntryKind -> Nat]]
         /\ \A o \in Payments \ {p} : ledger'[o] = ledger[o]
         /\ ledger'[p].customer_funds =
              IF hold[p] = None THEN ledger[p].customer_funds + Gross[p]
              ELSE ledger[p].customer_funds
         /\ ledger'[p].release = ledger[p].release
         /\ ledger'[p].fee = ledger[p].fee
<1> DEFINE funds == IF hold[p] = None THEN ledger[p].customer_funds + Gross[p]
                    ELSE ledger[p].customer_funds
           row == [ledger[p] EXCEPT !.customer_funds = funds]
<1>1. ledger[p] \in [EntryKind -> Nat] /\ Gross[p] \in Nat
  BY RecordsAssumption
<1>2. funds \in Nat
  BY <1>1 DEF EntryKind
<1>3. row \in [EntryKind -> Nat]
  BY <1>1, <1>2
<1>4. row.customer_funds = funds /\ row.release = ledger[p].release
        /\ row.fee = ledger[p].fee
  BY <1>1 DEF EntryKind
<1>5. ledger' = [ledger EXCEPT ![p] = row]
  BY DEF Credit
<1> QED
  BY <1>3, <1>4, <1>5

LEMMA CollectionTypes ==
  ASSUME TypeOK, NEW q \in polls,
         \/ SkipCollection(q) \/ ApplyOpenCollection(q) \/ FailCollection(q)
         \/ CompleteAndHold(q) \/ CompleteAndRelease(q)
  PROVE  TypeOK'
<1> USE RecordsAssumption, PollTypes
<1> DEFINE p == q.payment
<1>0. ASSUME Complete(q)
      PROVE  /\ ledger' \in [Payments -> [EntryKind -> Nat]]
             /\ coll' \in [Payments -> AnyStatus \cup {None}]
             /\ collEvents' \in [Payments -> SUBSET AnyStatus]
             /\ session' \in [Payments -> SessionStatus]
             /\ polls' \subseteq Poll
  <2>1. ledger' \in [Payments -> [EntryKind -> Nat]]
    BY <1>0, CreditType DEF TypeOK, Complete
  <2>2. /\ coll' \in [Payments -> AnyStatus \cup {None}]
        /\ collEvents' \in [Payments -> SUBSET AnyStatus]
    <3>1. q.result \in AnyStatus
      BY <1>0 DEF Complete, AnyStatus
    <3>2. /\ coll' = [coll EXCEPT ![p] = q.result]
          /\ collEvents' = [collEvents EXCEPT ![p] = @ \cup {q.result}]
      BY <1>0 DEF Complete, Record
    <3> QED
      BY <3>1, <3>2 DEF TypeOK
  <2>3. session' \in [Payments -> SessionStatus]
    BY <1>0 DEF TypeOK, Complete, SessionStatus
  <2>4. polls' \subseteq Poll
    BY <1>0 DEF Complete, Applying
  <2> QED
    BY <2>1, <2>2, <2>3, <2>4
<1>1. CASE SkipCollection(q)
  BY <1>1 DEF TypeOK, SkipCollection, Applying
<1>2. CASE ApplyOpenCollection(q)
  BY <1>2, MappedStatus
     DEF TypeOK, ApplyOpenCollection, Applying, Record, PaymentStatus
<1>3. CASE FailCollection(q)
  <2>1. emitted' \in [Payments -> [EventType -> Nat]]
    BY <1>3, EmitType DEF TypeOK, FailCollection
  <2> QED
    BY <1>3, <2>1, MappedStatus DEF TypeOK, FailCollection, Applying, Record,
       PaymentStatus, SessionStatus
<1>4. CASE CompleteAndHold(q)
  <2>1. emitted' \in [Payments -> [EventType -> Nat]]
    BY <1>4, EmitType DEF TypeOK, CompleteAndHold
  <2>2. /\ status' \in [Payments -> PaymentStatus]
        /\ hold' \in [Payments -> HoldStatus \cup {None}]
    BY <1>4 DEF TypeOK, CompleteAndHold, Hold, PaymentStatus, HoldStatus
  <2> QED
    BY <1>4, <1>0, <2>1, <2>2 DEF TypeOK, CompleteAndHold, Complete
<1>5. CASE CompleteAndRelease(q)
  <2>1. emitted' \in [Payments -> [EventType -> Nat]]
    BY <1>5, EmitType DEF TypeOK, CompleteAndRelease
  <2>2. /\ status' \in [Payments -> PaymentStatus]
        /\ hold' \in [Payments -> HoldStatus \cup {None}]
        /\ settlement' \in [Payments -> SettlementStatus \cup {None}]
        /\ delivery' \in [Payments -> DeliveryStatus \cup {None}]
        /\ decision' \in [Payments -> Decision \cup {None}]
        /\ confirmed' \in [Payments -> BOOLEAN]
        /\ hasCode' \in [Payments -> BOOLEAN]
    BY <1>5 DEF TypeOK, CompleteAndRelease, Release, PaymentStatus,
       HoldStatus, SettlementStatus, Decision, DeliveryStatus
  <2> QED
    BY <1>5, <1>0, <2>1, <2>2 DEF TypeOK, CompleteAndRelease, Complete
<1> QED
  BY <1>1, <1>2, <1>3, <1>4, <1>5

LEMMA DebitType ==
  ASSUME NEW p \in Payments, ledger \in [Payments -> [EntryKind -> Nat]],
         Settle(p)
  PROVE  /\ ledger' \in [Payments -> [EntryKind -> Nat]]
         /\ \A o \in Payments \ {p} : ledger'[o] = ledger[o]
         /\ ledger'[p].customer_funds = ledger[p].customer_funds
         /\ ledger'[p].release =
              IF ledger[p].release = 0 THEN Net(p) ELSE ledger[p].release
         /\ ledger'[p].fee = IF ledger[p].fee = 0 THEN Fee[p] ELSE ledger[p].fee
<1> DEFINE net == IF ledger[p].release = 0 THEN Net(p) ELSE ledger[p].release
           fee == IF ledger[p].fee = 0 THEN Fee[p] ELSE ledger[p].fee
           row == [ledger[p] EXCEPT !.release = net, !.fee = fee]
<1>1. /\ ledger[p] \in [EntryKind -> Nat]
      /\ Net(p) \in Nat /\ Fee[p] \in Nat
  BY RecordsAssumption DEF Net
<1>2. net \in Nat /\ fee \in Nat
  BY <1>1 DEF EntryKind
<1>3. row \in [EntryKind -> Nat]
  BY <1>1, <1>2
<1>4. row.release = net /\ row.fee = fee
        /\ row.customer_funds = ledger[p].customer_funds
  BY <1>1 DEF EntryKind
<1>5. ledger' = [ledger EXCEPT ![p] = row]
  BY DEF Settle
<1> QED
  BY <1>3, <1>4, <1>5

LEMMA SettleTypes ==
  ASSUME TypeOK, NEW p \in Payments, Settle(p)
  PROVE  /\ settlement' \in [Payments -> SettlementStatus \cup {None}]
         /\ hold' \in [Payments -> HoldStatus \cup {None}]
         /\ ledger' \in [Payments -> [EntryKind -> Nat]]
         /\ status' \in [Payments -> PaymentStatus]
         /\ emitted' \in [Payments -> [EventType -> Nat]]
<1>1. ledger' \in [Payments -> [EntryKind -> Nat]]
  BY DebitType DEF TypeOK
<1>2. emitted' \in [Payments -> [EventType -> Nat]]
  BY EmitType DEF TypeOK, Settle
<1> QED
  BY <1>1, <1>2 DEF TypeOK, Settle, SettlementStatus, HoldStatus,
     PaymentStatus

LEMMA RecordPayoutTypes ==
  ASSUME TypeOK, NEW q \in polls, ApplyingPayout(q), RecordPayout(q)
  PROVE  /\ p2p' \in [Payments -> AnyStatus \cup {None}]
         /\ p2pEvents' \in [Payments -> SUBSET ({"sync", "poll"} \X AnyStatus)]
         /\ polls' \subseteq Poll
<1>1. /\ q.payment \in Payments /\ q.result \in AnyStatus
      /\ polls \ {q} \subseteq Poll
  BY PollTypes DEF ApplyingPayout
<1>2. p2p' \in [Payments -> AnyStatus \cup {None}]
  BY <1>1 DEF TypeOK, RecordPayout
<1>3. p2pEvents' \in [Payments -> SUBSET ({"sync", "poll"} \X AnyStatus)]
  BY <1>1 DEF TypeOK, RecordPayout
<1> QED
  BY <1>1, <1>2, <1>3 DEF ApplyingPayout

LEMMA PayoutTypes ==
  ASSUME TypeOK,
         \/ \E p \in Payments :
              \/ \E s \in SyncStatus : StartPayout(p, s)
              \/ StartAndSettle(p) \/ LosePayout(p)
         \/ \E q \in polls :
              \/ SkipPayout(q) \/ ApplyOpenPayout(q) \/ CompletePayout(q)
              \/ FailPayout(q)
  PROVE  TypeOK'
<1> USE RecordsAssumption
<1>0. ASSUME NEW p \in Payments, NEW s \in AnyStatus, OrderPayout(p, s)
      PROVE  /\ p2p' \in [Payments -> AnyStatus \cup {None}]
             /\ railP2P' \in [Payments -> AnyStatus \cup {None}]
             /\ p2pOrders' \in [Payments -> Nat]
  BY <1>0 DEF TypeOK, OrderPayout
<1>1. ASSUME NEW p \in Payments, NEW s \in SyncStatus, StartPayout(p, s)
      PROVE  TypeOK'
  <2>1. s \in AnyStatus
    OBVIOUS
  <2>2. /\ status' \in [Payments -> PaymentStatus]
        /\ settlement' \in [Payments -> SettlementStatus \cup {None}]
    BY <1>1 DEF TypeOK, StartPayout, PaymentStatus, SettlementStatus
  <2> QED
    BY <1>0, <1>1, <2>1, <2>2 DEF TypeOK, StartPayout, OrderPayout
<1>2. ASSUME NEW p \in Payments, StartAndSettle(p) PROVE TypeOK'
  <2>1. "COMPLETED" \in AnyStatus
    BY DEF AnyStatus
  <2>2. /\ p2p' \in [Payments -> AnyStatus \cup {None}]
        /\ railP2P' \in [Payments -> AnyStatus \cup {None}]
        /\ p2pOrders' \in [Payments -> Nat]
    BY <1>0, <1>2, <2>1 DEF StartAndSettle
  <2>3. p2pEvents' \in [Payments -> SUBSET ({"sync", "poll"} \X AnyStatus)]
    BY <1>2, <2>1 DEF TypeOK, StartAndSettle
  <2> QED
    BY <1>2, <2>2, <2>3, SettleTypes DEF TypeOK, StartAndSettle, OrderPayout
<1>3. ASSUME NEW p \in Payments, LosePayout(p) PROVE TypeOK'
  BY <1>3 DEF TypeOK, LosePayout
<1>4. ASSUME NEW q \in polls, SkipPayout(q) PROVE TypeOK'
  BY <1>4, PollTypes DEF TypeOK, SkipPayout, ApplyingPayout
<1>5. ASSUME NEW q \in polls, ApplyOpenPayout(q) PROVE TypeOK'
  BY <1>5, RecordPayoutTypes DEF TypeOK, ApplyOpenPayout
<1>6. ASSUME NEW q \in polls, CompletePayout(q) PROVE TypeOK'
  BY <1>6, PollTypes, SettleTypes, RecordPayoutTypes DEF TypeOK, CompletePayout
<1>7. ASSUME NEW q \in polls, FailPayout(q) PROVE TypeOK'
  <2>1. emitted' \in [Payments -> [EventType -> Nat]]
    BY <1>7, PollTypes, EmitType DEF TypeOK, FailPayout
  <2>2. settlement' \in [Payments -> SettlementStatus \cup {None}]
    BY <1>7 DEF TypeOK, FailPayout, SettlementStatus
  <2> QED
    BY <1>7, <2>1, <2>2, RecordPayoutTypes DEF TypeOK, FailPayout
<1> QED
  BY <1>1, <1>2, <1>3, <1>4, <1>5, <1>6, <1>7

LEMMA ReconcilerTypes ==
  ASSUME TypeOK,
         \/ \E r \in Reconcilers :
              \/ \E batch \in SUBSET Payments : ReadCollections(r, batch)
              \/ \E batch \in SUBSET Payments : ReadPayouts(r, batch)
         \/ \E q \in polls : Ask(q) \/ DropPoll(q)
         \/ \E p \in Payments : RailAdvancesCollection(p) \/ RailAdvancesPayout(p)
  PROVE  TypeOK'
<1> USE RecordsAssumption
<1>1. ASSUME NEW r \in Reconcilers, NEW batch \in SUBSET Payments,
             ReadCollections(r, batch)
      PROVE  TypeOK'
  <2>1. \A p \in batch : coll[p] \in AnyStatus
    BY <1>1 DEF ReadCollections, DueCollections, Polled, AnyStatus
  <2> QED
    BY <1>1, <2>1 DEF TypeOK, ReadCollections, Poll
<1>2. ASSUME NEW r \in Reconcilers, NEW batch \in SUBSET Payments,
             ReadPayouts(r, batch)
      PROVE  TypeOK'
  <2>1. \A p \in batch : p2p[p] \in AnyStatus
    BY <1>2 DEF ReadPayouts, DuePayouts, Polled, AnyStatus
  <2> QED
    BY <1>2, <2>1 DEF TypeOK, ReadPayouts, Poll
<1>3. ASSUME NEW q \in polls, Ask(q) PROVE TypeOK'
  <2>1. RailAnswer(q) \in AnyStatus \cup {None}
    BY PollTypes DEF TypeOK, RailAnswer
  <2>2. [q EXCEPT !.result = RailAnswer(q)] \in Poll
    BY <2>1, PollTypes DEF Poll
  <2> QED
    BY <1>3, <2>2, PollTypes DEF TypeOK, Ask
<1>4. ASSUME NEW q \in polls, DropPoll(q) PROVE TypeOK'
  BY <1>4 DEF TypeOK, DropPoll
<1>5. \A s : LaterStatus(s) \subseteq AnyStatus
  BY DEF LaterStatus
<1>6. ASSUME NEW p \in Payments, RailAdvancesCollection(p) PROVE TypeOK'
  BY <1>5, <1>6 DEF TypeOK, RailAdvancesCollection
<1>7. ASSUME NEW p \in Payments, RailAdvancesPayout(p) PROVE TypeOK'
  BY <1>5, <1>7 DEF TypeOK, RailAdvancesPayout
<1> QED
  BY <1>1, <1>2, <1>3, <1>4, <1>6, <1>7

LEMMA LockStep ==
  ASSUME TypeOK, LockAtLimit, Next
  PROVE  LockAtLimit'
<1> USE RecordsAssumption
<1>1. ASSUME NEW p \in Payments, WrongCode(p) PROVE LockAtLimit'
  <2>1. attempts[p] # MaxAttempts
    BY <1>1 DEF WrongCode, CodeUsable, LockAtLimit
  <2>2. attempts[p] \in 0..MaxAttempts
    BY DEF TypeOK
  <2>3. attempts[p] + 1 >= MaxAttempts <=> attempts[p] + 1 = MaxAttempts
    BY <2>1, <2>2
  <2>4. /\ attempts'[p] = attempts[p] + 1
        /\ \A o \in Payments \ {p} : attempts'[o] = attempts[o]
    BY <1>1 DEF TypeOK, WrongCode
  <2>5. CASE attempts[p] + 1 = MaxAttempts
    <3>1. locked' = [locked EXCEPT ![p] = TRUE]
      BY <1>1, <2>3, <2>5 DEF WrongCode
    <3> QED
      BY <2>4, <2>5, <3>1 DEF TypeOK, LockAtLimit
  <2>6. CASE attempts[p] + 1 # MaxAttempts
    <3>1. locked' = locked
      BY <1>1, <2>3, <2>6 DEF WrongCode
    <3>2. ~locked[p]
      BY <1>1 DEF WrongCode, CodeUsable
    <3> QED
      BY <2>4, <2>6, <3>1, <3>2 DEF LockAtLimit
  <2> QED
    BY <2>5, <2>6
<1>2. ASSUME NEW p \in Payments, NEW s \in SyncStatus, SubmitCollection(p, s)
      PROVE  LockAtLimit'
  BY <1>2 DEF TypeOK, LockAtLimit, SubmitCollection
<1>3. CASE UNCHANGED <<attempts, locked>>
  BY <1>3 DEF LockAtLimit
<1> QED
  BY <1>1, <1>2, <1>3, Steps, ZenonT(60)
     DEF LoseCollection, ViewExpired, ExpireSession, ConfirmWithCode, OpenClaim,
         RetryInstant, StartPayout, StartAndSettle, OrderPayout, LosePayout,
         RailAdvancesCollection, RailAdvancesPayout, ReadCollections,
         ReadPayouts, Ask, DropPoll, SkipCollection, ApplyOpenCollection,
         FailCollection, CompleteAndHold, CompleteAndRelease, Complete,
         SkipPayout, ApplyOpenPayout, CompletePayout, FailPayout

(* The tables of the database keep their types, and the attempts at a code *)
(* their limit, whatever the payer, the reconcilers and the rail do.       *)
THEOREM TypeCorrect == Spec => []TypeOK
<1>1. Init => TypeOK /\ LockAtLimit
  BY RecordsAssumption DEF Init, TypeOK, LockAtLimit, PaymentStatus,
     SessionStatus, EntryKind
<1>2. TypeOK /\ LockAtLimit /\ [Next]_vars => (TypeOK /\ LockAtLimit)'
  <2>1. TypeOK /\ LockAtLimit /\ Next => TypeOK'
    BY Steps, CheckoutTypes, EscrowTypes, CollectionTypes, PayoutTypes,
       ReconcilerTypes
  <2>2. TypeOK /\ LockAtLimit /\ Next => LockAtLimit'
    BY LockStep
  <2>3. TypeOK /\ LockAtLimit /\ UNCHANGED vars => (TypeOK /\ LockAtLimit)'
    BY DEF TypeOK, LockAtLimit, vars
  <2> QED
    BY <2>1, <2>2, <2>3
<1> QED
  BY <1>1, <1>2, PTL DEF Spec
=============================================================================
