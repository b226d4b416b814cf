--------------------------- MODULE ContractProofs ---------------------------
(***************************************************************************)
(* PaymentFlow implements EscrowContract, for any payments, reconcilers    *)
(* and amounts.                                                            *)
(***************************************************************************)
EXTENDS EscrowProofs

USE DEF codeVars, sessionVars, collVars, fundVars, deliveryVars, payoutVars,
        railVars

(* Where one step may take the hold of a payment.                          *)
Moves(p) ==
  \/ /\ hold[p] = None
     /\ \/ hold' = [hold EXCEPT ![p] = "delivery_pending"]
        \/ p \in Instant /\ hold' = [hold EXCEPT ![p] = "release_pending"]
  \/ /\ hold[p] = "delivery_pending"
     /\ \/ hold' = [hold EXCEPT ![p] = "release_pending"]
        \/ hold' = [hold EXCEPT ![p] = "disputed"]
  \/ /\ hold[p] = "release_pending"
     /\ hold' = [hold EXCEPT ![p] = "released"]

LEMMA HoldStep ==
  ASSUME EscrowInv, Next
  PROVE  hold' = hold \/ \E p \in Payments : Moves(p)
<1> USE RecordsAssumption
<1>1. ASSUME NEW p \in Payments,
             ConfirmWithCode(p) \/ RetryInstant(p) \/ OpenClaim(p)
      PROVE  Moves(p)
  <2>1. hold[p] = "delivery_pending"
    BY <1>1 DEF EscrowInv, EscrowState, RowsOf, Collected, ConfirmWithCode,
       CodeUsable, OpenClaim, RetryInstant, InstantReleasable
  <2> QED
    BY <1>1, <2>1 DEF Moves, ConfirmWithCode, RetryInstant, OpenClaim, Release
<1>2. ASSUME NEW q \in polls, CompleteAndHold(q) \/ CompleteAndRelease(q)
      PROVE  \E p \in Payments : Moves(p)
  <2>1. q.payment \in Payments /\ TypeOK /\ hold[q.payment] = None
    BY <1>2, CompleteFacts DEF CompleteAndHold, CompleteAndRelease
  <2>2. Moves(q.payment)
    BY <1>2, <2>1 DEF Moves, CompleteAndHold, CompleteAndRelease, Hold,
       Release, TypeOK
  <2> QED
    BY <2>1, <2>2
<1>3. ASSUME NEW p \in Payments, Approved(p), Settle(p)
      PROVE  hold' = hold \/ Moves(p)
  <2>1. TypeOK
    BY DEF EscrowInv
  <2> QED
    BY <1>3, <2>1 DEF Moves, Settle, Approved, TypeOK
<1>4. ASSUME NEW p \in Payments, StartAndSettle(p) PROVE hold' = hold \/ Moves(p)
  BY <1>3, <1>4, OrderFacts DEF StartAndSettle, OrderPayout
<1>5. ASSUME NEW q \in polls, CompletePayout(q)
      PROVE  hold' = hold \/ \E p \in Payments : Moves(p)
  <2>1. q.payment \in Payments /\ Approved(q.payment) /\ Settle(q.payment)
    BY <1>5, PolledPayoutIsApproved DEF CompletePayout, ApplyingPayout
  <2> QED
    BY <1>3, <2>1
<1> QED
  BY <1>1, <1>2, <1>4, <1>5, Steps
     DEF SubmitCollection, LoseCollection, ViewExpired, ExpireSession,
         WrongCode, StartPayout, LosePayout, RailAdvancesCollection,
         RailAdvancesPayout, ReadCollections, ReadPayouts, Ask, DropPoll,
         SkipCollection, ApplyOpenCollection, FailCollection, SkipPayout,
         ApplyOpenPayout, FailPayout

-----------------------------------------------------------------------------
(* The ledger balances, so the hold alone tells what the contract sees.    *)
Trust(h, p) == IF h \in {None, "released"} THEN 0 ELSE Gross[p]
Paid(h, p)  == IF h = "released" THEN Net(p) ELSE 0
Earned(h, p) == IF h = "released" THEN Fee[p] ELSE 0

LEMMA Views ==
  ASSUME EscrowState
  PROVE  \A p \in Payments :
           /\ ledger[p].customer_funds - (ledger[p].release + ledger[p].fee)
                = Trust(hold[p], p)
           /\ ledger[p].release = Paid(hold[p], p)
           /\ ledger[p].fee = Earned(hold[p], p)
<1>1. ASSUME NEW p \in Payments
      PROVE  /\ ledger[p].customer_funds - (ledger[p].release + ledger[p].fee)
                  = Trust(hold[p], p)
             /\ ledger[p].release = Paid(hold[p], p)
             /\ ledger[p].fee = Earned(hold[p], p)
  <2>1. Books(p)
    BY DEF EscrowState, RowsOf
  <2>2. /\ Gross[p] \in Nat /\ Fee[p] \in Nat
        /\ Gross[p] - ((Gross[p] - Fee[p]) + Fee[p]) = 0
        /\ Gross[p] - (0 + 0) = Gross[p]
    BY RecordsAssumption
  <2>3. CASE hold[p] = "released"
    BY <2>1, <2>2, <2>3, NoneApart DEF Books, Net, Trust, Paid, Earned
  <2>4. CASE hold[p] = None
    BY <2>1, <2>4, NoneApart DEF Books, Trust, Paid, Earned
  <2>5. CASE hold[p] \notin {None, "released"}
    BY <2>1, <2>2, <2>5 DEF Books, Trust, Paid, Earned
  <2> QED
    BY <2>3, <2>4, <2>5
<1> QED
  BY <1>1

ViewOfFund   == [p \in Payments |-> FundOf(p)]
ViewOfTrust  == [p \in Payments |-> Trust(hold[p], p)]
ViewOfPaid   == [p \in Payments |-> Paid(hold[p], p)]
ViewOfEarned == [p \in Payments |-> Earned(hold[p], p)]

(* The variables of the contract, as Contract substitutes them.            *)
SeenByContract ==
  /\ ViewOfTrust = [p \in Payments |-> ledger[p].customer_funds
                                      - (ledger[p].release + ledger[p].fee)]
  /\ ViewOfPaid = [p \in Payments |-> ledger[p].release]
  /\ ViewOfEarned = [p \in Payments |-> ledger[p].fee]
  /\ ViewOfFund = [p \in Payments |-> FundOf(p)]

LEMMA ContractVars ==
  /\ EscrowState => SeenByContract
  /\ EscrowState' => SeenByContract'
<1>1. EscrowState => SeenByContract
  BY Views DEF SeenByContract, ViewOfFund, ViewOfTrust, ViewOfPaid, ViewOfEarned
<1> QED
  BY <1>1, PTL

(* The four views after a step that moves the hold of p to state h.        *)
LEMMA ViewsMove ==
  ASSUME NEW p \in Payments, NEW h, hold \in [Payments -> HoldStatus \cup {None}],
         hold' = [hold EXCEPT ![p] = h]
  PROVE  /\ ViewOfFund' = [ViewOfFund EXCEPT ![p] = FundOf(p)']
         /\ ViewOfTrust' = [ViewOfTrust EXCEPT ![p] = Trust(h, p)]
         /\ ViewOfPaid' = [ViewOfPaid EXCEPT ![p] = Paid(h, p)]
         /\ ViewOfEarned' = [ViewOfEarned EXCEPT ![p] = Earned(h, p)]
<1>1. hold'[p] = h /\ \A o \in Payments \ {p} : hold'[o] = hold[o]
  OBVIOUS
<1>2. \A o \in Payments \ {p} : FundOf(o)' = FundOf(o)
  BY <1>1 DEF FundOf
<1> QED
  BY <1>1, <1>2 DEF ViewOfFund, ViewOfTrust, ViewOfPaid, ViewOfEarned

LEMMA ContractMove ==
  ASSUME EscrowInv, EscrowState', NEW p \in Payments, Moves(p)
  PROVE  Contract!ContractNext
<1> USE NoneApart
<1>1. hold \in [Payments -> HoldStatus \cup {None}] /\ EscrowState
  BY DEF EscrowInv, TypeOK
<1>2. SeenByContract /\ SeenByContract'
  BY <1>1, ContractVars
<1>3. /\ ViewOfTrust[p] = Trust(hold[p], p) /\ ViewOfPaid[p] = Paid(hold[p], p)
      /\ ViewOfEarned[p] = Earned(hold[p], p) /\ ViewOfFund[p] = FundOf(p)
      /\ ViewOfTrust = [ViewOfTrust EXCEPT ![p] = ViewOfTrust[p]]
      /\ ViewOfPaid = [ViewOfPaid EXCEPT ![p] = ViewOfPaid[p]]
      /\ ViewOfEarned = [ViewOfEarned EXCEPT ![p] = ViewOfEarned[p]]
  BY DEF ViewOfTrust, ViewOfPaid, ViewOfEarned, ViewOfFund
<1>4. CASE hold[p] = None
  <2>1. /\ ViewOfFund[p] = "none"
        /\ ViewOfTrust' = [ViewOfTrust EXCEPT ![p] = Gross[p]]
        /\ ViewOfPaid' = ViewOfPaid /\ ViewOfEarned' = ViewOfEarned
        /\ \/ ViewOfFund' = [ViewOfFund EXCEPT ![p] = "held"]
           \/ /\ p \in Instant
              /\ ViewOfFund' = [ViewOfFund EXCEPT ![p] = "approved"]
    BY <1>1, <1>3, <1>4, ViewsMove DEF Moves, FundOf, Trust, Paid, Earned
  <2>2. Contract!Receive(p)
    BY <1>2, <2>1 DEF SeenByContract, Contract!Receive
  <2> QED
    BY <2>2 DEF Contract!ContractNext
<1>5. CASE hold[p] = "delivery_pending"
  <2>1. /\ ViewOfFund[p] = "held"
        /\ ViewOfTrust' = ViewOfTrust
        /\ ViewOfPaid' = ViewOfPaid /\ ViewOfEarned' = ViewOfEarned
        /\ \/ ViewOfFund' = [ViewOfFund EXCEPT ![p] = "approved"]
           \/ ViewOfFund' = [ViewOfFund EXCEPT ![p] = "disputed"]
    BY <1>1, <1>3, <1>5, ViewsMove DEF Moves, FundOf, Trust, Paid, Earned
  <2>2. Contract!Approve(p) \/ Contract!Dispute(p)
    BY <1>2, <2>1 DEF SeenByContract, Contract!Approve, Contract!Dispute
  <2> QED
    BY <2>2 DEF Contract!ContractNext
<1>6. CASE hold[p] = "release_pending"
  <2>1. /\ ViewOfFund[p] = "approved"
        /\ ViewOfFund' = [ViewOfFund EXCEPT ![p] = "released"]
        /\ ViewOfTrust' = [ViewOfTrust EXCEPT ![p] = 0]
        /\ ViewOfPaid' = [ViewOfPaid EXCEPT ![p] = Gross[p] - Fee[p]]
        /\ ViewOfEarned' = [ViewOfEarned EXCEPT ![p] = Fee[p]]
    BY <1>1, <1>3, <1>6, ViewsMove DEF Moves, FundOf, Trust, Paid, Earned, Net
  <2>2. Contract!PayOut(p)
    BY <1>2, <2>1 DEF SeenByContract, Contract!PayOut
  <2> QED
    BY <2>2 DEF Contract!ContractNext
<1> QED
  BY <1>4, <1>5, <1>6 DEF Moves

(* A step that leaves the hold alone changes nothing the contract sees.    *)
LEMMA ContractStutter ==
  ASSUME EscrowState, EscrowState', hold' = hold
  PROVE  UNCHANGED Contract!contractVars
<1>1. /\ ViewOfTrust' = ViewOfTrust /\ ViewOfPaid' = ViewOfPaid
      /\ ViewOfEarned' = ViewOfEarned /\ ViewOfFund' = ViewOfFund
  BY DEF ViewOfTrust, ViewOfPaid, ViewOfEarned, ViewOfFund, FundOf
<1>2. SeenByContract /\ SeenByContract'
  BY ContractVars
<1> QED
  BY <1>1, <1>2 DEF Contract!contractVars, SeenByContract

(* Every step of the program is a step of EscrowContract or changes        *)
(* nothing the contract sees (deliveries, fiduciary and gateway services). *)
THEOREM ContractIsKept == Spec => KeepsTheContract
<1>1. Init => Contract!ContractInit
  BY NoneApart DEF Init, Contract!ContractInit, FundOf, EntryKind
<1>2. EscrowInv /\ EscrowInv' /\ [Next]_vars
        => [Contract!ContractNext]_(Contract!contractVars)
  <2>1. EscrowInv /\ EscrowInv' /\ Next
          => [Contract!ContractNext]_(Contract!contractVars)
    BY HoldStep, ContractMove, ContractStutter DEF EscrowInv
  <2>2. EscrowInv /\ EscrowInv' /\ UNCHANGED vars
          => UNCHANGED Contract!contractVars
    BY ContractStutter DEF EscrowInv, vars
  <2> QED
    BY <2>1, <2>2
<1> QED
  BY <1>1, <1>2, EscrowInvariant, PTL DEF Spec, KeepsTheContract,
     Contract!ContractSpec
=============================================================================
