--------------------------- MODULE EscrowContract ---------------------------
(***************************************************************************)
(* What the escrow promises, with no rows, polls or codes: the money of a  *)
(* payment comes in once and whole, waits, is frozen by a claim or         *)
(* approved by a confirmation, and leaves once and whole, the merchant's   *)
(* net and AmatoPay's fee together.  PaymentFlow implements it.            *)
(***************************************************************************)
EXTENDS Naturals

CONSTANTS Payments, Instant, Gross, Fee

VARIABLES
  fund,      \* where the payment's money stands
  inTrust,   \* the part of it on the fiduciary account
  merchant,  \* what the merchant has received
  kept       \* what AmatoPay has kept

contractVars == <<fund, inTrust, merchant, kept>>

FundState == {"none", "held", "disputed", "approved", "released"}

ContractInit ==
  /\ fund     = [p \in Payments |-> "none"]
  /\ inTrust  = [p \in Payments |-> 0]
  /\ merchant = [p \in Payments |-> 0]
  /\ kept     = [p \in Payments |-> 0]

(* The payment's money is received, to be held or, without a delivery      *)
(* gate, approved at once.                                                 *)
Receive(p) ==
  /\ fund[p] = "none"
  /\ \/ fund' = [fund EXCEPT ![p] = "held"]
     \/ p \in Instant /\ fund' = [fund EXCEPT ![p] = "approved"]
  /\ inTrust' = [inTrust EXCEPT ![p] = Gross[p]]
  /\ UNCHANGED <<merchant, kept>>

Approve(p) ==
  /\ fund[p] = "held"
  /\ fund' = [fund EXCEPT ![p] = "approved"]
  /\ UNCHANGED <<inTrust, merchant, kept>>

Dispute(p) ==
  /\ fund[p] = "held"
  /\ fund' = [fund EXCEPT ![p] = "disputed"]
  /\ UNCHANGED <<inTrust, merchant, kept>>

PayOut(p) ==
  /\ fund[p] = "approved"
  /\ fund'     = [fund EXCEPT ![p] = "released"]
  /\ inTrust'  = [inTrust EXCEPT ![p] = 0]
  /\ merchant' = [merchant EXCEPT ![p] = Gross[p] - Fee[p]]
  /\ kept'     = [kept EXCEPT ![p] = Fee[p]]

ContractNext ==
  \E p \in Payments : Receive(p) \/ Approve(p) \/ Dispute(p) \/ PayOut(p)

ContractSpec == ContractInit /\ [][ContractNext]_contractVars
=============================================================================
