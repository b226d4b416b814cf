---------------------------- MODULE MerchantApi -----------------------------
(* A merchant's server creates checkout sessions with its secret API key.   *)
(* Between the steps of a request the rail is asked for the payer's alias,   *)
(* the staff change the merchant and its prices, and the owner its keys.     *)
(* A session here is the session with its payment and its fee row, made in   *)
(* one transaction; what becomes of the payment is PaymentFlow.             *)
EXTENDS Pricing

CONSTANTS
    ApiKeys,        \* MerchantApiKey rows
    Calls,          \* requests under way
    Orders,         \* the merchant's orders, each with its Idempotency-Key
    Amount,         \* in cents, of each order
    MaxSecrets,     \* bound: secrets issued
    MaxSessions     \* bound: sessions created

ASSUME MerchantAssumption ==
    /\ Amount \in [Orders -> Nat \ {0}]
    /\ MaxSecrets \in Nat /\ MaxSessions \in Nat

VARIABLES
    active,     \* Merchant.status is active
    secrets,    \* the number of secrets issued so far
    key,        \* each key's [secret, on]; secret 0: not issued
    call,       \* each request: [at, order, row, quote]
    answered,   \* the orders whose session the merchant's server knows
    sessions    \* in order of creation: [order, quote, charge]

merchantVars == <<active, secrets, key, call, answered, sessions>>
keyVars      == <<active, secrets, key>>

NoCall == [at |-> "idle"]

MerchantInit ==
    /\ active = TRUE
    /\ secrets = 0
    /\ key = [k \in ApiKeys |-> [secret |-> 0, on |-> FALSE]]
    /\ call = [c \in Calls |-> NoCall]
    /\ answered = {}
    /\ sessions = <<>>

-----------------------------------------------------------------------------
(* The owner's keys, and the merchant's status.                            *)

NewSecret(k) ==
    /\ secrets < MaxSecrets
    /\ secrets' = secrets + 1
    /\ key' = [key EXCEPT ![k] = [secret |-> secrets + 1, on |-> TRUE]]
    /\ UNCHANGED <<active, call, answered, sessions>>

IssueKey(k) == key[k].secret = 0 /\ active /\ NewSecret(k)

RotateKey(k) == key[k].secret # 0 /\ NewSecret(k)

RevokeKey(k) ==
    /\ key[k].secret # 0
    /\ key' = [key EXCEPT ![k].on = FALSE]
    /\ UNCHANGED <<active, secrets, call, answered, sessions>>

StaffSuspends ==
    /\ active' = ~active
    /\ UNCHANGED <<secrets, key, call, answered, sessions>>

-----------------------------------------------------------------------------
(* A request.                                                              *)

Proceed(c, next) == call' = [call EXCEPT ![c] = next]

(* An active key with the request's secret is found, and with it the        *)
(* merchant's status.  The server asks for an order until it is answered.   *)
Authenticate(c, o, k) ==
    /\ call[c] = NoCall
    /\ o \notin answered
    /\ key[k].on
    /\ Proceed(c, [at |-> IF active THEN "known" ELSE "barred",
                   order |-> o, by |-> k, row |-> key[k]])
    /\ UNCHANGED <<keyVars, answered, sessions>>

(* Mutant: the whole row is saved as it was read.                          *)
WholeRow(c) == [key EXCEPT ![call[c].by] = call[c].row]

(* Only last_used_at is written to the key.                                *)
StampedKey(c) == key

(* IsActiveMerchant goes by the status that was read.                      *)
Admit(c) ==
    /\ call[c].at \in {"known", "barred"}
    /\ key' = StampedKey(c)
    /\ Proceed(c, IF call[c].at = "barred" THEN NoCall
                  ELSE [at |-> "admitted", order |-> call[c].order])
    /\ UNCHANGED <<active, secrets, answered, sessions>>

(* A request that only asks for the name of a payer ends with the rail's     *)
(* answer.                                                                 *)
LookUpPayer(c) ==
    /\ call[c].at = "admitted"
    /\ Proceed(c, NoCall)
    /\ UNCHANGED <<keyVars, answered, sessions>>

(* The fee is resolved before the rail is asked; no fee, no session.       *)
QuoteFee(c) ==
    /\ call[c].at = "admitted"
    /\ LET gross == Amount[call[c].order] IN
       Proceed(c, IF ~Chargeable(gross) THEN NoCall
                  ELSE [at |-> "quoted", order |-> call[c].order,
                        quote |-> Decision(gross)])
    /\ UNCHANGED <<keyVars, answered, sessions>>

(* The alias is not payable, the rail is out of reach, the database refuses  *)
(* the fee row, or the process dies: the transaction leaves nothing.       *)
AliasFails(c) ==
    /\ call[c].at = "quoted"
    /\ Proceed(c, NoCall)
    /\ UNCHANGED <<keyVars, answered, sessions>>

(* Mutant: the payment resolves its fee itself.                            *)
ResolveAgain(quote) == Decision(quote.gross)

(* ensure_checkout_fee_snapshot: a session that has a fee keeps it.         *)
EnsureFee(quote) == quote

(* create_transaction_fee_snapshot; and the constraints of the table.       *)
FeeRow(charge) ==
    [gross |-> charge.gross, fee |-> charge.fee, net |-> charge.gross - charge.fee]

Balanced(row) ==
    row.gross > 0 /\ row.fee >= 0 /\ row.net > 0 /\ row.gross = row.fee + row.net

(* The session with its payment and its fee row, which the database takes or *)
(* rolls all of it back; the answer may be lost.                           *)
CreateSession(c, heard) ==
    /\ call[c].at = "quoted"
    /\ Balanced(FeeRow(EnsureFee(call[c].quote)))
    /\ Len(sessions) < MaxSessions
    /\ sessions' = Append(sessions,
         [order |-> call[c].order, quote |-> call[c].quote,
          charge |-> EnsureFee(call[c].quote)])
    /\ answered' = IF heard THEN answered \cup {call[c].order} ELSE answered
    /\ Proceed(c, NoCall)
    /\ UNCHANGED keyVars

MerchantServer ==
    \E c \in Calls :
        \/ \E o \in Orders, k \in ApiKeys : Authenticate(c, o, k)
        \/ Admit(c) \/ LookUpPayer(c) \/ QuoteFee(c) \/ AliasFails(c)
        \/ \E heard \in BOOLEAN : CreateSession(c, heard)

Owner == \E k \in ApiKeys : IssueKey(k) \/ RotateKey(k) \/ RevokeKey(k)

MerchantNext ==
    (Owner \/ MerchantServer \/ StaffSuspends) /\ UNCHANGED pricingVars

MerchantsAndStaff == MerchantNext \/ (Staff /\ UNCHANGED merchantVars)

MerchantSpec ==
    PricingInit /\ MerchantInit
        /\ [][MerchantsAndStaff]_<<pricingVars, merchantVars>>

-----------------------------------------------------------------------------
(* Session and payment carry one fee: the one quoted, though plans, rates    *)
(* and assignments change or move before it is stored; it is the rate's      *)
(* share to the nearest cent, not negative and less than the amount.  No    *)
(* request quoted at a rate that is not negative fails on the constraints   *)
(* of its fee row, after the rail was asked for the payer; the admin also    *)
(* takes a negative rate, and there the database is the first to refuse.   *)
(* (apps/billing/services.py:85 and 140, apps/payments/models.py:170)       *)
FeesAreRight ==
    /\ \A i \in DOMAIN sessions :
        LET q == sessions[i].quote
            exact == q.gross * q.rate
        IN  /\ sessions[i].charge = q
            /\ q.gross = Amount[sessions[i].order]
            /\ 2 * (q.fee * Whole - exact) <= Whole
            /\ 2 * (exact - q.fee * Whole) < Whole
            /\ 0 <= q.fee /\ q.fee < q.gross
    /\ \A c \in Calls :
        call[c].at = "quoted" /\ call[c].quote.rate >= 0 =>
            Balanced(FeeRow(EnsureFee(call[c].quote)))

(* A secret that was revoked or replaced never works again, whatever        *)
(* requests that were let in with it still write.                          *)
(* (apps/developers/authentication.py:40)                                  *)
DeadSecretsStayDead ==
    [][\A k \in ApiKeys :
           /\ key'[k].secret >= key[k].secret
           /\ key'[k].on /\ ~key[k].on => key'[k].secret > key[k].secret]_merchantVars

(* docs/AMATOPAY_FUNCTIONALITY.md:87: every write request carries an        *)
(* Idempotency-Key, and the first response is replayed "so retries never    *)
(* double-charge": an order has one payment.                               *)
OnePaymentPerOrder ==
    \A i, j \in DOMAIN sessions : sessions[i].order = sessions[j].order => i = j
=============================================================================
