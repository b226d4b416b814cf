-------------------------- MODULE CheckoutSession ---------------------------
(***************************************************************************)
(* The checkout session's expiry.  No job expires a session: the first     *)
(* view of it after expires_at does, in a read and a later write without a *)
(* lock or a transaction (apps/checkout/views.py).                         *)
(***************************************************************************)
EXTENDS PaymentRecords

(* _session reads the row and decides to expire it.                        *)
ViewExpired(p) ==
  /\ p \in Late
  /\ session[p] \notin {"completed", "cancelled", "expired"}
  /\ expiring' = [expiring EXCEPT ![p] = TRUE]
  /\ UNCHANGED <<status, codeVars, session, collVars, fundVars, deliveryVars,
                 payoutVars, emitted, polls, railVars>>

(* It writes, whatever the session is by now; another view may have read   *)
(* the session as well.                                                    *)
ExpireSession(p) ==
  /\ expiring[p]
  /\ session' = [session EXCEPT ![p] = "expired"]
  /\ \E another \in BOOLEAN : expiring' = [expiring EXCEPT ![p] = another]
  /\ UNCHANGED <<status, codeVars, collVars, fundVars, deliveryVars,
                 payoutVars, emitted, polls, railVars>>
=============================================================================
