----------------------------- MODULE Reconciler -----------------------------
(***************************************************************************)
(* reconcile_gateway: a process that reads a batch of open gateway         *)
(* requests, then asks the rail about each of them outside any             *)
(* transaction, and hands each changed status to Collection or Payout.     *)
(* Between reading a request and applying its answer other processes run.  *)
(*                                                                         *)
(* The rail itself (MobileCash) is external: the two Rail actions.         *)
(***************************************************************************)
EXTENDS PaymentRecords

Idle(r) == \A q \in polls : q.by # r

(* The requests a batch may hold; which of them are due (next_poll_at) and *)
(* in what order they come is left open.                                   *)
DueCollections == {p \in Payments : coll[p] \in Polled}
DuePayouts     == {p \in Payments : p2p[p] \in Polled}

ReadCollections(r, batch) ==
  /\ Idle(r)
  /\ batch # {} /\ batch \subseteq DueCollections
  /\ polls' = polls \cup
       {[by |-> r, rail |-> "collection", payment |-> p, seen |-> coll[p],
         result |-> None] : p \in batch}
  /\ UNCHANGED <<status, codeVars, sessionVars, collVars, fundVars,
                 deliveryVars, payoutVars, emitted, railVars>>

ReadPayouts(r, batch) ==
  /\ Idle(r)
  /\ batch # {} /\ batch \subseteq DuePayouts
  /\ polls' = polls \cup
       {[by |-> r, rail |-> "p2p", payment |-> p, seen |-> p2p[p],
         result |-> None] : p \in batch}
  /\ UNCHANGED <<status, codeVars, sessionVars, collVars, fundVars,
                 deliveryVars, payoutVars, emitted, railVars>>

(* Mutant of RailAnswer: the payout is asked for by the reference of the    *)
(* collection.                                                             *)
CollectionAnswer(q) == railColl[q.payment]

RailAnswer(q) ==
  IF q.rail = "collection" THEN railColl[q.payment] ELSE railP2P[q.payment]

(* One HTTP request of r; an answer equal to the status the reconciler     *)
(* read with the request ends the poll.                                    *)
Ask(q) ==
  /\ q \in polls
  /\ \A o \in polls : o.by = q.by => o.result = None
  /\ polls' = (polls \ {q}) \cup
       (IF RailAnswer(q) = q.seen THEN {}
        ELSE {[q EXCEPT !.result = RailAnswer(q)]})
  /\ UNCHANGED <<status, codeVars, sessionVars, collVars, fundVars,
                 deliveryVars, payoutVars, emitted, railVars>>

(* The poll ends without effect: the rail cannot be reached or limits the  *)
(* rate, the process stops, or the transaction that applies the answer     *)
(* rolls back (no fiduciary account, a deadlock the database breaks).      *)
DropPoll(q) ==
  /\ q \in polls
  /\ polls' = polls \ {q}
  /\ UNCHANGED <<status, codeVars, sessionVars, collVars, fundVars,
                 deliveryVars, payoutVars, emitted, railVars>>

-----------------------------------------------------------------------------
(* An order on the rail never goes back, and a final status is final.      *)
LaterStatus(s) ==
  CASE s = "PENDING"               -> RailStatus \ {"PENDING"}
    [] s = "AWAITING_APPROVAL"     -> RailStatus \ {"PENDING", s}
    [] s \in {"PROCESSING", "UNKNOWN"} -> RailStatus \ (Polled \cup {s})
    [] OTHER                       -> {}

RailAdvancesCollection(p) ==
  /\ \E s \in LaterStatus(railColl[p]) : railColl' = [railColl EXCEPT ![p] = s]
  /\ UNCHANGED <<status, codeVars, sessionVars, collVars, fundVars,
                 deliveryVars, payoutVars, emitted, polls, railP2P, collOrders,
                 p2pOrders>>

RailAdvancesPayout(p) ==
  /\ \E s \in LaterStatus(railP2P[p]) : railP2P' = [railP2P EXCEPT ![p] = s]
  /\ UNCHANGED <<status, codeVars, sessionVars, collVars, fundVars,
                 deliveryVars, payoutVars, emitted, polls, railColl, collOrders,
                 p2pOrders>>
=============================================================================
