--------------------------- MODULE ReconcileCycles --------------------------
(***************************************************************************)
(* When a payment has its turn.  Each cycle of reconcile_gateway makes four *)
(* queries (instant payments to be released, settlements to be paid, open  *)
(* collections, open payouts), each ordered by created_at and cut at       *)
(* --limit, and a 429 of the rail ends the cycle.  A row that a cycle has   *)
(* handled without a final answer is in the next one again, so enough older *)
(* rows of other payments keep a younger one waiting for as long as they   *)
(* are open.  Those rows are the traffic of payments outside Payments; a    *)
(* row of theirs may come, go, become due or be reopened at any time.      *)
(***************************************************************************)
EXTENDS PaymentFlow

CONSTANT Limit      \* rows of a query that a cycle gets to: --limit, or as
                    \* many as the rail takes before it answers 429

ASSUME CyclesAssumption == Limit \in Nat \ {0}

VARIABLE before     \* rows a cycle handles before the payment's own, up to
                    \* Limit: with that many it does not get to it

cycleVars == <<vars, before>>

Crowded(p) == before[p] = Limit

(* What a cycle begins to do about a payment it does so in its turn.  The   *)
(* payout that follows a release right away does not wait for one.         *)
BeginsPoll(p) == \E q \in polls' \ polls : q.payment = p /\ q.result = None

InTurn ==
  \A p \in Payments :
    BeginsPoll(p) \/ RetryInstant(p) => ~Crowded(p)

OthersComeAndGo(p) ==
  /\ \E n \in 0..Limit : n # before[p] /\ before' = [before EXCEPT ![p] = n]
  /\ UNCHANGED vars

CyclesInit == Init /\ before \in [Payments -> 0..Limit]

CyclesNext ==
  \/ Next /\ InTurn /\ UNCHANGED before
  \/ \E p \in Payments : OthersComeAndGo(p)

CyclesSpec == CyclesInit /\ [][CyclesNext]_cycleVars

-----------------------------------------------------------------------------
(* A reconciler runs for ever (--watch, restarted by its supervisor), and  *)
(* the rail, the database and the payment's own merchant's destination are *)
(* not out of reach for ever.  So a payment that is crowded out no more     *)
(* has its turn again and again, and what is possible again and again is   *)
(* done.  Nothing is assumed of a payment that is always crowded out anew. *)
AskAbout(p, rail) ==
  \E q \in polls : q.payment = p /\ q.rail = rail /\ Ask(q)

ApplyAbout(p, rail) ==
  \E q \in polls : q.payment = p /\ q.rail = rail /\ ApplyPoll(q)

ReadAbout(p) ==
  \E r \in Reconcilers :
    \/ \E batch \in SUBSET DueCollections : p \in batch /\ ReadCollections(r, batch)
    \/ \E batch \in SUBSET DuePayouts : p \in batch /\ ReadPayouts(r, batch)

HasTurns(p) == <>[]~Crowded(p)

Served(p) ==
  /\ SF_cycleVars(ReadAbout(p) /\ UNCHANGED before)
  /\ \A rail \in {"collection", "p2p"} :
       /\ SF_cycleVars(AskAbout(p, rail) /\ UNCHANGED before)
       /\ SF_cycleVars(ApplyAbout(p, rail) /\ UNCHANGED before)
  /\ SF_cycleVars(RetryInstant(p) /\ UNCHANGED before)
  /\ SF_cycleVars(OrderingPayout(p) /\ UNCHANGED before)

Fairness == \A p \in Payments : HasTurns(p) => Served(p)

FairSpec == CyclesSpec /\ Fairness

-----------------------------------------------------------------------------
(* A collection the rail completed ends up held, however often polls fail  *)
(* and whatever status AmatoPay does not know it passed through (the       *)
(* mapping's KeyError undoes that one), when the payment has its turns.    *)
CompletedCollectionIsHeld ==
  \A p \in Payments :
    HasTurns(p) => (railColl[p] = "COMPLETED" ~> hold[p] # None)

(* A payout the rail completed is settled, and one it failed is reported,  *)
(* when the payment has its turns; except one whose last polled status was *)
(* none AmatoPay knows: it is stored, and the row is never polled again.   *)
PayoutIsResolved ==
  \A p \in Payments :
    HasTurns(p) =>
      /\ railP2P[p] = "COMPLETED" ~> hold[p] = "released" \/ p2p[p] = "UNKNOWN"
      /\ railP2P[p] \in Failures ~> settlement[p] = "failed" \/ p2p[p] = "UNKNOWN"

(* An instant payment whose release was deferred is released later, and a  *)
(* released hold gets its payout ordered, when the payment has its turns.  *)
ReleaseIsNotForgotten ==
  \A p \in Payments :
    HasTurns(p) =>
      /\ p \in Instant /\ hold[p] = "delivery_pending" ~> hold[p] # "delivery_pending"
      /\ hold[p] = "release_pending" ~> p2p[p] # None
=============================================================================
