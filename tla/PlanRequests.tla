---------------------------- MODULE PlanRequests ----------------------------
(* A merchant asks for a plan in the portal and pays for it by a collection *)
(* on the rail.  The reconcilers poll that collection; when the rail has    *)
(* completed it, the plan is assigned.                                      *)
EXTENDS Pricing

CONSTANTS
    PlanRequestIds,     \* PlanRequest rows
    PlanPollers,        \* processes running reconcile_gateway
    FirstAnswers        \* bound: the statuses the rail answers an order with

Polled      == {"pending", "processing"}
RailAnswers == Polled \cup {"completed", "failed", "cancelled", "reversed"}

ASSUME PlanRequestAssumption ==
    /\ None \notin PlanRequestIds \cup Plans \cup RailAnswers
    /\ FirstAnswers \subseteq RailAnswers

VARIABLES
    asked,      \* the plan each request is for
    request,    \* PlanRequest.status
    paidAt,     \* the requests whose paid_at is set
    railOrder,  \* the collection's status on the rail, None when there is none
    row,        \* GatewayRequest.status, None when there is none
    applied,    \* the event ids of the callbacks: request and status
    polling     \* the polls under way

planVars == <<pricingVars, asked, request, paidAt, railOrder, row, applied,
              polling>>
tables   == <<pricingVars, asked, request, paidAt, row, applied>>

PlanInit ==
    /\ PricingInit
    /\ asked = [r \in PlanRequestIds |-> None]
    /\ request = [r \in PlanRequestIds |-> "none"]
    /\ paidAt = {}
    /\ railOrder = [r \in PlanRequestIds |-> None]
    /\ row = [r \in PlanRequestIds |-> None]
    /\ applied = {}
    /\ polling = {}

-----------------------------------------------------------------------------
(* The portal.  The request row is committed before the rail is called.    *)

(* The dashboard offers plans on sale that have a price; the public page    *)
(* takes any plan with a price, zero included.                             *)
OnOffer(p, page) ==
    /\ plan[p].price # None
    /\ page = "dashboard" => plan[p].on /\ plan[p].price # 0

Ask(r, p, page) ==
    /\ request[r] = "none"
    /\ OnOffer(p, page)
    /\ asked' = [asked EXCEPT ![r] = p]
    /\ UNCHANGED <<pricingVars, paidAt, applied, polling>>

(* The order is accepted; its first status is stored, not applied.         *)
AskAccepted(r, p, page, answer) ==
    /\ Ask(r, p, page)
    /\ request' = [request EXCEPT ![r] = "pending_payment"]
    /\ railOrder' = [railOrder EXCEPT ![r] = answer]
    /\ row' = [row EXCEPT ![r] = answer]

(* No answer: the rail may have the order all the same.  The dashboard      *)
(* cancels the request, unless the process has died; the public page never  *)
(* does.                                                                   *)
AskUnanswered(r, p, page, cancels, ordered) ==
    /\ Ask(r, p, page)
    /\ cancels => page = "dashboard"
    /\ request' = [request EXCEPT ![r] =
                     IF cancels THEN "cancelled" ELSE "pending_payment"]
    /\ railOrder' = IF ordered THEN [railOrder EXCEPT ![r] = "pending"]
                    ELSE railOrder
    /\ UNCHANGED row

Portal ==
    \E r \in PlanRequestIds, p \in Plans, page \in {"dashboard", "public"} :
        \/ \E answer \in FirstAnswers : AskAccepted(r, p, page, answer)
        \/ \E cancels, ordered \in BOOLEAN :
               AskUnanswered(r, p, page, cancels, ordered)

-----------------------------------------------------------------------------
(* The reconcilers.                                                        *)

(* Mutant: only pending collections are polled.                            *)
DuePendingRows == {r \in PlanRequestIds : row[r] = "pending"}

DuePlanRows == {r \in PlanRequestIds : row[r] \in Polled}

ReadPlanRows(w, batch) ==
    /\ \A q \in polling : q.by # w
    /\ batch # {} /\ batch \subseteq DuePlanRows
    /\ polling' = polling \cup
         {[by |-> w, req |-> r, seen |-> row[r], got |-> None] : r \in batch}
    /\ UNCHANGED <<tables, railOrder>>

AskRail(q) ==
    /\ q \in polling
    /\ \A o \in polling : o.by = q.by => o.got = None
    /\ polling' = (polling \ {q}) \cup
         (IF railOrder[q.req] = q.seen THEN {}
          ELSE {[q EXCEPT !.got = railOrder[q.req]]})
    /\ UNCHANGED <<tables, railOrder>>

(* The rail cannot be reached, or the transaction that applies the answer   *)
(* rolls back.                                                             *)
DropPlanPoll(q) ==
    /\ q \in polling
    /\ polling' = polling \ {q}
    /\ UNCHANGED <<tables, railOrder>>

(* Mutant: the event id is not looked up.                                  *)
NothingApplied(q) == FALSE

(* This status of this collection was applied before.                      *)
WasApplied(q) == <<q.req, q.got>> \in applied

(* Mutant: the collection's status is stored as it is.                     *)
SameStatus == [s \in RailAnswers \ {"completed", "reversed"} |-> s]

(* What each status makes of the request.  AWAITING_APPROVAL acts as        *)
(* PROCESSING and REJECTED as FAILED, and have no member of their own; a     *)
(* status that is missing here ("reversed" stands for those) rolls the      *)
(* transaction back.                                                       *)
RequestStatus ==
    [pending |-> "pending_payment", processing |-> "pending_payment",
     failed |-> "failed", cancelled |-> "cancelled"]

Applies(q) ==
    /\ q \in polling
    /\ q.got # None
    /\ ~WasApplied(q)
    /\ row' = [row EXCEPT ![q.req] = q.got]
    /\ applied' = applied \cup {<<q.req, q.got>>}
    /\ polling' = polling \ {q}
    /\ UNCHANGED <<asked, railOrder>>

ApplyStatus(q) ==
    /\ q.got \in DOMAIN RequestStatus
    /\ Applies(q)
    /\ request' = [request EXCEPT ![q.req] = RequestStatus[q.got]]
    /\ UNCHANGED <<pricingVars, paidAt>>

(* Paid, and active before the transaction ends.                           *)
ActivatePlan(q) ==
    /\ q.got = "completed"
    /\ Applies(q)
    /\ request' = [request EXCEPT ![q.req] = "active"]
    /\ paidAt' = paidAt \cup {q.req}
    /\ Assign(asked[q.req], q.req)
    /\ UNCHANGED plan

Poller(w) ==
    \/ \E batch \in SUBSET PlanRequestIds : ReadPlanRows(w, batch)
    \/ \E q \in {o \in polling : o.by = w} :
           AskRail(q) \/ DropPlanPoll(q) \/ ApplyStatus(q) \/ ActivatePlan(q)

-----------------------------------------------------------------------------
(* The rail: a final status stays.                                         *)

LaterAnswers(s) ==
    CASE s = "pending"    -> RailAnswers \ {"pending"}
      [] s = "processing" -> RailAnswers \ Polled
      [] OTHER            -> {}

RailMoves(r) ==
    /\ railOrder[r] # None
    /\ \E s \in LaterAnswers(railOrder[r]) : railOrder' = [railOrder EXCEPT ![r] = s]
    /\ UNCHANGED <<tables, polling>>

StaffPrices == Staff /\ UNCHANGED <<asked, request, paidAt, railOrder, row,
                                    applied, polling>>

PlanNext ==
    \/ Portal
    \/ StaffPrices
    \/ \E w \in PlanPollers : Poller(w)
    \/ \E r \in PlanRequestIds : RailMoves(r)

PlanSpec == PlanInit /\ [][PlanNext]_planVars

-----------------------------------------------------------------------------
(* Properties.                                                             *)

(* The rows keep their types, an assignment's owner is a request or the     *)
(* staff, and no assignment is of a plan that is not one.                  *)
PlanTypeOK ==
    /\ plan \in [Plans -> Terms]
    /\ \A i \in DOMAIN assigned :
           /\ assigned[i].plan \in Plans
           /\ assigned[i].on \in BOOLEAN
           /\ assigned[i].by \in PlanRequestIds \cup {None}
    /\ asked \in [PlanRequestIds -> Plans \cup {None}]
    /\ request \in [PlanRequestIds -> {"none", "pending_payment", "active",
                                       "failed", "cancelled"}]
    /\ paidAt \subseteq PlanRequestIds
    /\ railOrder \in [PlanRequestIds -> RailAnswers \cup {None}]
    /\ row \in [PlanRequestIds -> RailAnswers \cup {None}]
    /\ applied \subseteq PlanRequestIds \X RailAnswers
    /\ \A q \in polling :
           /\ q.by \in PlanPollers /\ q.req \in PlanRequestIds
           /\ q.seen \in Polled /\ q.got \in RailAnswers \cup {None}

(* The assignments a request has brought.                                  *)
Granted(r) == {i \in DOMAIN assigned : assigned[i].by = r}

(* A request brings its merchant one assignment at most, and only when the  *)
(* rail has completed the request's collection and the payment is noted,    *)
(* however often and in whatever order several reconcilers apply the rail's *)
(* answers, and whatever the staff make of the assignments.                *)
(* (apps/billing/services.py:109, apps/gateway/services.py:121)            *)
GrantsArePaidOnce ==
    \A r \in PlanRequestIds :
        /\ Cardinality(Granted(r)) <= 1
        /\ Granted(r) # {} <=> r \in paidAt
        /\ Granted(r) # {} => railOrder[r] = "completed"
        /\ request[r] = "active" => r \in paidAt
=============================================================================
