------------------------------ MODULE PlanTurns ------------------------------
(* When a plan request has its turn.  Its collection is in the same query   *)
(* as those of checkouts, ordered by created_at and cut at --limit (see     *)
(* ReconcileCycles): older open collections keep it waiting.                *)
EXTENDS PlanRequests

CONSTANT PlanLimit      \* collections a cycle gets to

ASSUME TurnsAssumption == PlanLimit \in Nat \ {0}

VARIABLE older          \* open collections before the request's own, up to
                        \* PlanLimit: with that many a cycle does not get to it

turnVars == <<planVars, older>>

CrowdedOut(r) == older[r] = PlanLimit

TurnsInit == PlanInit /\ older \in [PlanRequestIds -> 0 .. PlanLimit]

ReadInTurn ==
    \A q \in polling' \ polling : q.got = None => ~CrowdedOut(q.req)

(* Collections of others are made, closed, due or reopened.                *)
OthersMove(r) ==
    /\ row[r] \in Polled
    /\ \E n \in 0 .. PlanLimit : n # older[r] /\ older' = [older EXCEPT ![r] = n]
    /\ UNCHANGED planVars

TurnsNext ==
    \/ PlanNext /\ ReadInTurn /\ UNCHANGED older
    \/ \E r \in PlanRequestIds : OthersMove(r)

-----------------------------------------------------------------------------
(* The workers run for ever, and neither the rail nor the database fails    *)
(* every one of their polls.  A request that is crowded out no more is in   *)
(* the batches they read.                                                  *)
PollsOf(w, r) == {q \in polling : q.by = w /\ q.req = r}

ReadsPlanRow(w, r) ==
    \E batch \in SUBSET PlanRequestIds :
        r \in batch /\ ReadPlanRows(w, batch) /\ UNCHANGED older

AsksAboutPlan(w, r) ==
    \E q \in PollsOf(w, r) : AskRail(q) /\ UNCHANGED older

AppliesPlanAnswer(w, r) ==
    \E q \in PollsOf(w, r) :
        (ApplyStatus(q) \/ ActivatePlan(q)) /\ UNCHANGED older

DropsPlanPoll(w, r) ==
    \E q \in PollsOf(w, r) : DropPlanPoll(q) /\ UNCHANGED older

PlanHasTurns(r) == <>[]~CrowdedOut(r)

PlanServed(r) ==
    \A w \in PlanPollers :
        /\ WF_turnVars(ReadsPlanRow(w, r))
        /\ SF_turnVars(AsksAboutPlan(w, r))
        /\ SF_turnVars(AppliesPlanAnswer(w, r))
        /\ WF_turnVars(DropsPlanPoll(w, r))

PlanFairness == \A r \in PlanRequestIds : PlanHasTurns(r) => PlanServed(r)

FairPlanSpec == TurnsInit /\ [][TurnsNext]_turnVars /\ PlanFairness

-----------------------------------------------------------------------------
(* A plan whose collection is being polled and that the rail completes is   *)
(* assigned in the end, when the request has its turns: nothing in the code  *)
(* keeps older open collections from taking every one.                     *)
(* (apps/billing/services.py:224)                                          *)
PaidPlansAreGranted ==
    \A r \in PlanRequestIds :
        PlanHasTurns(r) =>
            ((row[r] \in Polled /\ railOrder[r] = "completed") ~> Granted(r) # {})
=============================================================================
