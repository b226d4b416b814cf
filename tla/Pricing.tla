------------------------------ MODULE Pricing -------------------------------
(* What a merchant pays for a transaction: the plan assigned to it last, or *)
(* the pay-as-you-go plan.  Amounts are in cents, rates in ten-thousandths  *)
(* of a percent; a rate has no minimum.  One merchant and one currency; an  *)
(* assignment counts while it is active and within its dates.              *)
EXTENDS Integers, Sequences, FiniteSets

CONSTANTS
    Plans,          \* PricingPlan
    Payg,           \* the plan whose code is pay-as-you-go
    Listed,         \* each plan as seeded: [on, price, rate]
    Rates,          \* the rates the staff may set
    MaxAssigned,    \* bound: assignments the staff make
    None

Terms == [on : BOOLEAN, price : Nat \cup {None}, rate : Int \cup {None}]

ASSUME PricingAssumption ==
    /\ Payg \in Plans
    /\ Listed \in [Plans -> Terms]
    /\ Rates \subseteq Int \cup {None}
    /\ None \notin Int
    /\ MaxAssigned \in Nat

VARIABLES
    plan,       \* PricingPlan
    assigned    \* MerchantPlanAssignment, by effective_from

pricingVars == <<plan, assigned>>

PricingInit ==
    /\ plan = Listed
    /\ assigned = <<>>

(* The assignments that count now, and the newest of them (0: none).       *)
Effective == {i \in DOMAIN assigned : assigned[i].on /\ plan[assigned[i].plan].on}

ActiveAssignment ==
    IF Effective = {} THEN 0
    ELSE CHOOSE i \in Effective : \A j \in Effective : j <= i

Assign(p, owner) ==
    assigned' = Append(assigned, [plan |-> p, by |-> owner, on |-> TRUE])

-----------------------------------------------------------------------------
(* The fee of an amount.                                                   *)

Whole == 1000000    \* 100 percent

Nearest(share) == (2 * share + Whole) \div (2 * Whole)

(* ROUND_HALF_UP rounds a half away from zero.                             *)
FeeOf(gross, rate) ==
    IF rate >= 0 THEN Nearest(gross * rate) ELSE 0 - Nearest(gross * (0 - rate))

(* The plan that prices a transaction, and its rate.                       *)
PricedBy ==
    IF ActiveAssignment = 0 THEN Payg ELSE assigned[ActiveAssignment].plan

RateNow ==
    IF ActiveAssignment # 0 /\ plan[PricedBy].rate = None THEN 0
    ELSE plan[PricedBy].rate

(* Without an assignment the pay-as-you-go plan must be there and have a   *)
(* rate; and the fee must leave something of the amount.                   *)
Chargeable(gross) ==
    /\ ActiveAssignment = 0 => plan[Payg].on /\ plan[Payg].rate # None
    /\ FeeOf(gross, RateNow) < gross

Decision(gross) ==
    [gross    |-> gross,
     plan     |-> PricedBy,
     assigned |-> ActiveAssignment # 0,
     rate     |-> RateNow,
     fee      |-> FeeOf(gross, RateNow)]

-----------------------------------------------------------------------------
(* The staff, through the admin pages.                                     *)

StaffAssigned == {i \in DOMAIN assigned : assigned[i].by = None}

StaffAssign(p) ==
    /\ plan[p].on
    /\ Cardinality(StaffAssigned) < MaxAssigned
    /\ Assign(p, None)
    /\ UNCHANGED plan

(* Switched by the staff or by its dates.                                  *)
StaffSwitch(i) ==
    /\ assigned' = [assigned EXCEPT ![i].on = ~@]
    /\ UNCHANGED plan

(* Where the assignment at place j was before the one at i moved to k.      *)
Origin(j, i, k) ==
    IF j = k THEN i
    ELSE IF j \in i .. (k - 1) THEN j + 1
    ELSE IF j \in (k + 1) .. i THEN j - 1
    ELSE j

(* Another plan, which must be on sale, or another start, before or after  *)
(* any other assignment.                                                   *)
StaffEdit(i, p, k) ==
    /\ plan[p].on
    /\ assigned' = [j \in DOMAIN assigned |->
         IF j = k THEN [assigned[i] EXCEPT !.plan = p]
         ELSE assigned[Origin(j, i, k)]]
    /\ UNCHANGED plan

StaffReprice(p, rate) ==
    /\ plan' = [plan EXCEPT ![p].rate = rate]
    /\ UNCHANGED assigned

StaffRetire(p) ==
    /\ plan' = [plan EXCEPT ![p].on = ~@]
    /\ UNCHANGED assigned

Staff ==
    \/ \E p \in Plans : StaffAssign(p) \/ StaffRetire(p)
    \/ \E p \in Plans, rate \in Rates : StaffReprice(p, rate)
    \/ \E i \in DOMAIN assigned :
         StaffSwitch(i) \/ \E p \in Plans, k \in DOMAIN assigned : StaffEdit(i, p, k)
=============================================================================
