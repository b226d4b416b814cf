----------------------------- MODULE MCServices -----------------------------
(* The services that share no state with the payment flow, each explored by *)
(* itself: one of them is chosen at the start and the others rest.  Only a   *)
(* merchant's plan requests and its API calls share state (the prices) and   *)
(* run together.                                                           *)
EXTENDS PlanTurns, MerchantApi, CircuitBreaker, RateLimiter, FiduciarySync,
        Supervisor, GatewayToken, Onboarding, MerchantFile, TLC

CONSTANTS
    Services,       \* those that are explored
    payg, monthly

VARIABLE service

planOnlyVars == <<asked, request, paidAt, railOrder, row, applied, polling,
                  older>>

portalVars == <<onboardingVars, fileVars>>

servicesVars == <<service, turnVars, merchantVars, breakerVars, rateVars,
                  syncVars, supervisorVars, tokenVars, portalVars>>

ServicesInit ==
    /\ service \in Services
    /\ TurnsInit /\ MerchantInit /\ BreakerInit /\ RateInit /\ SyncInit
    /\ SupervisorInit /\ TokenInit /\ OnboardingInit /\ FileInit

(* A step A of one service; the others rest.                               *)
OfPlans(A) ==
    /\ service = "plans" /\ A
    /\ UNCHANGED <<service, merchantVars, breakerVars, rateVars, syncVars,
                   supervisorVars, tokenVars, portalVars>>

OfMerchants(A) ==
    /\ service = "merchants" /\ A
    /\ UNCHANGED <<service, planOnlyVars, breakerVars, rateVars, syncVars,
                   supervisorVars, tokenVars, portalVars>>

OfBreaker(A) ==
    /\ service = "breaker" /\ A
    /\ UNCHANGED <<service, turnVars, merchantVars, rateVars, syncVars,
                   supervisorVars, tokenVars, portalVars>>

OfLimiter(A) ==
    /\ service = "limiter" /\ A
    /\ UNCHANGED <<service, turnVars, merchantVars, breakerVars, syncVars,
                   supervisorVars, tokenVars, portalVars>>

OfSync(A) ==
    /\ service = "sync" /\ A
    /\ UNCHANGED <<service, turnVars, merchantVars, breakerVars, rateVars,
                   supervisorVars, tokenVars, portalVars>>

OfSupervisor(A) ==
    /\ service = "supervisor" /\ A
    /\ UNCHANGED <<service, turnVars, merchantVars, breakerVars, rateVars,
                   syncVars, tokenVars, portalVars>>

OfToken(A) ==
    /\ service = "token" /\ A
    /\ UNCHANGED <<service, turnVars, merchantVars, breakerVars, rateVars,
                   syncVars, supervisorVars, portalVars>>

OfApplicants(A) ==
    /\ service = "onboarding" /\ A
    /\ UNCHANGED <<service, turnVars, merchantVars, breakerVars, rateVars,
                   syncVars, supervisorVars, tokenVars, fileVars>>

OfFiles(A) ==
    /\ service = "file" /\ A
    /\ UNCHANGED <<service, turnVars, merchantVars, breakerVars, rateVars,
                   syncVars, supervisorVars, tokenVars, onboardingVars>>

(* A bound: next to plan requests, which read no rate, rates stay.         *)
RatesStay == \A p \in Plans : plan'[p].rate = plan[p].rate

ServicesNext ==
    \/ OfPlans(TurnsNext /\ RatesStay)
    \/ OfMerchants(MerchantsAndStaff)
    \/ OfBreaker(BreakerNext)
    \/ OfLimiter(RateNext)
    \/ OfSync(SyncNext)
    \/ OfSupervisor(SupervisorNext)
    \/ OfToken(TokenNext)
    \/ OfApplicants(OnboardingNext)
    \/ OfFiles(FileNext)

ServicesSpec == ServicesInit /\ [][ServicesNext]_servicesVars

(* PlanFairness, BreakerSpec and SupervisorFairness for this composition.   *)
ServicesFairness ==
    /\ \A r \in PlanRequestIds : PlanHasTurns(r) =>
           \A w \in PlanPollers :
               /\ WF_servicesVars(OfPlans(ReadsPlanRow(w, r)))
               /\ SF_servicesVars(OfPlans(AsksAboutPlan(w, r)))
               /\ SF_servicesVars(OfPlans(AppliesPlanAnswer(w, r)))
               /\ WF_servicesVars(OfPlans(DropsPlanPoll(w, r)))
    /\ WF_servicesVars(OfBreaker(BreakerTick))
    /\ \A j \in Jobs :
           /\ WF_servicesVars(OfSupervisor(StartThread(j)))
           /\ WF_servicesVars(OfSupervisor(JobThread(j)))

FairServicesSpec == ServicesSpec /\ ServicesFairness

-----------------------------------------------------------------------------
Seeded ==
    payg    :> [on |-> TRUE, price |-> None, rate |-> 5000] @@
    monthly :> [on |-> TRUE, price |-> 10, rate |-> 10000]

MCRates == {-5000}

MCShift == -2

MCAmount == [o \in Orders |-> 900]
=============================================================================
