--------------------------- MODULE MCPaymentFlow ----------------------------
(* Small instances of PaymentFlow for TLC.                                 *)
EXTENDS PaymentFlow, Reports, TLC

CONSTANTS shop, ride,    \* a protected and an instant payment
          w1, w2         \* reconcilers

MCPayments == {shop, ride}
JustShop   == {shop}
JustRide   == {ride}
Nobody     == {}
OneWorker  == {w1}
TwoWorkers == {w1, w2}

MCGross == [p \in Payments |-> IF p = shop THEN 5 ELSE 3]
MCFee   == [p \in Payments |-> IF p = shop THEN 1 ELSE 0]

(* What the rail may report.                                               *)
FullLife     == AnyStatus \ {"REJECTED", "CANCELLED"}
KnownLife    == {"PENDING", "PROCESSING", "COMPLETED", "FAILED"}
DeclinedLife == {"PROCESSING", "COMPLETED", "REJECTED"}

(* What it may already answer when an order is created.                    *)
OpenAnswer   == {"PROCESSING"}
OpenAnswers  == {"PENDING", "PROCESSING"}
EarlyAnswers == {"PENDING", "COMPLETED", "FAILED"}

Symmetric == Permutations(Reconcilers)
=============================================================================
