--------------------------- MODULE TransferClaims ---------------------------
(* What the discovery of QR payments promises.  A transfer that lands on   *)
(* AmatoPay's account is taken as the payment of at most one order, and an *)
(* order takes at most one transfer.  Whatever is taken stays taken.       *)
CONSTANTS Orders, Transfers

VARIABLE claims    \* pairs of an order and the transfer taken for it

Init == claims = {}

Claim(o, t) ==
    /\ \A c \in claims : c[1] # o /\ c[2] # t
    /\ claims' = claims \cup {<<o, t>>}

Next == \E o \in Orders, t \in Transfers : Claim(o, t)

Spec == Init /\ [][Next]_claims
=============================================================================
