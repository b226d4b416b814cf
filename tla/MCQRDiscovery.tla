--------------------------- MODULE MCQRDiscovery ----------------------------
(* Small instances of QRDiscovery for TLC.                                 *)
EXTENDS QRDiscovery, TLC

CONSTANTS o1, o2, t1, t2, p1, p2

MCOrders    == {o1, o2}
MCTransfers == {t1, t2}
MCPollers   == {p1, p2}
SameAmount  == [o \in Orders |-> 7]
SameValue   == [t \in Transfers |-> 7]
(* t1 is paid by the payer of o1, t2 by a stranger.                       *)
MCMeant     == [t \in Transfers |-> IF t = t1 THEN o1 ELSE None]
=============================================================================
