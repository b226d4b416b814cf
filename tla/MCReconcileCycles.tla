------------------------- MODULE MCReconcileCycles --------------------------
(* A small instance of ReconcileCycles for TLC, with one payment of the      *)
(* model between others that come and go.                                  *)
EXTENDS MCPaymentFlow, ReconcileCycles

(* The rail also reports a status AmatoPay does not know.                  *)
PuzzlingLife == KnownLife \cup {"UNKNOWN"}
=============================================================================
