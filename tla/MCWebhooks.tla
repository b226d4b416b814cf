----------------------------- MODULE MCWebhooks ------------------------------
(* A small instance of Webhooks for TLC.                                    *)
EXTENDS Webhooks, TLC

CONSTANTS paid, ping, shopUrl, badUrl, w1, w2, s1

MCEvents    == {paid}
MCTests     == {ping}
MCEndpoints == {shopUrl, badUrl}
MCMalformed == {badUrl}
MCWants     == {<<paid, shopUrl>>}
MCWorkers   == {w1, w2}
MCStaff     == {s1}
=============================================================================
