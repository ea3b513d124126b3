----------------------------- MODULE MCGateway -----------------------------
(* Small instances of Gateway for TLC.                                    *)
EXTENDS Gateway

CONSTANTS u1, loop, cron, t1, t2
=============================================================================
