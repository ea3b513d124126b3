--------------------------- MODULE MCMessageBus ---------------------------
(* Small instances of MessageBus for TLC.                                 *)
EXTENDS MessageBus

CONSTANTS p1, p2, w1, w2
=============================================================================
