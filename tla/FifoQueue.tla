----------------------------- MODULE FifoQueue -----------------------------
(***************************************************************************)
(* What the message bus promises of each of its two channels: a message is *)
(* received after it has been accepted, in the order of acceptance, once.  *)
(* After the queue has been closed nothing more is accepted; what had been *)
(* accepted can still be received, and when it has been, every receive     *)
(* returns a zero message, which nobody sent.                              *)
(***************************************************************************)
EXTENDS Naturals, Sequences

CONSTANT Messages

VARIABLES
  accepted,  (* every message accepted, in order           *)
  received,  (* every message received, in order           *)
  zeros,     (* how many receives returned a zero message  *)
  closed     (* has the queue been closed?                 *)

Init == accepted = <<>> /\ received = <<>> /\ zeros = 0 /\ closed = FALSE

Accept == /\ ~closed
          /\ \E m \in Messages : accepted' = Append(accepted, m)
          /\ UNCHANGED <<received, zeros, closed>>

Receive == /\ Len(received) < Len(accepted)
           /\ received' = Append(received, accepted[Len(received) + 1])
           /\ UNCHANGED <<accepted, zeros, closed>>

ReceiveZero == /\ closed /\ received = accepted
               /\ zeros' = zeros + 1
               /\ UNCHANGED <<accepted, received, closed>>

Close == /\ closed' = TRUE
         /\ UNCHANGED <<accepted, received, zeros>>

Next == Accept \/ Receive \/ ReceiveZero \/ Close

Spec == Init /\ [][Next]_<<accepted, received, zeros, closed>>
=============================================================================
