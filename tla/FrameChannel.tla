---------------------------- MODULE FrameChannel ----------------------------
(***************************************************************************)
(* What Framing.h promises to its callers over one direction of a          *)
(* connection: recv_frame returns the payloads that were given to          *)
(* send_frame, whole and in order.  The end of the connection may cost the *)
(* last ones; nothing is promised about when.                              *)
(***************************************************************************)
EXTENDS Naturals, Sequences

CONSTANT Payload

VARIABLES
    sent,       \* the payloads given to send_frame
    received    \* the payloads recv_frame returned

Init == sent = <<>> /\ received = <<>>

Send ==
    /\ \E payload \in Payload : sent' = Append(sent, payload)
    /\ UNCHANGED received

Receive ==
    /\ Len(received) < Len(sent)
    /\ received' = Append(received, sent[Len(received) + 1])
    /\ UNCHANGED sent

Spec == Init /\ [][Send \/ Receive]_<<sent, received>>
=============================================================================
