------------------------------ MODULE FifoChannel ------------------------------
(******************************************************************************)
(* What Transport::transmitMessage promises (src/include/ldcp/transport.h):   *)
(* messages reach the peer whole, once and in the order they were handed      *)
(* over.  Messages may be lost, but only once the channel is broken, and a    *)
(* broken channel delivers nothing more: the peer never sees a gap.           *)
(******************************************************************************)
EXTENDS Naturals, Sequences

CONSTANT Messages

VARIABLES
  pending,  \* messages handed over and neither delivered nor lost
  wire,     \* messages the peer received
  broken    \* whether the channel has failed or is being closed

vars == <<pending, wire, broken>>

Init ==
  /\ pending = <<>>
  /\ wire = <<>>
  /\ broken = FALSE

Send(m) ==
  /\ pending' = Append(pending, m)
  /\ UNCHANGED <<wire, broken>>

Deliver ==
  /\ ~broken
  /\ pending # <<>>
  /\ wire' = Append(wire, Head(pending))
  /\ pending' = Tail(pending)
  /\ UNCHANGED broken

Break == broken' = TRUE /\ UNCHANGED <<pending, wire>>

Lose ==
  /\ broken
  /\ pending # <<>>
  /\ pending' = Tail(pending)
  /\ UNCHANGED <<wire, broken>>

Next == (\E m \in Messages : Send(m)) \/ Deliver \/ Break \/ Lose

Spec == Init /\ [][Next]_vars
================================================================================
