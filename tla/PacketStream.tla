----------------------------- MODULE PacketStream -----------------------------
(***************************************************************************)
(* What a network driver promises the main loop: driver_poll() hands up    *)
(* packets the adapter received, each one at most once and in the order    *)
(* they came.  It may leave packets out; it never makes one up.            *)
(***************************************************************************)
EXTENDS Integers, Sequences

CONSTANTS Lens         \* lengths of packets on the network

VARIABLES
  wire,      \* lengths of the packets the adapter has received, in order
  up         \* number of the packet handed up last, 0 before the first

Init == wire = <<>> /\ up = 0

Arrive == \E n \in Lens : wire' = Append(wire, n) /\ UNCHANGED up

HandUp == \E k \in (up + 1)..Len(wire) : up' = k /\ UNCHANGED wire

Next == Arrive \/ HandUp

Spec == Init /\ [][Next]_<<wire, up>>
=============================================================================
