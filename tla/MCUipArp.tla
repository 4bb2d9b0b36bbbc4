------------------------------ MODULE MCUipArp ------------------------------
(* Instances of UipArp for TLC; the bounds are in the .cfg files.           *)
EXTENDS UipArp, TLC

CONSTANTS a, b, h, m, n

\* The hosts with whole addresses, and the Ethernet addresses, play equal parts.
Alike == Permutations({a, b}) \cup Permutations({m, n})
=============================================================================
