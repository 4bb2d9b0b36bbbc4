-------------------------------- MODULE MCUdp --------------------------------
(* Small instances of UdpServices for TLC. *)
EXTENDS UdpServices
=============================================================================
