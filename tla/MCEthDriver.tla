------------------------------ MODULE MCEthDriver ------------------------------
(* Small instances of EthDriver for TLC. *)
EXTENDS EthDriver
=============================================================================
