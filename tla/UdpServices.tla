----------------------------- MODULE UdpServices -----------------------------
(***************************************************************************)
(* The two users of uIP's UDP: the DHCP client, and the console of a       *)
(* program that runs.  udp_appcall() (main.c) tells them apart by their    *)
(* port.  They share nothing but the receive loop that Dhcp has as `busy', *)
(* so each is looked at by itself: mode says which.  The console's machine *)
(* has a static address.                                                   *)
(***************************************************************************)
EXTENDS Dhcp, Console

VARIABLE mode

vars == <<mode, dvars, cvars>>

Init ==
  /\ CInit
  /\ \/ mode = "dhcp" /\ DInit
     \/ mode = "console" /\ DStatic

\* udp_appcall()
Next ==
  /\ UNCHANGED mode
  /\ \/ mode = "dhcp" /\ DNext /\ UNCHANGED cvars
     \/ mode = "console" /\ CNext /\ UNCHANGED dvars

Spec == Init /\ [][Next]_vars
FairSpec == Spec /\ DFairness

TypeOK == DTypeOK /\ CTypeOK
=============================================================================
