------------------------------ MODULE MCUipTcp ------------------------------
(* Instances of UipTcp for TLC; the bounds are in the .cfg files.           *)
EXTENDS UipTcp

\* A receive window or an MSS option of exactly one full segment.
FullWindow == {UIP_TCP_MSS}

\* A remote host whose SYN may carry no MSS option.
MssOrNone == {0, UIP_TCP_MSS}
=============================================================================
