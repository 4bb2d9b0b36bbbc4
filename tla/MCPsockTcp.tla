----------------------------- MODULE MCPsockTcp -----------------------------
(* Instances of PsockTcp for TLC; the bounds are in the .cfg files.         *)
EXTENDS PsockTcp

\* A receive window or an MSS option of exactly one full segment.
FullWindow == {UIP_TCP_MSS}

\* A remote host that also closes its window.
FullOrZeroWindow == {0, UIP_TCP_MSS}

\* A remote host whose window may be anything up to a full segment.
AnyWindow == 0..UIP_TCP_MSS
=============================================================================
