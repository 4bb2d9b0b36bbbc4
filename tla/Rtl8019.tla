-------------------------------- MODULE Rtl8019 --------------------------------
(***************************************************************************)
(* The receive side of the NE2000 driver (drivers/netusbee/rtl8019.c).     *)
(* The adapter stores packets in a ring of pages at CURR while the driver  *)
(* takes them out at BNRY; both are registers of the adapter, and packets  *)
(* arrive between any two of the driver's accesses.  Pages are numbered    *)
(* from RXSTART_INIT on; a packet takes as many as it needs.               *)
(***************************************************************************)
EXTENDS Integers, Sequences

CONSTANTS
  Pages,         \* RXSTOP_INIT - RXSTART_INIT
  Lens, Dest,    \* packet lengths, UIP_BUFSIZE
  PageLen,       \* bytes of a page, 256
  MaxPackets

VARIABLES wire, up, dev

\* The adapter adds a header and the checksum, of 4 bytes each.
PagesOf(n) == 1 + (n + 7) \div PageLen
Nopage == [p |-> 0, at |-> 0]

\* What initRTL8019() leaves: BNRY one below the ring (NIC_FIRST_RX_PAGE - 1).
\* at is where the driver is: "idle", or "curr" when it has read CURR into i.
Start ==
  [page |-> [g \in 0..(Pages - 1) |-> Nopage], curr |-> 0, bnry |-> -1,
   ovw |-> FALSE, at |-> "idle", i |-> 0, lost |-> FALSE]

-----------------------------------------------------------------------------
(* The adapter                                                              *)

\* Pages the adapter may fill: CURR must not come to BNRY.  A
\* BNRY outside the ring never stops it.
Room(d) == IF d.bnry = -1 THEN Pages ELSE (d.bnry - d.curr - 1) % Pages

Stored(d, p, n) ==
  [d EXCEPT
     !.page = [g \in 0..(Pages - 1) |->
                 LET k == (g - d.curr) % Pages
                 IN IF k < PagesOf(n) THEN [p |-> p, at |-> k] ELSE @[g]],
     !.curr = (@ + PagesOf(n)) % Pages,
     !.lost = @ \/ d.bnry = -1]

Arrive ==
  /\ Len(wire) < MaxPackets
  /\ \E n \in Lens :
       /\ wire' = Append(wire, n)
       /\ dev' = IF ~dev.ovw /\ PagesOf(n) <= Room(dev) THEN Stored(dev, Len(wire) + 1, n)
                 ELSE [dev EXCEPT !.ovw = TRUE, !.lost = TRUE]
  /\ UNCHANGED up

-----------------------------------------------------------------------------
(* RTL8019dev_poll()                                                        *)

\* The ring starts anew: what it holds is given up.
Restart(d) ==
  [d EXCEPT !.bnry = 0, !.curr = 0, !.lost = @ \/ d.bnry \notin {-1, d.curr}]

\* processRTL8019Interrupt(), overrun()
HandleOverrun(d) == IF d.ovw THEN [Restart(d) EXCEPT !.ovw = FALSE] ELSE d

\* RTL8019beginPacketRetreive() up to the reading of CURR.
Begin ==
  /\ dev.at = "idle"
  /\ LET d == HandleOverrun(dev)
     IN dev' = [d EXCEPT !.at = "curr", !.i = d.curr]
  /\ UNCHANGED <<wire, up>>

\* Wrong on purpose: only one page of a packet is given back.
NextPageOne(d) == (d.bnry + 1) % Pages

\* The page header's pointer to the next packet.
NextPage(d) == (d.bnry + PagesOf(wire[d.page[d.bnry].p])) % Pages

\* What the pages from BNRY on hold: the number of the packet if it is one.
Copied(d, n) ==
  LET first == d.page[d.bnry]
  IN IF /\ first.at = 0
        /\ \A k \in 1..(PagesOf(n) - 1) :
             d.page[(d.bnry + k) % Pages] = [p |-> first.p, at |-> k]
     THEN first.p ELSE -1

Idle(d) == [d EXCEPT !.at = "idle", !.i = 0]

\* BNRY is compared with the CURR read before; packets stored since wait for the
\* next poll.  A page header whose pointer is not in the ring is taken for a packet
\* that is not ready, and read again at the next poll.
Retrieve ==
  /\ dev.at = "curr"
  /\ IF dev.bnry = dev.i THEN dev' = Idle(dev) /\ UNCHANGED up
     ELSE IF dev.bnry = -1 THEN dev' = Idle(Restart(dev)) /\ UNCHANGED up
     ELSE \/ dev' = Idle(dev) /\ UNCHANGED up
          \/ LET n == wire[dev.page[dev.bnry].p]
             IN /\ dev' = [Idle(dev) EXCEPT !.bnry = NextPage(dev)]
                /\ up' = IF n > Dest THEN up ELSE Copied(dev, n)
  /\ UNCHANGED wire

-----------------------------------------------------------------------------
Next == Arrive \/ Begin \/ Retrieve

TypeOK ==
  dev \in [page : [0..(Pages - 1) -> [p : 0..Len(wire), at : 0..(Pages - 1)]],
           curr : 0..(Pages - 1), bnry : -1..(Pages - 1), ovw : BOOLEAN,
           at : {"idle", "curr"}, i : 0..(Pages - 1), lost : BOOLEAN]

Disturbed == dev.lost
=============================================================================
