------------------------------- MODULE EthDriver -------------------------------
(***************************************************************************)
(* The network driver as the main loop sees it: driver_init(),             *)
(* driver_poll() and what net_send() puts on the wire.  drivers/driver.h   *)
(* makes the choice between the RTL8019 and USB when the program is built, *)
(* USBETHdev_init() between the two USB drivers when it starts.            *)
(*                                                                         *)
(* Sending: a full TCP segment is cut in two (uip-split.c), each half goes *)
(* through uip_arp_out(), which puts an ARP request in its place when the  *)
(* next hop is unknown, and the drivers take the first 54 bytes of a frame *)
(* from uip_buf and the others from uip_appdata.                           *)
(***************************************************************************)
EXTENDS Integers, Sequences

CONSTANTS
  Lens, Dest, MaxPackets, MaxFaults,
  Urb, Fifo, Pages, PageLen,
  Dongles, Polls,
  Segs,          \* lengths of the TCP segments sent
  SplitAbove     \* "uip_len > 1400": longer ones are cut in two

VARIABLES
  mode,          \* the driver in use, "setup" while the USB drivers look for theirs,
                 \* "none" without an adapter, "over" when the program has ended
  su,            \* see UsbSetup
  wire, up, dev, \* see the drivers' modules
  frames         \* what the last net_send() put on the wire

vars == <<mode, su, wire, up, dev, frames>>

Asix == INSTANCE AsixRecv
Pico == INSTANCE PicoRecv
Rtl == INSTANCE Rtl8019
Usb == INSTANCE UsbSetup

\* A packet with its header of 4 bytes fits into the buffer of each driver.
ASSUME DriverAssumption ==
  /\ Urb \in Nat \ {0} /\ Urb % 2 = 0 /\ Lens \subseteq 1..(Urb - 4)
  /\ Fifo \in Nat \ {0} /\ Lens \subseteq 1..(Fifo - 4)
  /\ Pages \in Nat \ {0} /\ PageLen \in Nat \ {0}
  /\ \A n \in Lens : Rtl!PagesOf(n) < Pages
  /\ Dongles \subseteq {"172", "772", "772B", "picowifi", "other", "none"}
  /\ Polls \in Nat \ {0}
  /\ Dest \in Nat /\ MaxPackets \in Nat /\ MaxFaults \in Nat
  /\ Segs \subseteq Nat \ {0} /\ SplitAbove \in Nat \ {0}

\* The abstract specification; what the drivers keep in dev is not part of it.
Promise == INSTANCE PacketStream WITH Lens <- Lens, wire <- wire, up <- up

-----------------------------------------------------------------------------
(* uip_split_output(), ip_packet_output(), driver_send()                    *)

\* A frame is its kind, the stream place its header names, the data it carries as
\* stream places, and (history) the length of the segment it is cut from.
TcpFrame(seq, data, n) == [kind |-> "tcp", seq |-> seq, data |-> data, of |-> n]
Request == [kind |-> "arp", seq |-> 0, data |-> <<>>, of |-> 0]
Garbled == [kind |-> "garbled", seq |-> 0, data |-> <<>>, of |-> 0]

From(a, n) == [i \in 1..n |-> a + i - 1]

\* Wrong on purpose: an odd segment loses its last byte.
Len2Even(n) == n \div 2

\* The second half of an odd segment is one byte longer.
Len2(n) == IF n % 2 = 1 THEN n \div 2 + 1 ELSE n \div 2

\* uip_appdata once the second half is moved down to it.
SecondHalf(n, len1, len2) == SubSeq(From(0, n), len1 + 1, len1 + len2)

\* The frames of a segment of n bytes.  When the next hop is unknown the header is
\* overwritten by the request, and the second half's is made of what is left of
\* it: another request, or a frame to the router.
Output(n, known, router) ==
  LET len1 == n \div 2
      first == IF known THEN TcpFrame(0, From(0, len1), n) ELSE Request
      second == IF known THEN TcpFrame(len1, SecondHalf(n, len1, Len2(n)), n)
                ELSE IF router THEN Garbled ELSE Request
  IN IF n > SplitAbove THEN <<first, second>>
     ELSE IF known THEN <<TcpFrame(0, From(0, n), n)>> ELSE <<Request>>

\* asix_send(), picowifi_send(): a transfer that fails, or for which there is no
\* memory, is not tried again.
AsixSent(fs) == {<<>>, fs} \union {<<fs[i]>> : i \in DOMAIN fs}
PicoSent(fs) == {<<>>, fs} \union {<<fs[i]>> : i \in DOMAIN fs}

\* RTL8019dev_send(): waits for the frame before to be out.
RtlSent(fs) == {fs}

\* driver_send()
Transmitted(fs) ==
  CASE mode = "none" -> {<<>>}
    [] mode = "asix" -> AsixSent(fs)
    [] mode = "picowifi" -> PicoSent(fs)
    [] mode = "rtl8019" -> RtlSent(fs)

\* Sending and receiving share nothing here.  Bound: only until a packet arrives.
Send ==
  /\ mode \notin {"setup", "over"} /\ wire = <<>>
  /\ \E n \in Segs, known, router \in BOOLEAN :
       frames' \in Transmitted(Output(n, known, router))
  /\ UNCHANGED <<mode, su, wire, up, dev>>

-----------------------------------------------------------------------------
(* driver_init() and driver_poll()                                          *)

Nothing == [none |-> TRUE]

Setup ==
  /\ mode = "setup" /\ ~Usb!SetupDone
  /\ Usb!SetupNext
  /\ UNCHANGED <<mode, wire, up, dev, frames>>

Ready ==
  /\ mode = "setup" /\ Usb!SetupDone
  /\ mode' = IF su.given = "none" THEN "over"
             ELSE IF su.result = "nothing" THEN "none" ELSE su.result
  /\ dev' = CASE su.result = "asix" -> Asix!Start
              [] su.result = "picowifi" -> Pico!Start
              [] OTHER -> Nothing
  /\ su' = Usb!Outcome
  /\ UNCHANGED <<wire, up, frames>>

Arrive ==
  /\ \/ mode = "asix" /\ Asix!Arrive
     \/ mode = "picowifi" /\ Pico!Arrive
     \/ mode = "rtl8019" /\ Rtl!Arrive
  /\ frames' = <<>>
  /\ UNCHANGED <<mode, su>>

\* USBETHdev_poll(), RTL8019dev_poll(): an error is no packet.
Poll ==
  /\ \/ mode = "asix" /\ Asix!Recv
     \/ mode = "picowifi" /\ Pico!Recv
     \/ mode = "rtl8019" /\ (Rtl!Begin \/ Rtl!Retrieve)
  /\ UNCHANGED <<mode, su, frames>>

-----------------------------------------------------------------------------
Init ==
  /\ \/ mode = "setup" /\ dev = Nothing
     \/ mode = "rtl8019" /\ dev = Rtl!Start
  /\ Usb!SetupInit
  /\ wire = <<>> /\ up = 0
  /\ frames = <<>>

Next == Setup \/ Ready \/ Arrive \/ Poll \/ Send

\* The program and the USB stack run on; the network may fall silent.  The RTL8019
\* does not show an invalid page header for ever.
Fairness ==
  /\ WF_vars(Setup) /\ WF_vars(Ready) /\ WF_vars(Poll)
  /\ SF_vars(mode = "rtl8019" /\ Poll /\ dev'.bnry # dev.bnry)

Spec == Init /\ [][Next]_vars
FairSpec == Spec /\ Fairness

-----------------------------------------------------------------------------
(* Properties                                                               *)

TypeOK ==
  /\ mode \in {"setup", "over", "none", "asix", "picowifi", "rtl8019"}
  /\ Usb!SetupTypeOK
  /\ up \in 0..Len(wire)
  /\ mode = "asix" => Asix!TypeOK
  /\ mode = "picowifi" => Pico!TypeOK
  /\ mode = "rtl8019" => Rtl!TypeOK

\* Every driver keeps the promise of PacketStream: what it hands up is a packet
\* that arrived, whole or cut to the caller's buffer, none twice and none before
\* an earlier one, whatever transfers fail, wherever a packet lies in the buffers.
KeepsPromise == Promise!Spec

Disturbed ==
  CASE mode = "asix" -> Asix!Disturbed
    [] mode = "picowifi" -> Pico!Disturbed
    [] mode = "rtl8019" -> Rtl!Disturbed
    [] OTHER -> FALSE

TooLong(k) == wire[k] > Dest

\* A packet that fits is handed up in the end, unless a transfer failed, the
\* adapter's ring ran full, a longer packet upset the stream, or a packet ended at
\* the end of the ASIX driver's buffer.
AllHandedUp ==
  \A k \in 1..MaxPackets :
    (k <= Len(wire) /\ ~TooLong(k)) ~> (up >= k \/ Disturbed)

\* And none before it is left out.
NoneSkipped ==
  [][\A k \in (up + 1)..(up' - 1) : TooLong(k) \/ Disturbed \/ Disturbed']_vars

\* An adapter in use has a whole address: no command that failed on the way left
\* uIP with a part of one (asix.c: "Failed to read SROM address").
AddressWhole == mode \in {"asix", "picowifi"} => su.given = "whole"

\* Starting up ends: with an adapter, without one, or with the program; also when
\* the link never comes.
StartsUp == <>(mode # "setup")

\* A TCP frame on the wire carries the bytes its sequence number says: the whole
\* segment if it is not longer than SplitAbove, otherwise its beginning or its end;
\* and if both went out they meet, so that together they are all of it.  (What goes
\* out for a segment whose next hop is unknown is no TCP frame.)
HalvesFit ==
  \A i \in DOMAIN frames : frames[i].kind = "tcp" =>
    LET f == frames[i]
        beyond == f.seq + Len(f.data)
    IN /\ f.data = From(f.seq, Len(f.data))
       /\ f.seq = 0 \/ beyond = f.of
       /\ f.of =< SplitAbove => f.seq = 0 /\ beyond = f.of
       /\ i = 2 /\ frames[1].kind = "tcp" =>
            frames[1].seq = 0 /\ f.seq = Len(frames[1].data) /\ beyond = f.of

\* No packet is lost on the way out of the ASIX driver's buffer as long as every
\* transfer succeeds (asix.c: "Extract the data, allowing the packet length header
\* to wrap at the end of the buffers").
HeaderWraps == mode = "asix" /\ dev.faults = 0 => ~dev.beyond
=============================================================================
