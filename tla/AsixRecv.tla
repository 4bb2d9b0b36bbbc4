------------------------------- MODULE AsixRecv -------------------------------
(***************************************************************************)
(* asix_recv() (uip/drivers/usb/asix.c): the adapter delivers its packets  *)
(* as a stream of bytes, each packet behind a 4-byte length header and     *)
(* padded to an even length.  The driver reads the stream into the two     *)
(* halves of recv_buf by turns and takes one packet out of it per call.    *)
(*                                                                         *)
(* A byte is a record of the packet it belongs to and its place in it:     *)
(* places 0..3 are the header.  Bytes of other places, bytes of two        *)
(* packets and the byte behind recv_buf never pass the header's check.     *)
(***************************************************************************)
EXTENDS Integers, Sequences

CONSTANTS
  Urb,           \* AX_RX_URB_SIZE
  Lens,          \* packet lengths
  Dest,          \* UIP_BUFSIZE, the caller's buffer
  MaxPackets,    \* bound on the packets that arrive
  MaxFaults      \* bound on the USB transfers that fail

H == 4           \* sizeof(packet_len)
End == 2 * Urb   \* recv_buf ends here

\* "The code implicitly assumes that the maximum size of an Ethernet packet is
\* less than or equal to AX_RX_URB_SIZE": DriverAssumption of EthDriver.

VARIABLES wire, up, dev

Padded(n) == n + (n % 2)
Nobyte == [p |-> 0, at |-> 0]
Bytes(p, n) == [i \in 1..(H + Padded(n)) |-> [p |-> p, at |-> i - 1]]

\* The statics of asix_recv(); burst is what the adapter has not transferred.
Start ==
  [buf |-> [i \in 0..(End - 1) |-> Nobyte], fill |-> 0, empty |-> 0, left |-> 0,
   end |-> FALSE, burst |-> <<>>, faults |-> 0, beyond |-> FALSE]

-----------------------------------------------------------------------------
(* The adapter                                                              *)

Arrive ==
  /\ Len(wire) < MaxPackets
  /\ \E n \in Lens :
       /\ wire' = Append(wire, n)
       /\ dev' = [dev EXCEPT !.burst = @ \o Bytes(Len(wire) + 1, n)]
  /\ UNCHANGED up

-----------------------------------------------------------------------------
(* asix_recv()                                                              *)

\* "out:" the buffer is given up.
Reset(d) == [d EXCEPT !.end = FALSE, !.left = 0, !.fill = 0, !.empty = 0]

OtherHalf(f) == IF f = 0 THEN Urb ELSE 0

NeedsRead(d) == ~d.end /\ d.left <= Urb

\* usb_bulk_msg() delivered n bytes.  Fewer than a half mean that the adapter has
\* no more for now; so does -1, a transfer that timed out.
Filled(d, n) ==
  [d EXCEPT
     !.buf = [i \in 0..(End - 1) |->
                IF i \in d.fill..(d.fill + n - 1) THEN d.burst[i - d.fill + 1] ELSE @[i]],
     !.burst = SubSeq(@, n + 1, Len(@)),
     !.fill = OtherHalf(@),
     !.left = @ + n,
     !.end = n < Urb]

\* Outcomes of the transfer: what is there; nothing, though something is there;
\* an error, which ends the call and may have lost what was transferred.
Transfers(d) ==
  LET n == IF Len(d.burst) < Urb THEN Len(d.burst) ELSE Urb
  IN {[st |-> Filled(d, n), ok |-> TRUE]}
     \cup IF d.faults = MaxFaults \/ n = 0 THEN {}
          ELSE {[st |-> [Filled(d, 0) EXCEPT !.faults = @ + 1], ok |-> TRUE],
                [st |-> [d EXCEPT !.faults = @ + 1], ok |-> FALSE],
                [st |-> [d EXCEPT !.faults = @ + 1,
                                  !.burst = SubSeq(@, n + 1, Len(@))], ok |-> FALSE]}

\* The k-th byte from empty_ptr on; only after the first is the pointer brought
\* back from the end of the buffer.
HeaderByte(d, k) ==
  IF d.empty = End THEN IF k = 0 THEN Nobyte ELSE d.buf[k - 1]
  ELSE d.buf[(d.empty + k) % End]

WellFormed(d) ==
  \A k \in 0..(H - 1) : HeaderByte(d, k) = [p |-> HeaderByte(d, 0).p, at |-> k]
                        /\ HeaderByte(d, k).p # 0

\* Where the packet's bytes begin.
Payload(d) == IF d.empty = End THEN H - 1 ELSE (d.empty + H) % End

\* Wrong on purpose: a packet that wraps is read on behind the buffer's end.
ByteNoWrap(d, i) == IF Payload(d) + i < End THEN d.buf[Payload(d) + i] ELSE Nobyte

Byte(d, i) == d.buf[(Payload(d) + i) % End]

\* Number of the packet whose n bytes are copied, -1 if they are not one packet's.
Copied(d, n) ==
  LET p == HeaderByte(d, 0).p
  IN IF \A i \in 0..(n - 1) : Byte(d, i) = [p |-> p, at |-> H + i] THEN p ELSE -1

\* Wrong on purpose: the padding byte stays in the buffer.
BehindUnpadded(d, n) ==
  LET wrap == Payload(d) + n - End
  IN IF wrap > 0 THEN wrap ELSE Payload(d) + n

\* A packet that ends at the end of the buffer leaves the pointer there.
Behind(d, n) ==
  LET wrap == Payload(d) + n - End
  IN (IF wrap > 0 THEN wrap ELSE Payload(d) + n) + (n % 2)

Taken(d, n) == [d EXCEPT !.empty = Behind(d, n), !.left = @ - H - Padded(n)]

\* The rest of the call once the transfer is done: what is handed up and the new
\* state.  0 is "no packet", which every error comes to.
Extract(d) ==
  LET n == wire[HeaderByte(d, 0).p]
  IN IF d.left < H \/ ~WellFormed(d)
       THEN [st |-> [Reset(d) EXCEPT !.beyond = @ \/ (d.left >= H /\ d.empty = End)],
             up |-> 0]
     ELSE IF n > d.left - H THEN [st |-> Reset(d), up |-> 0]
     ELSE IF n > Dest THEN [st |-> Taken(d, n), up |-> 0]
     ELSE [st |-> Taken(d, n), up |-> Copied(d, n)]

Recv ==
  /\ \E t \in IF NeedsRead(dev) THEN Transfers(dev) ELSE {[st |-> dev, ok |-> TRUE]} :
       LET r == IF t.ok THEN Extract(t.st) ELSE [st |-> Reset(t.st), up |-> 0]
       IN /\ dev' = r.st
          /\ up' = IF r.up = 0 THEN up ELSE r.up
  /\ UNCHANGED wire

-----------------------------------------------------------------------------
Next == Arrive \/ Recv

TypeOK ==
  dev \in [buf : [0..(End - 1) -> [p : 0..Len(wire), at : 0..(Urb - 1)]],
           fill : {0, Urb}, empty : 0..End, left : 0..End, end : BOOLEAN,
           burst : Seq([p : 1..Len(wire), at : 0..(Urb - 1)]),
           faults : 0..MaxFaults, beyond : BOOLEAN]

\* Something was lost for a reason other than a packet's length.
Disturbed == dev.faults > 0 \/ dev.beyond
=============================================================================
