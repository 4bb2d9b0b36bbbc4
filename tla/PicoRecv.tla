------------------------------- MODULE PicoRecv -------------------------------
(***************************************************************************)
(* picowifi_recv() (uip/drivers/usb/picowifi.c): every transfer empties    *)
(* the device's FIFO into a ring twice its size, and one packet a call is  *)
(* taken out of the ring.  A packet follows a magic word and its length.   *)
(*                                                                         *)
(* A cell is two bytes: 0 and 1 of a packet hold the magic word, 2 and 3   *)
(* the length.  No other two cells look like the magic word.               *)
(***************************************************************************)
EXTENDS Integers, Sequences

CONSTANTS
  Fifo,          \* cells in the device's FIFO
  Lens,          \* packet lengths in cells
  Dest,          \* UIP_BUFSIZE, the caller's buffer
  MaxPackets, MaxFaults

H == 4                  \* offsetof(pkt_s, payload)
FIFO_SIZE == 2 * Fifo

VARIABLES wire, up, dev

Nocell == [p |-> 0, at |-> 0]
Cells(p, n) == [i \in 1..(H + n) |-> [p |-> p, at |-> i - 1]]

\* recv_fifo, resync_count and what waits in the device.
Start ==
  [buf |-> [i \in 0..(FIFO_SIZE - 1) |-> Nocell], level |-> 0, read |-> 0, write |-> 0,
   resync |-> 0, burst |-> <<>>, faults |-> 0, cut |-> FALSE]

-----------------------------------------------------------------------------
\* The device keeps a packet that fits its FIFO whole.
Arrive ==
  /\ Len(wire) < MaxPackets
  /\ \E n \in Lens :
       /\ Len(dev.burst) + H + n <= Fifo
       /\ wire' = Append(wire, n)
       /\ dev' = [dev EXCEPT !.burst = @ \o Cells(Len(wire) + 1, n)]
  /\ UNCHANGED up

-----------------------------------------------------------------------------
FifoReset(d) == [d EXCEPT !.read = 0, !.write = 0, !.level = 0]

\* An index moves past the break only with the data that crosses it.
Moved(idx, n) == IF idx + n <= FIFO_SIZE THEN idx + n ELSE idx + n - FIFO_SIZE

Enqueue(d, n) ==
  [d EXCEPT
     !.buf = [i \in 0..(FIFO_SIZE - 1) |->
                LET k == (i - d.write) % FIFO_SIZE
                IN IF k < n THEN d.burst[k + 1] ELSE @[i]],
     !.burst = SubSeq(@, n + 1, Len(@)),
     !.level = @ + n,
     !.write = Moved(@, n)]

Dequeue(d, n) == [d EXCEPT !.level = @ - n, !.read = Moved(@, n)]

Cell(d, k) == d.buf[(d.read + k) % FIFO_SIZE]

-----------------------------------------------------------------------------
\* Wrong on purpose: a transfer is asked for while the ring has any room.
HasRoomAny(d) == FIFO_SIZE - d.level > 0

HasRoom(d) == FIFO_SIZE - d.level >= Fifo

Transfers(d) ==
  {Enqueue(d, Len(d.burst))}
  \cup IF d.faults = MaxFaults \/ d.burst = <<>> THEN {}
       ELSE {[d EXCEPT !.faults = @ + 1], [d EXCEPT !.faults = @ + 1, !.burst = <<>>]}

MagicAhead(d) ==
  /\ Cell(d, 0).p # 0
  /\ Cell(d, 0).at = 0
  /\ Cell(d, 1) = [p |-> Cell(d, 0).p, at |-> 1]

Copied(d, n) ==
  IF \A i \in 0..(n - 1) : Cell(d, H + i) = [p |-> Cell(d, 0).p, at |-> H + i]
  THEN Cell(d, 0).p ELSE -1

\* Not the magic word: four bytes are given up, after three times everything.
Resync(d) ==
  IF d.resync = 3 THEN [FifoReset(d) EXCEPT !.resync = 0]
  ELSE [Dequeue(d, 2) EXCEPT !.resync = @ + 1]

\* Of a packet longer than the caller's buffer only what fits is taken; its rest
\* stays ahead of the next packet.
Extract(d) ==
  LET n == wire[Cell(d, 0).p]
      size == IF Dest < n THEN Dest ELSE n
      d0 == [d EXCEPT !.resync = 0]
  IN IF d.level <= H THEN [st |-> d, up |-> 0]
     ELSE IF ~MagicAhead(d) THEN [st |-> Resync(d), up |-> 0]
     ELSE IF d.level < H + n THEN [st |-> d0, up |-> 0]
     ELSE [st |-> [Dequeue(Dequeue(d0, H), size) EXCEPT !.cut = @ \/ size < n],
           up |-> Copied(d, size)]

Recv ==
  /\ \E t \in IF HasRoom(dev) THEN Transfers(dev) ELSE {dev} :
       LET r == Extract(t)
       IN /\ dev' = r.st
          /\ up' = IF r.up = 0 THEN up ELSE r.up
  /\ UNCHANGED wire

-----------------------------------------------------------------------------
Next == Arrive \/ Recv

TypeOK ==
  /\ dev \in [buf : [0..(FIFO_SIZE - 1) -> [p : 0..Len(wire), at : 0..(Fifo - 1)]],
              level : 0..FIFO_SIZE, read : 0..FIFO_SIZE, write : 0..FIFO_SIZE,
              resync : 0..3, burst : Seq([p : 1..Len(wire), at : 0..(Fifo - 1)]),
              faults : 0..MaxFaults, cut : BOOLEAN]
  /\ (dev.write - dev.read - dev.level) % FIFO_SIZE = 0

Disturbed == dev.faults > 0 \/ dev.cut
=============================================================================
