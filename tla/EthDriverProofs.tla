--------------------------- MODULE EthDriverProofs ---------------------------
(***************************************************************************)
(* That each driver implements PacketStream, for buffers, rings and packets*)
(* of any size and any number of failing transfers; that none leaves out a *)
(* packet that fits unless something was disturbed; that an adapter in use *)
(* has a whole address; and that the frames of a cut segment fit.          *)
(***************************************************************************)
EXTENDS EthDriver, TLAPS

-----------------------------------------------------------------------------
(* Packets in a buffer of bytes or cells.                                   *)

\* q[0] to q[n - 1] are pieces [p, at] of the packets 1..last, of which size[p]
\* are packet p: the rest of one packet, if any, and then whole packets one after
\* the other, none of them begun before up.
Pieces(q, n, last, size, u) ==
  /\ \A k \in 0..(n - 1) :
       /\ q[k].p \in 1..last
       /\ q[k].at \in 0..(size[q[k].p] - 1)
       /\ u < q[k].p \/ (u = q[k].p /\ 0 < q[k].at)
       /\ size[q[k].p] =< q[k].at + (n - k)
  /\ \A j, k \in 0..(n - 1) : j < k =>
       /\ q[j].at + (k - j) < size[q[j].p]
            => q[k] = [p |-> q[j].p, at |-> q[j].at + (k - j)]
       /\ ~(q[j].at + (k - j) < size[q[j].p]) => q[j].p < q[k].p

\* r is q and then the s pieces of packet p.
Longer(q, r, n, s, p) ==
  /\ \A k \in 0..(n - 1) : r[k] = q[k]
  /\ \A k \in n..(n + s - 1) : r[k] = [p |-> p, at |-> k - n]

\* r are the n pieces q without the first m.
Without(q, r, n, m) == \A k \in 0..(n - m - 1) : r[k] = q[k + m]

-----------------------------------------------------------------------------
(* A circular buffer, and what the adapter has not delivered yet.           *)

\* The l pieces of buf from e on, size of the buffer N, and then those of burst.
Held(buf, e, l, burst, N) ==
  [k \in 0..((l + Len(burst)) - 1) |->
     IF k < l THEN buf[(e + k) % N] ELSE burst[k - l + 1]]

\* The place i, where the next piece is put, is l pieces ahead of o.
InStep(i, o, l, N) == (i - o - l) % N = 0

\* They are pieces of the packets of w that come after number u.
BufferInv(buf, e, l, burst, N, w, size, u) ==
  /\ N \in Nat \ {0} /\ e \in 0..N /\ l \in 0..N
  /\ burst \in Seq([p : Nat, at : Nat])
  /\ w \in Seq(Lens) /\ u \in 0..Len(w) /\ size \in [1..Len(w) -> Nat]
  /\ Pieces(Held(buf, e, l, burst, N), l + Len(burst), Len(w), size, u)

-----------------------------------------------------------------------------
(* The ASIX driver.                                                         *)

AsixSizes(w) == [p \in 1..Len(w) |-> Asix!H + Asix!Padded(w[p])]

AsixDevs(last) ==
  [buf : [0..(Asix!End - 1) -> [p : 0..last, at : 0..(Urb - 1)]],
   fill : {0, Urb}, empty : 0..Asix!End, left : 0..Asix!End, end : BOOLEAN,
   burst : Seq([p : 1..last, at : 0..(Urb - 1)]),
   faults : 0..MaxFaults, beyond : BOOLEAN]

\* Only even numbers of bytes are taken out; as long as the adapter has more, its
\* bytes follow those in the buffer.
AsixOK(d, w, u) ==
  /\ d \in AsixDevs(Len(w))
  /\ d.empty % 2 = 0 /\ d.left % 2 = 0 /\ Len(d.burst) % 2 = 0
  /\ ~d.end => InStep(d.fill, d.empty, d.left, Asix!End)
  /\ BufferInv(d.buf, d.empty, d.left, d.burst, Asix!End, w, AsixSizes(w), u)

AsixInv == AsixOK(dev, wire, up)

-----------------------------------------------------------------------------
(* The PicoWifi driver.                                                     *)

PicoSizes(w) == [p \in 1..Len(w) |-> Pico!H + w[p]]

PicoDevs(last) ==
  [buf : [0..(Pico!FIFO_SIZE - 1) -> [p : 0..last, at : 0..(Fifo - 1)]],
   level : 0..Pico!FIFO_SIZE, read : 0..Pico!FIFO_SIZE, write : 0..Pico!FIFO_SIZE,
   resync : 0..3, burst : Seq([p : 1..last, at : 0..(Fifo - 1)]),
   faults : 0..MaxFaults, cut : BOOLEAN]

\* A transfer brings whole packets: the ring is in order with what waits in the
\* device and without it.
PicoOK(d, w, u) ==
  /\ d \in PicoDevs(Len(w))
  /\ (d.write - d.read - d.level) % Pico!FIFO_SIZE = 0
  /\ Len(d.burst) =< Fifo
  /\ BufferInv(d.buf, d.read, d.level, d.burst, Pico!FIFO_SIZE, w, PicoSizes(w), u)
  /\ BufferInv(d.buf, d.read, d.level, <<>>, Pico!FIFO_SIZE, w, PicoSizes(w), u)

PicoInv == PicoOK(dev, wire, up)

-----------------------------------------------------------------------------
(* The RTL8019 driver.                                                      *)

RtlSizes(w) == [p \in 1..Len(w) |-> Rtl!PagesOf(w[p])]

\* How many pages c is ahead of b in the ring.
RtlAhead(c, b) == (c - b) % Pages

\* The n pages from b on.
RtlRing(page, b, n) == [k \in 0..(n - 1) |-> page[(b + k) % Pages]]

\* No packet in the ring has lost its first page.
Unbroken(q, n) ==
  \A k \in 0..(n - 1) : q[k].at = 0 \/ (0 < k /\ q[k - 1].p = q[k].p)

\* The pages from b up to c hold packets of w that come after number u.
RingInv(page, b, c, w, u) ==
  LET n == RtlAhead(c, b)
      q == RtlRing(page, b, n)
  IN /\ b \in 0..(Pages - 1) /\ c \in 0..(Pages - 1) /\ w \in Seq(Lens) /\ u \in 0..Len(w)
     /\ Pieces(q, n, Len(w), RtlSizes(w), u) /\ Unbroken(q, n)

RtlInv ==
  /\ Rtl!TypeOK
  /\ dev.bnry = -1 => up = 0
  /\ dev.bnry # -1 =>
       /\ RingInv(dev.page, dev.bnry, dev.curr, wire, up)
       /\ dev.at = "curr" => RtlAhead(dev.i, dev.bnry) =< RtlAhead(dev.curr, dev.bnry)

-----------------------------------------------------------------------------
DriverInv ==
  /\ wire \in Seq(Lens)
  /\ up \in 0..Len(wire)
  /\ mode = "setup" => wire = <<>>
  /\ mode = "asix" => AsixInv
  /\ mode = "picowifi" => PicoInv
  /\ mode = "rtl8019" => RtlInv

-----------------------------------------------------------------------------
(* Pieces of packets.                                                       *)

\* Where a circular buffer of length m has its places.
LEMMA Around ==
  ASSUME NEW m \in Nat \ {0}, NEW x \in Int
  PROVE  /\ x % m \in 0..(m - 1)
         /\ 0 =< x /\ x < m => x % m = x
         /\ m =< x /\ x < 2 * m => x % m = x - m
         /\ -m =< x /\ x < 0 => x % m = x + m
         /\ -(2 * m) =< x /\ x < -m => x % m = x + 2 * m
OBVIOUS

\* What is left when the first m pieces are gone.
LEMMA PiecesDrop ==
  ASSUME NEW q, NEW r, NEW n \in Nat, NEW m \in 0..n, NEW last \in Nat,
         NEW size \in [1..last -> Nat], NEW u \in Nat,
         Pieces(q, n, last, size, u),
         \A k \in 0..(n - m - 1) : r[k] = q[k + m]
  PROVE  Pieces(r, n - m, last, size, u)
<1>1. ASSUME NEW k \in 0..(n - m - 1)
      PROVE  /\ r[k].p \in 1..last
             /\ r[k].at \in 0..(size[r[k].p] - 1)
             /\ u < r[k].p \/ (u = r[k].p /\ 0 < r[k].at)
             /\ size[r[k].p] =< r[k].at + (n - m - k)
  <2>1. k + m \in 0..(n - 1) /\ r[k] = q[k + m]
    OBVIOUS
  <2>2. /\ q[k + m].p \in 1..last
        /\ q[k + m].at \in 0..(size[q[k + m].p] - 1)
        /\ u < q[k + m].p \/ (u = q[k + m].p /\ 0 < q[k + m].at)
        /\ size[q[k + m].p] =< q[k + m].at + (n - (k + m))
    BY <2>1 DEF Pieces
  <2>3. n - (k + m) = n - m - k
    OBVIOUS
  <2> QED BY <2>1, <2>2, <2>3
<1>2. ASSUME NEW j \in 0..(n - m - 1), NEW k \in 0..(n - m - 1), j < k
      PROVE  /\ r[j].at + (k - j) < size[r[j].p]
                  => r[k] = [p |-> r[j].p, at |-> r[j].at + (k - j)]
             /\ ~(r[j].at + (k - j) < size[r[j].p]) => r[j].p < r[k].p
  <2>1. /\ j + m \in 0..(n - 1) /\ r[j] = q[j + m]
        /\ k + m \in 0..(n - 1) /\ r[k] = q[k + m]
        /\ j + m < k + m /\ (k + m) - (j + m) = k - j
    BY <1>2
  <2>2. /\ q[j + m].at + ((k + m) - (j + m)) < size[q[j + m].p]
             => q[k + m] = [p |-> q[j + m].p, at |-> q[j + m].at + ((k + m) - (j + m))]
        /\ ~(q[j + m].at + ((k + m) - (j + m)) < size[q[j + m].p])
             => q[j + m].p < q[k + m].p
    BY <2>1 DEF Pieces
  <2> QED BY <2>1, <2>2
<1> QED BY <1>1, <1>2, Zenon DEF Pieces

\* When they were the head of packet p, what is left comes after p was begun.
LEMMA PiecesTake ==
  ASSUME NEW q, NEW r, NEW n \in Nat, NEW m \in 1..n, NEW last \in Nat,
         NEW size \in [1..last -> Nat], NEW u \in Nat,
         Pieces(q, n, last, size, u), q[0].at = 0,
         \A k \in 0..(n - m - 1) : r[k] = q[k + m]
  PROVE  Pieces(r, n - m, last, size, q[0].p)
<1>0. m \in 0..n
  OBVIOUS
<1>1. Pieces(r, n - m, last, size, u)
  BY <1>0, PiecesDrop
<1>2. ASSUME NEW k \in 0..(n - m - 1)
      PROVE  q[0].p < r[k].p \/ (q[0].p = r[k].p /\ 0 < r[k].at)
  <2>1. /\ k + m \in 0..(n - 1) /\ r[k] = q[k + m] /\ 0 \in 0..(n - 1)
        /\ 0 < k + m /\ (k + m) - 0 = k + m
    OBVIOUS
  <2>2. /\ q[0].at + ((k + m) - 0) < size[q[0].p]
             => q[k + m] = [p |-> q[0].p, at |-> q[0].at + ((k + m) - 0)]
        /\ ~(q[0].at + ((k + m) - 0) < size[q[0].p]) => q[0].p < q[k + m].p
    BY <2>1 DEF Pieces
  <2> QED BY <2>1, <2>2
<1> QED BY <1>1, <1>2 DEF Pieces

\* The first s pieces are packet p, from its beginning on.
Whole(q, p, s) == \A k \in 1..(s - 1) : q[k] = [p |-> p, at |-> k]

\* A packet that begins at the head is there as far as the pieces go.
LEMMA PiecesHead ==
  ASSUME NEW q, NEW n \in Nat, NEW last \in Nat, NEW size \in [1..last -> Nat],
         NEW u \in Nat, Pieces(q, n, last, size, u), n > 0, q[0].at = 0
  PROVE  /\ q[0].p \in 1..last /\ u < q[0].p /\ 0 < size[q[0].p]
         /\ size[q[0].p] =< n
         /\ Whole(q, q[0].p, size[q[0].p])
<1>1. 0 \in 0..(n - 1)
  OBVIOUS
<1>2. /\ q[0].p \in 1..last /\ q[0].at \in 0..(size[q[0].p] - 1)
      /\ u < q[0].p \/ (u = q[0].p /\ 0 < q[0].at)
      /\ size[q[0].p] =< q[0].at + (n - 0)
  BY <1>1 DEF Pieces
<1>3. size[q[0].p] \in Nat
  BY <1>2
<1>4. ASSUME NEW k \in 1..(size[q[0].p] - 1)
      PROVE  q[k] = [p |-> q[0].p, at |-> k]
  <2>1. k \in 0..(n - 1) /\ 0 < k /\ k - 0 = k /\ k < size[q[0].p]
    BY <1>2, <1>3
  <2>2. q[0].at + (k - 0) = k
    BY <2>1
  <2>3. q[k] = [p |-> q[0].p, at |-> q[0].at + (k - 0)]
    BY <1>1, <2>1, <2>2 DEF Pieces
  <2> QED BY <2>2, <2>3
<1>5. Whole(q, q[0].p, size[q[0].p])
  BY <1>4 DEF Whole
<1> QED BY <1>2, <1>3, <1>5

\* Piece k of q is a piece of a packet that is all there, none begun before u.
PieceOf(q, k, n, last, size, u) ==
  /\ q[k].p \in 1..last
  /\ q[k].at \in 0..(size[q[k].p] - 1)
  /\ u < q[k].p \/ (u = q[k].p /\ 0 < q[k].at)
  /\ size[q[k].p] =< q[k].at + (n - k)

\* Piece k of q is the one k - j behind piece j, or one of a later packet.
Follows(q, j, k, size) ==
  /\ q[j].at + (k - j) < size[q[j].p]
       => q[k] = [p |-> q[j].p, at |-> q[j].at + (k - j)]
  /\ ~(q[j].at + (k - j) < size[q[j].p]) => q[j].p < q[k].p

LEMMA PieceSame ==
  ASSUME NEW q, NEW r, NEW k, NEW n, NEW last, NEW size, NEW u,
         PieceOf(q, k, n, last, size, u), r[k] = q[k]
  PROVE  PieceOf(r, k, n, last, size, u)
BY Zenon DEF PieceOf

LEMMA FollowsSame ==
  ASSUME NEW q, NEW r, NEW j, NEW k, NEW size, NEW size2,
         Follows(q, j, k, size), r[j] = q[j], r[k] = q[k],
         size2[q[j].p] = size[q[j].p]
  PROVE  Follows(r, j, k, size2)
BY Zenon DEF Follows

LEMMA MoreBehind ==
  ASSUME NEW a \in Int, NEW c \in Int, NEW n \in Nat, NEW s \in Nat, NEW k \in Nat
  PROVE  /\ c =< a + (n - k) => c =< a + (n + s - k)
         /\ c =< a + (n - k) /\ n =< k + s => ~(a + s < c)
OBVIOUS

\* A packet that arrives comes behind all that is there.
LEMMA PiecesExtend ==
  ASSUME NEW q, NEW r, NEW n \in Nat, NEW s \in Nat \ {0}, NEW last \in Nat,
         NEW size \in [1..last -> Nat], NEW size2 \in [1..(last + 1) -> Nat],
         NEW u \in 0..last, Pieces(q, n, last, size, u),
         \A p \in 1..last : size2[p] = size[p],
         size2[last + 1] = s,
         \A k \in 0..(n - 1) : r[k] = q[k],
         \A k \in n..(n + s - 1) : r[k] = [p |-> last + 1, at |-> k - n]
  PROVE  Pieces(r, n + s, last + 1, size2, u)
<1>1. ASSUME NEW k \in 0..(n + s - 1)
      PROVE  /\ r[k].p \in 1..(last + 1)
             /\ r[k].at \in 0..(size2[r[k].p] - 1)
             /\ u < r[k].p \/ (u = r[k].p /\ 0 < r[k].at)
             /\ size2[r[k].p] =< r[k].at + (n + s - k)
  <2>1. CASE k \in 0..(n - 1)
    <3>1. /\ r[k].p \in 1..last
          /\ r[k].at \in 0..(size[r[k].p] - 1)
          /\ u < r[k].p \/ (u = r[k].p /\ 0 < r[k].at)
          /\ size[r[k].p] =< r[k].at + (n - k)
      <4>1. PieceOf(q, k, n, last, size, u)
        BY <2>1 DEF Pieces, PieceOf
      <4>2. PieceOf(r, k, n, last, size, u)
        BY <2>1, <4>1, PieceSame, Zenon
      <4> QED BY <4>2 DEF PieceOf
    <3>2. size2[r[k].p] = size[r[k].p] /\ size[r[k].p] \in Nat
      BY <3>1
    <3>3. r[k].p \in 1..(last + 1)
      BY <3>1
    <3>4. PICK a : a = r[k].at
      OBVIOUS
    <3>5. PICK c : c = size[r[k].p]
      OBVIOUS
    <3>6. a \in Int /\ c \in Int /\ c =< a + (n - k) /\ k \in Nat /\ s \in Nat
      <4>1. c \in Nat /\ a \in 0..(c - 1) /\ c =< a + (n - k)
        BY <3>1, <3>2, <3>4, <3>5, Zenon
      <4>2. k \in Nat /\ s \in Nat
        BY <2>1
      <4> QED BY <4>1, <4>2
    <3>7. c =< a + (n + s - k)
      BY <3>6, MoreBehind, Zenon
    <3> QED BY <3>1, <3>2, <3>3, <3>4, <3>5, <3>6, <3>7, Zenon
  <2>2. CASE k \in n..(n + s - 1)
    <3>0. r[k] = [p |-> last + 1, at |-> k - n]
      BY <2>2, Zenon
    <3>1. r[k].p = last + 1 /\ r[k].at = k - n
      BY <3>0
    <3>2. /\ last + 1 \in 1..(last + 1) /\ k - n \in 0..(size2[last + 1] - 1)
          /\ u < last + 1 /\ size2[last + 1] =< (k - n) + (n + s - k)
      BY <2>2
    <3>3. r[k].p \in 1..(last + 1)
      BY <3>1, <3>2
    <3>4. r[k].at \in 0..(size2[r[k].p] - 1)
      BY <3>1, <3>2
    <3>5. u < r[k].p
      BY <3>1, <3>2
    <3>6. size2[r[k].p] =< r[k].at + (n + s - k)
      BY <3>1, <3>2
    <3> QED BY <3>3, <3>4, <3>5, <3>6
  <2> QED BY <2>1, <2>2
<1>2. ASSUME NEW j \in 0..(n + s - 1), NEW k \in 0..(n + s - 1), j < k
      PROVE  /\ r[j].at + (k - j) < size2[r[j].p]
                  => r[k] = [p |-> r[j].p, at |-> r[j].at + (k - j)]
             /\ ~(r[j].at + (k - j) < size2[r[j].p]) => r[j].p < r[k].p
  <2>1. CASE k \in 0..(n - 1)
    <3>1. j \in 0..(n - 1)
      BY <1>2, <2>1
    <3>2. PieceOf(q, j, n, last, size, u) /\ Follows(q, j, k, size)
      BY <1>2, <2>1, <3>1 DEF Pieces, PieceOf, Follows
    <3>3. r[j] = q[j] /\ r[k] = q[k]
      BY <2>1, <3>1
    <3>4. size2[q[j].p] = size[q[j].p]
      BY <3>2 DEF PieceOf
    <3>5. Follows(r, j, k, size2)
      BY <3>2, <3>3, <3>4, FollowsSame, Zenon
    <3> QED BY <3>5 DEF Follows
  <2>2. CASE j \in 0..(n - 1) /\ k \in n..(n + s - 1)
    <3>1. /\ r[j].p \in 1..last
          /\ r[j].at \in 0..(size[r[j].p] - 1)
          /\ size[r[j].p] =< r[j].at + (n - j)
      BY <2>2 DEF Pieces
    <3>2. size2[r[j].p] = size[r[j].p] /\ size[r[j].p] \in Nat
      BY <3>1
    <3>3. r[j].at \in Nat
      BY <3>1, <3>2
    <3>7. PICK a : a = r[j].at
      OBVIOUS
    <3>8. PICK c : c = size[r[j].p]
      OBVIOUS
    <3>9. /\ a \in Int /\ c \in Int /\ c =< a + (n - j) /\ n =< j + (k - j)
          /\ k - j \in Nat /\ j \in Nat
      BY <1>2, <2>2, <3>1, <3>2, <3>3, <3>7, <3>8
    <3>10. ~(a + (k - j) < c)
      BY <3>9, MoreBehind, Zenon
    <3>4. ~(r[j].at + (k - j) < size2[r[j].p])
      BY <3>2, <3>7, <3>8, <3>10
    <3>0. r[k] = [p |-> last + 1, at |-> k - n]
      BY <2>2, Zenon
    <3>5. r[k].p = last + 1
      BY <3>0
    <3>6. r[j].p < last + 1
      BY <3>1
    <3> QED BY <3>4, <3>5, <3>6, Zenon
  <2>3. CASE j \in n..(n + s - 1) /\ k \in n..(n + s - 1)
    <3>1. /\ r[j] = [p |-> last + 1, at |-> j - n]
          /\ r[k] = [p |-> last + 1, at |-> k - n]
      BY <2>3, Zenon
    <3>2. (j - n) + (k - j) = k - n /\ k - n < s
      BY <2>3
    <3>3. /\ r[j].p = last + 1 /\ r[j].at = j - n
          /\ r[k] = [p |-> last + 1, at |-> k - n]
      BY <3>1
    <3> QED BY <3>2, <3>3
  <2> QED BY <1>2, <2>1, <2>2, <2>3
<1> QED BY <1>1, <1>2 DEF Pieces

\* The same when a packet is lost on its arrival.
LEMMA PiecesLost ==
  ASSUME NEW q, NEW n \in Nat, NEW last \in Nat,
         NEW size \in [1..last -> Nat], NEW size2 \in [1..(last + 1) -> Nat],
         NEW u \in 0..last, Pieces(q, n, last, size, u),
         \A p \in 1..last : size2[p] = size[p]
  PROVE  Pieces(q, n, last + 1, size2, u)
<1>1. ASSUME NEW k \in 0..(n - 1)
      PROVE  q[k].p \in 1..last /\ q[k].p \in 1..(last + 1) /\ size2[q[k].p] = size[q[k].p]
  <2>1. q[k].p \in 1..last
    BY DEF Pieces
  <2> QED BY <2>1
<1>2. ASSUME NEW k \in 0..(n - 1)
      PROVE  /\ q[k].p \in 1..(last + 1)
             /\ q[k].at \in 0..(size2[q[k].p] - 1)
             /\ u < q[k].p \/ (u = q[k].p /\ 0 < q[k].at)
             /\ size2[q[k].p] =< q[k].at + (n - k)
  BY <1>1, Zenon DEF Pieces
<1>3. ASSUME NEW j \in 0..(n - 1), NEW k \in 0..(n - 1), j < k
      PROVE  /\ q[j].at + (k - j) < size2[q[j].p]
                  => q[k] = [p |-> q[j].p, at |-> q[j].at + (k - j)]
             /\ ~(q[j].at + (k - j) < size2[q[j].p]) => q[j].p < q[k].p
  BY <1>1, <1>3, Zenon DEF Pieces
<1> QED BY <1>2, <1>3, Zenon DEF Pieces

-----------------------------------------------------------------------------
(* The ring of the RTL8019.                                                 *)

LEMMA PagesNat == Pages \in Nat \ {0}
BY DriverAssumption DEF DriverAssumption

\* A packet takes a page at least, and never the whole ring.
LEMMA PagesOfType == \A n \in Lens : Rtl!PagesOf(n) \in Nat \ {0} /\ Rtl!PagesOf(n) \in 1..(Pages - 1)
<1> SUFFICES ASSUME NEW n \in Lens
             PROVE  Rtl!PagesOf(n) \in Nat \ {0} /\ Rtl!PagesOf(n) \in 1..(Pages - 1)
  OBVIOUS
<1>1. n \in Nat /\ PageLen \in Nat \ {0} /\ Rtl!PagesOf(n) < Pages /\ Pages \in Nat
  BY DriverAssumption DEF DriverAssumption
<1>2. PICK x \in Nat : x = n + 7
  BY <1>1
<1>3. x \div PageLen \in Nat
  BY <1>1
<1>4. Rtl!PagesOf(n) = 1 + (x \div PageLen)
  BY <1>2 DEF Rtl!PagesOf
<1> QED BY <1>1, <1>3, <1>4

LEMMA RtlSizesAre ==
  ASSUME NEW w \in Seq(Lens)
  PROVE  Len(w) \in Nat /\ RtlSizes(w) \in [1..Len(w) -> Nat]
BY PagesOfType DEF RtlSizes

LEMMA RtlSizesType ==
  ASSUME NEW w \in Seq(Lens), NEW n \in Lens
  PROVE  /\ Len(w) \in Nat
         /\ RtlSizes(w) \in [1..Len(w) -> Nat]
         /\ Append(w, n) \in Seq(Lens) /\ Len(Append(w, n)) = Len(w) + 1
         /\ RtlSizes(Append(w, n)) \in [1..(Len(w) + 1) -> Nat]
         /\ \A p \in 1..Len(w) : RtlSizes(Append(w, n))[p] = RtlSizes(w)[p]
         /\ RtlSizes(Append(w, n))[Len(w) + 1] = Rtl!PagesOf(n)
<1>1. /\ Len(w) \in Nat
      /\ Append(w, n) \in Seq(Lens) /\ Len(Append(w, n)) = Len(w) + 1
      /\ \A p \in 1..Len(w) : Append(w, n)[p] = w[p]
      /\ Append(w, n)[Len(w) + 1] = n
  OBVIOUS
<1> QED BY <1>1, PagesOfType, RtlSizesAre DEF RtlSizes

\* Two places of the ring, and the way from one to the other.
LEMMA RtlAheadIs ==
  ASSUME NEW b \in 0..(Pages - 1), NEW c \in 0..(Pages - 1)
  PROVE  /\ RtlAhead(c, b) \in 0..(Pages - 1)
         /\ RtlAhead(c, b) = 0 <=> c = b
         /\ b =< c => RtlAhead(c, b) = c - b
         /\ c < b => RtlAhead(c, b) = c - b + Pages
         /\ (b - c - 1) % Pages = Pages - 1 - RtlAhead(c, b)
<1>1. c - b \in Int /\ b - c - 1 \in Int
  BY PagesNat
<1>2. Pages \in Nat \ {0}
  BY PagesNat
<1>3. /\ (c - b) % Pages \in 0..(Pages - 1)
      /\ 0 =< c - b /\ c - b < Pages => (c - b) % Pages = c - b
      /\ -Pages =< c - b /\ c - b < 0 => (c - b) % Pages = c - b + Pages
  BY <1>1, <1>2, Around, Zenon
<1>4. /\ 0 =< b - c - 1 /\ b - c - 1 < Pages => (b - c - 1) % Pages = b - c - 1
      /\ -Pages =< b - c - 1 /\ b - c - 1 < 0
           => (b - c - 1) % Pages = b - c - 1 + Pages
  BY <1>1, <1>2, Around, Zenon
<1> QED BY <1>1, <1>2, <1>3, <1>4 DEF RtlAhead

\* The k-th page from b on.
LEMMA RtlPlace ==
  ASSUME NEW b \in 0..(Pages - 1), NEW k \in 0..(Pages - 1)
  PROVE  /\ (b + k) % Pages \in 0..(Pages - 1)
         /\ b + k < Pages => (b + k) % Pages = b + k
         /\ ~(b + k < Pages) => (b + k) % Pages = b + k - Pages
<1>1. b + k \in Int
  BY PagesNat
<1>2. Pages \in Nat \ {0}
  BY PagesNat
<1>3. PICK x \in Int : x = b + k
  BY <1>1
<1>4. /\ x % Pages \in 0..(Pages - 1)
      /\ 0 =< x /\ x < Pages => x % Pages = x
      /\ Pages =< x /\ x < 2 * Pages => x % Pages = x - Pages
  BY <1>2, Around
<1>5. x % Pages = (b + k) % Pages
  BY <1>3
<1> QED BY <1>1, <1>2, <1>3, <1>4, <1>5

\* How far it is ahead of c.
LEMMA RtlPlaceAhead ==
  ASSUME NEW b \in 0..(Pages - 1), NEW c \in 0..(Pages - 1), NEW k \in 0..(Pages - 1)
  PROVE  /\ RtlAhead(c, b) =< k => RtlAhead((b + k) % Pages, c) = k - RtlAhead(c, b)
         /\ k < RtlAhead(c, b) =>
              RtlAhead((b + k) % Pages, c) = k - RtlAhead(c, b) + Pages
<1>1. PICK g \in 0..(Pages - 1) : g = (b + k) % Pages
  BY RtlPlace
<1>2. /\ b + k < Pages => g = b + k
      /\ ~(b + k < Pages) => g = b + k - Pages
  BY <1>1, RtlPlace
<1>3. /\ b =< c => RtlAhead(c, b) = c - b
      /\ c < b => RtlAhead(c, b) = c - b + Pages
      /\ c =< g => RtlAhead(g, c) = g - c
      /\ g < c => RtlAhead(g, c) = g - c + Pages
  BY RtlAheadIs
<1>4. /\ RtlAhead(c, b) =< k => RtlAhead(g, c) = k - RtlAhead(c, b)
      /\ k < RtlAhead(c, b) => RtlAhead(g, c) = k - RtlAhead(c, b) + Pages
  BY <1>2, <1>3, PagesNat
<1> QED BY <1>1, <1>4

\* c moved on by s pages.
LEMMA RtlAheadMoved ==
  ASSUME NEW b \in 0..(Pages - 1), NEW c \in 0..(Pages - 1), NEW s \in 1..(Pages - 1)
  PROVE  /\ RtlAhead(c, b) + s < Pages =>
              RtlAhead((c + s) % Pages, b) = RtlAhead(c, b) + s
         /\ s =< RtlAhead(c, b) =>
              RtlAhead(c, (b + s) % Pages) = RtlAhead(c, b) - s
         /\ (c + s) % Pages \in 0..(Pages - 1)
<1>0. s \in 0..(Pages - 1)
  BY PagesNat
<1>1. PICK g \in 0..(Pages - 1) : g = (c + s) % Pages
  BY <1>0, RtlPlace
<1>2. PICK h \in 0..(Pages - 1) : h = (b + s) % Pages
  BY <1>0, RtlPlace
<1>3. /\ c + s < Pages => g = c + s
      /\ ~(c + s < Pages) => g = c + s - Pages
      /\ b + s < Pages => h = b + s
      /\ ~(b + s < Pages) => h = b + s - Pages
  BY <1>0, <1>1, <1>2, RtlPlace
<1>4. /\ b =< c => RtlAhead(c, b) = c - b
      /\ c < b => RtlAhead(c, b) = c - b + Pages
      /\ b =< g => RtlAhead(g, b) = g - b
      /\ g < b => RtlAhead(g, b) = g - b + Pages
      /\ h =< c => RtlAhead(c, h) = c - h
      /\ c < h => RtlAhead(c, h) = c - h + Pages
  BY RtlAheadIs
<1>5. RtlAhead(c, b) + s < Pages => RtlAhead(g, b) = RtlAhead(c, b) + s
  BY <1>3, <1>4, PagesNat
<1>6. s =< RtlAhead(c, b) => RtlAhead(c, h) = RtlAhead(c, b) - s
  BY <1>3, <1>4, PagesNat
<1> QED BY <1>1, <1>2, <1>5, <1>6

\* The pages from s pages on.
LEMMA RtlPlaceFurther ==
  ASSUME NEW b \in 0..(Pages - 1), NEW s \in 1..(Pages - 1), NEW k \in Nat, k + s < Pages
  PROVE  (((b + s) % Pages) + k) % Pages = (b + (k + s)) % Pages
<1>1. /\ k + s \in 0..(Pages - 1) /\ k \in 0..(Pages - 1) /\ s \in 0..(Pages - 1)
      /\ b \in Int /\ s \in Int
  BY PagesNat
<1>2. PICK h \in 0..(Pages - 1) : h = (b + s) % Pages
  BY <1>1, RtlPlace
<1>3. /\ b + s < Pages => h = b + s
      /\ ~(b + s < Pages) => h = b + s - Pages
  BY <1>1, <1>2, RtlPlace
<1>4. PICK g \in 0..(Pages - 1) : g = (h + k) % Pages
  BY <1>1, RtlPlace
<1>5. /\ h + k < Pages => g = h + k
      /\ ~(h + k < Pages) => g = h + k - Pages
  BY <1>1, <1>4, RtlPlace
<1>6. PICK l \in 0..(Pages - 1) : l = k + s
  BY <1>1
<1>7. PICK f \in 0..(Pages - 1) : f = (b + l) % Pages
  BY RtlPlace
<1>8. /\ b + l < Pages => f = b + l
      /\ ~(b + l < Pages) => f = b + l - Pages
  BY <1>7, RtlPlace
<1>9. f = g
  BY <1>1, <1>3, <1>5, <1>6, <1>8, PagesNat
<1> QED BY <1>2, <1>4, <1>6, <1>7, <1>9

LEMMA UnbrokenExtend ==
  ASSUME NEW q, NEW r, NEW n \in Nat, NEW s \in Nat \ {0}, NEW p,
         Unbroken(q, n),
         \A k \in 0..(n - 1) : r[k] = q[k],
         \A k \in n..(n + s - 1) : r[k] = [p |-> p, at |-> k - n]
  PROVE  Unbroken(r, n + s)
<1>1. ASSUME NEW k \in 0..(n + s - 1)
      PROVE  r[k].at = 0 \/ (0 < k /\ r[k - 1].p = r[k].p)
  <2>1. CASE k < n
    <3>1. k \in 0..(n - 1) /\ (0 < k => k - 1 \in 0..(n - 1))
      BY <2>1
    <3>2. q[k].at = 0 \/ (0 < k /\ q[k - 1].p = q[k].p)
      BY <3>1 DEF Unbroken
    <3> QED BY <3>1, <3>2
  <2>2. CASE k = n
    <3>1. k \in n..(n + s - 1) /\ k - n = 0
      BY <2>2
    <3>2. r[k] = [p |-> p, at |-> k - n]
      BY <3>1, Zenon
    <3> QED BY <3>1, <3>2
  <2>3. CASE n < k
    <3>1. k \in n..(n + s - 1) /\ k - 1 \in n..(n + s - 1) /\ 0 < k
      BY <2>3
    <3>2. r[k] = [p |-> p, at |-> k - n] /\ r[k - 1] = [p |-> p, at |-> (k - 1) - n]
      BY <3>1, Zenon
    <3> QED BY <3>1, <3>2
  <2> QED BY <2>1, <2>2, <2>3
<1> QED BY <1>1 DEF Unbroken

LEMMA UnbrokenTake ==
  ASSUME NEW q, NEW r, NEW n \in Nat, NEW m \in 1..n, NEW last \in Nat,
         NEW size \in [1..last -> Nat], NEW u \in Nat,
         Pieces(q, n, last, size, u), Unbroken(q, n),
         size[q[0].p] =< m, q[m - 1].p = q[0].p,
         \A k \in 0..(n - m - 1) : r[k] = q[k + m]
  PROVE  Unbroken(r, n - m)
<1>1. ASSUME NEW k \in 0..(n - m - 1)
      PROVE  r[k].at = 0 \/ (0 < k /\ r[k - 1].p = r[k].p)
  <2>1. k + m \in 0..(n - 1) /\ r[k] = q[k + m] /\ 0 < k + m
    OBVIOUS
  <2>2. q[k + m].at = 0 \/ q[k + m - 1].p = q[k + m].p
    BY <2>1 DEF Unbroken
  <2>3. CASE 0 < k
    <3>1. k - 1 \in 0..(n - m - 1) /\ (k - 1) + m = k + m - 1
      BY <2>3
    <3>2. r[k - 1] = q[(k - 1) + m]
      BY <3>1, Zenon
    <3> QED BY <2>1, <2>2, <2>3, <3>1, <3>2
  <2>4. CASE k = 0
    <3>1. /\ k + m = m /\ m \in 0..(n - 1) /\ 0 \in 0..(n - 1) /\ 0 < m /\ m - 0 = m
          /\ m - 1 \in 0..(n - 1) /\ n > 0
      BY <2>1, <2>4
    <3>2. q[0].at = 0
      BY <3>1 DEF Unbroken
    <3>3. ~(q[0].at + (m - 0) < size[q[0].p])
      <4>1. size[q[0].p] \in Nat
        BY <3>1 DEF Pieces
      <4> QED BY <3>1, <3>2, <4>1
    <3>4. q[0].p < q[m].p
      BY <3>1, <3>3, Zenon DEF Pieces
    <3>6. q[m].p \in 1..last /\ q[0].p \in 1..last
      BY <3>1 DEF Pieces
    <3>7. q[m - 1].p # q[m].p
      BY <3>4, <3>6
    <3> QED BY <2>1, <2>2, <3>1, <3>7
  <2> QED BY <2>3, <2>4
<1> QED BY <1>1, Zenon DEF Unbroken

\* Number p, stored on s pages from c on.
RtlStored(page, c, s, p) ==
  [g \in 0..(Pages - 1) |->
     LET k == (g - c) % Pages
     IN IF k < s THEN [p |-> p, at |-> k] ELSE page[g]]

\* It comes behind what is there.
RingGrows(page, b, c, s, p) ==
  LET m == RtlAhead(c, b)
  IN /\ RtlAhead((c + s) % Pages, b) = m + s
     /\ Longer(RtlRing(page, b, m), RtlRing(RtlStored(page, c, s, p), b, m + s), m, s, p)

LEMMA RingLonger ==
  ASSUME NEW page, NEW b \in 0..(Pages - 1), NEW c \in 0..(Pages - 1), NEW s \in 1..(Pages - 1),
         s =< (b - c - 1) % Pages, NEW p
  PROVE  RingGrows(page, b, c, s, p)
<1>0. b \in 0..(Pages - 1) /\ c \in 0..(Pages - 1)
  OBVIOUS
<1>1. s \in 1..(Pages - 1) /\ s \in Nat \ {0}
  OBVIOUS
<1>2. PICK m \in Nat : m = RtlAhead(c, b) /\ m + s < Pages
  <2>1. RtlAhead(c, b) \in 0..(Pages - 1) /\ (b - c - 1) % Pages = Pages - 1 - RtlAhead(c, b)
    BY <1>0, RtlAheadIs
  <2>2. PICK m \in 0..(Pages - 1) : m = RtlAhead(c, b)
    BY <2>1
  <2> QED BY <1>1, <2>1, <2>2, PagesNat
<1>3. PICK page2 : page2 = RtlStored(page, c, s, p)
  OBVIOUS
<1>4. PICK q : q = RtlRing(page, b, m)
  OBVIOUS
<1>5. PICK r : r = RtlRing(page2, b, m + s)
  OBVIOUS
<1>6. RtlAhead((c + s) % Pages, b) = m + s
  BY <1>0, <1>1, <1>2, RtlAheadMoved
<1>8. ASSUME NEW k \in 0..(m + s - 1)
      PROVE  /\ k < m => r[k] = q[k]
             /\ ~(k < m) => r[k] = [p |-> p, at |-> k - m]
  <2>1. k \in 0..(Pages - 1) /\ m + s \in Nat
    BY <1>1, <1>2, PagesNat
  <2>2. PICK g \in 0..(Pages - 1) : g = (b + k) % Pages
    BY <1>0, <2>1, RtlPlace
  <2>3. r[k] = page2[g]
    <3>0. k \in 0..((m + s) - 1)
      BY <1>1, <1>2
    <3>1. RtlRing(page2, b, m + s)[k] = page2[(b + k) % Pages]
      BY <3>0, Zenon DEF RtlRing
    <3> QED BY <1>5, <2>2, <3>1
  <2>4. page2[g] = IF RtlAhead(g, c) < s THEN [p |-> p, at |-> RtlAhead(g, c)]
                   ELSE page[g]
    BY <1>3 DEF RtlStored, RtlAhead
  <2>5. /\ m =< k => RtlAhead(g, c) = k - m
        /\ k < m => RtlAhead(g, c) = k - m + Pages
    BY <1>0, <1>2, <2>1, <2>2, RtlPlaceAhead
  <2>6. CASE k < m
    <3>1. k \in 0..(m - 1)
      BY <2>6
    <3>2. q[k] = page[g]
      BY <1>4, <2>2, <3>1, Zenon DEF RtlRing
    <3>3. ~(RtlAhead(g, c) < s)
      <4>1. PICK a \in Int : a = k - m + Pages
        BY <2>1, <1>2, PagesNat
      <4>2. m \in Nat /\ s \in Nat /\ k \in Nat /\ m + s < Pages /\ Pages \in Nat
        BY <2>1, <1>1, <1>2, PagesNat
      <4>3. ~(a < s)
        BY <4>1, <4>2
      <4> QED BY <2>5, <2>6, <4>1, <4>3
    <3> QED BY <2>3, <2>4, <2>6, <3>2, <3>3
  <2>7. CASE ~(k < m)
    <3>1. RtlAhead(g, c) = k - m /\ RtlAhead(g, c) < s
      BY <2>5, <2>7, <1>1, <1>2
    <3> QED BY <2>3, <2>4, <2>7, <3>1
  <2> QED BY <2>6, <2>7
<1>9. \A k \in 0..(m - 1) : r[k] = q[k]
  <2> TAKE k \in 0..(m - 1)
  <2>1. k \in 0..(m + s - 1) /\ k < m
    BY <1>1, <1>2
  <2> QED BY <1>8, <2>1
<1>10. \A k \in m..(m + s - 1) : r[k] = [p |-> p, at |-> k - m]
  <2> TAKE k \in m..(m + s - 1)
  <2>1. k \in 0..(m + s - 1) /\ ~(k < m)
    BY <1>1, <1>2
  <2> QED BY <1>8, <2>1
<1> QED BY <1>2, <1>3, <1>4, <1>5, <1>6, <1>9, <1>10 DEF RingGrows, Longer

LEMMA RingStored ==
  ASSUME NEW page, NEW b, NEW c, NEW w, NEW u, RingInv(page, b, c, w, u),
         NEW n \in Lens, NEW s, s = Rtl!PagesOf(n),
         s =< (b - c - 1) % Pages
  PROVE  /\ RingInv(RtlStored(page, c, s, Len(w) + 1), b, (c + s) % Pages, Append(w, n), u)
         /\ RtlAhead((c + s) % Pages, b) = RtlAhead(c, b) + s
<1>0. b \in 0..(Pages - 1) /\ c \in 0..(Pages - 1) /\ w \in Seq(Lens) /\ u \in 0..Len(w)
  BY DEF RingInv
<1>1. s \in 1..(Pages - 1) /\ s \in Nat \ {0}
  BY PagesOfType
<1>2. PICK m \in Nat : m = RtlAhead(c, b)
  BY <1>0, RtlAheadIs
<1>3. PICK page2 : page2 = RtlStored(page, c, s, Len(w) + 1)
  OBVIOUS
<1>4. PICK q : q = RtlRing(page, b, m)
  OBVIOUS
<1>5. PICK r : r = RtlRing(page2, b, m + s)
  OBVIOUS
<1>6. RtlAhead((c + s) % Pages, b) = m + s /\ Longer(q, r, m, s, Len(w) + 1)
  <2>1. RingGrows(page, b, c, s, Len(w) + 1)
    BY <1>0, <1>1, RingLonger
  <2> QED BY <1>2, <1>3, <1>4, <1>5, <2>1 DEF RingGrows
<1>7. Pieces(q, m, Len(w), RtlSizes(w), u) /\ Unbroken(q, m)
  BY <1>2, <1>4 DEF RingInv
<1>8. /\ \A k \in 0..(m - 1) : r[k] = q[k]
      /\ \A k \in m..(m + s - 1) : r[k] = [p |-> Len(w) + 1, at |-> k - m]
  BY <1>6 DEF Longer
<1>11. Pieces(r, m + s, Len(w) + 1, RtlSizes(Append(w, n)), u)
  <2>1. /\ Len(w) \in Nat
        /\ RtlSizes(w) \in [1..Len(w) -> Nat]
        /\ RtlSizes(Append(w, n)) \in [1..(Len(w) + 1) -> Nat]
        /\ \A p \in 1..Len(w) : RtlSizes(Append(w, n))[p] = RtlSizes(w)[p]
        /\ RtlSizes(Append(w, n))[Len(w) + 1] = s
    BY <1>0, RtlSizesType
  <2> QED BY <1>0, <1>1, <1>7, <1>8, <2>1, PiecesExtend
<1>12. Unbroken(r, m + s)
  BY <1>1, <1>7, <1>8, UnbrokenExtend
<1>13. /\ Append(w, n) \in Seq(Lens) /\ Len(Append(w, n)) = Len(w) + 1
       /\ u \in 0..Len(Append(w, n)) /\ (c + s) % Pages \in 0..(Pages - 1)
  <2>1. Append(w, n) \in Seq(Lens) /\ Len(Append(w, n)) = Len(w) + 1 /\ Len(w) \in Nat
    BY <1>0
  <2>2. u \in 0..(Len(w) + 1)
    BY <1>0, <2>1
  <2> QED BY <1>0, <1>1, <2>1, <2>2, RtlAheadMoved
<1>14. RingInv(page2, b, (c + s) % Pages, Append(w, n), u)
  BY <1>0, <1>5, <1>6, <1>11, <1>12, <1>13 DEF RingInv
<1> QED BY <1>2, <1>3, <1>6, <1>14

\* The pages when s of m are given back.
LEMMA RingWithout ==
  ASSUME NEW page, NEW b \in 0..(Pages - 1), NEW m \in 0..(Pages - 1), NEW s \in 1..(Pages - 1),
         s =< m, NEW q, q = RtlRing(page, b, m),
         NEW r, r = RtlRing(page, (b + s) % Pages, m - s)
  PROVE  Without(q, r, m, s)
<1> SUFFICES ASSUME NEW k \in 0..(m - s - 1) PROVE r[k] = q[k + s]
  BY DEF Without
<1>1. k \in Nat /\ k + s < Pages /\ k + s \in 0..(m - 1)
  <2>1. m \in Nat /\ s \in Nat /\ m < Pages /\ Pages \in Nat
    BY PagesNat
  <2> QED BY <2>1
<1>2. (((b + s) % Pages) + k) % Pages = (b + (k + s)) % Pages
  BY <1>1, RtlPlaceFurther
<1>3. r[k] = page[(((b + s) % Pages) + k) % Pages]
  BY Zenon DEF RtlRing
<1>4. q[k + s] = page[(b + (k + s)) % Pages]
  BY <1>1, Zenon DEF RtlRing
<1> QED BY <1>2, <1>3, <1>4

\* The packet at b: what it is, and what is left behind it.
LEMMA RingTaken ==
  ASSUME NEW page, NEW b, NEW c, NEW w, NEW u, RingInv(page, b, c, w, u), b # c,
         NEW p, p = page[b].p, NEW s, s = Rtl!PagesOf(w[p])
  PROVE  /\ p \in 1..Len(w) /\ u < p /\ page[b].at = 0
         /\ \A k \in 1..(s - 1) : page[(b + k) % Pages] = [p |-> p, at |-> k]
         /\ s \in 1..(Pages - 1) /\ s =< RtlAhead(c, b)
         /\ RingInv(page, (b + s) % Pages, c, w, u)
         /\ RingInv(page, (b + s) % Pages, c, w, p)
<1>0. b \in 0..(Pages - 1) /\ c \in 0..(Pages - 1) /\ w \in Seq(Lens) /\ u \in 0..Len(w)
  BY DEF RingInv
<1>1. PICK m \in 0..(Pages - 1) : m = RtlAhead(c, b) /\ m > 0 /\ m \in Nat
  <2>1. RtlAhead(c, b) \in 0..(Pages - 1) /\ RtlAhead(c, b) # 0
    BY <1>0, RtlAheadIs
  <2> QED BY <2>1
<1>2. PICK q : q = RtlRing(page, b, m)
  OBVIOUS
<1>3. Pieces(q, m, Len(w), RtlSizes(w), u) /\ Unbroken(q, m)
  BY <1>1, <1>2 DEF RingInv
<1>4. q[0] = page[b] /\ q[0].at = 0
  <2>1. b \in Nat /\ b < Pages /\ b + 0 = b /\ 0 \in 0..(Pages - 1) /\ 0 \in 0..(m - 1)
    BY <1>0, <1>1, PagesNat
  <2>2. (b + 0) % Pages = b
    BY <1>0, <2>1, RtlPlace
  <2>3. q[0] = page[b]
    BY <1>2, <2>1, <2>2 DEF RtlRing
  <2> QED BY <1>3, <2>1, <2>3 DEF Unbroken
<1>5. Len(w) \in Nat /\ RtlSizes(w) \in [1..Len(w) -> Nat] /\ u \in Nat
  <2>1. Len(w) \in Nat /\ u \in Nat
    BY <1>0
  <2> QED BY <1>0, <2>1, RtlSizesAre
<1>6. /\ p \in 1..Len(w) /\ u < p /\ RtlSizes(w)[p] =< m
      /\ Whole(q, p, RtlSizes(w)[p])
  <2>1. m \in Nat /\ m > 0
    BY <1>1
  <2> QED BY <1>3, <1>4, <1>5, <2>1, PiecesHead
<1>7. s = RtlSizes(w)[p] /\ s \in 1..(Pages - 1)
  <2>1. w[p] \in Lens
    BY <1>0, <1>6
  <2> QED BY <1>6, <2>1, PagesOfType DEF RtlSizes
<1>8. s =< m /\ m - s \in Nat /\ s \in 1..m /\ s \in 0..m
  BY <1>1, <1>6, <1>7
<1>9. RtlAhead(c, (b + s) % Pages) = m - s /\ (b + s) % Pages \in 0..(Pages - 1)
  BY <1>0, <1>1, <1>7, <1>8, RtlAheadMoved
<1>10. \A k \in 1..(s - 1) : page[(b + k) % Pages] = [p |-> p, at |-> k]
  <2> TAKE k \in 1..(s - 1)
  <2>1. k \in 1..(RtlSizes(w)[p] - 1) /\ k \in 0..(m - 1)
    BY <1>1, <1>7, <1>8
  <2>2. q[k] = [p |-> p, at |-> k]
    BY <1>6, <2>1 DEF Whole
  <2> QED BY <1>2, <2>1, <2>2 DEF RtlRing
<1>11. PICK r : r = RtlRing(page, (b + s) % Pages, m - s)
  OBVIOUS
<1>12. \A k \in 0..(m - s - 1) : r[k] = q[k + s]
  <2>1. Without(q, r, m, s)
    BY <1>0, <1>1, <1>2, <1>7, <1>8, <1>11, RingWithout
  <2> QED BY <2>1 DEF Without
<1>13. Pieces(r, m - s, Len(w), RtlSizes(w), u)
  BY <1>1, <1>3, <1>5, <1>8, <1>12, PiecesDrop
<1>14. Pieces(r, m - s, Len(w), RtlSizes(w), p)
  BY <1>1, <1>3, <1>4, <1>5, <1>8, <1>12, PiecesTake
<1>15. Unbroken(r, m - s)
  <2>1. q[s - 1].p = p
    <3>1. CASE s = 1
      BY <1>4, <3>1
    <3>2. CASE s # 1
      <4>1. s - 1 \in 1..(RtlSizes(w)[p] - 1)
        BY <1>7, <3>2
      <4>2. q[s - 1] = [p |-> p, at |-> s - 1]
        BY <1>6, <4>1 DEF Whole
      <4> QED BY <4>2
    <3> QED BY <3>1, <3>2
  <2>2. RtlSizes(w)[q[0].p] =< s /\ q[s - 1].p = q[0].p
    BY <1>4, <1>7, <2>1
  <2> QED BY <1>1, <1>3, <1>5, <1>8, <1>12, <2>2, UnbrokenTake
<1>16. RingInv(page, (b + s) % Pages, c, w, u) /\ RingInv(page, (b + s) % Pages, c, w, p)
  <2>1. p \in 0..Len(w)
    BY <1>5, <1>6
  <2> QED BY <1>0, <1>9, <1>11, <1>13, <1>14, <1>15, <2>1 DEF RingInv
<1> QED BY <1>1, <1>4, <1>6, <1>7, <1>8, <1>10, <1>16

-----------------------------------------------------------------------------
(* The steps of the RTL8019 and its driver.                                 *)

Received == wire \in Seq(Lens) /\ up \in 0..Len(wire)

LEMMA WireAppend ==
  ASSUME NEW w \in Seq(Lens), NEW n \in Lens
  PROVE  /\ Len(w) \in Nat /\ Len(w) + 1 \in Nat
         /\ Append(w, n) \in Seq(Lens) /\ Len(Append(w, n)) = Len(w) + 1
OBVIOUS

LEMMA RtlStart == Received /\ up = 0 /\ dev = Rtl!Start => RtlInv
<1> SUFFICES ASSUME Received, up = 0, dev = Rtl!Start
             PROVE  RtlInv
  OBVIOUS
<1>1. Len(wire) \in Nat
  BY DEF Received
<1>2. [p |-> 0, at |-> 0] \in [p : 0..Len(wire), at : 0..(Pages - 1)]
  BY <1>1, PagesNat
<1>3. /\ 0 \in 0..(Pages - 1) /\ -1 \in -1..(Pages - 1)
  BY PagesNat
<1>4. Rtl!TypeOK
  BY <1>2, <1>3 DEF Rtl!TypeOK, Rtl!Start, Rtl!Nopage
<1>5. dev.bnry = -1
  BY DEF Rtl!Start
<1> QED BY <1>4, <1>5 DEF RtlInv

LEMMA RtlArrives ==
  ASSUME Received, RtlInv, Rtl!Arrive
  PROVE  Received' /\ RtlInv' /\ Promise!Arrive
<1>1. PICK n \in Lens :
        /\ wire' = Append(wire, n)
        /\ dev' = IF ~dev.ovw /\ Rtl!PagesOf(n) =< Rtl!Room(dev)
                  THEN Rtl!Stored(dev, Len(wire) + 1, n)
                  ELSE [dev EXCEPT !.ovw = TRUE, !.lost = TRUE]
  BY DEF Rtl!Arrive
<1>2. up' = up
  BY DEF Rtl!Arrive
<1>3. /\ Len(wire) \in Nat /\ wire' \in Seq(Lens) /\ Len(wire') = Len(wire) + 1
      /\ up \in 0..Len(wire)
  BY <1>1, WireAppend DEF Received
<1>4. Received'
  BY <1>2, <1>3 DEF Received
<1>5. Promise!Arrive
  BY <1>1, <1>2 DEF Promise!Arrive
<1>6. /\ dev.curr \in 0..(Pages - 1) /\ dev.bnry \in -1..(Pages - 1)
      /\ dev.i \in 0..(Pages - 1)
      /\ dev.bnry # -1 => dev.bnry \in 0..(Pages - 1)
  BY PagesNat DEF RtlInv, Rtl!TypeOK
<1>7. PICK s \in 1..(Pages - 1) : s = Rtl!PagesOf(n)
  BY PagesOfType
<1>8. CASE ~dev.ovw /\ Rtl!PagesOf(n) =< Rtl!Room(dev)
  <2>1. /\ dev'.page = RtlStored(dev.page, dev.curr, s, Len(wire) + 1)
        /\ dev'.curr = (dev.curr + s) % Pages
        /\ dev'.bnry = dev.bnry /\ dev'.i = dev.i /\ dev'.at = dev.at
        /\ dev' = [page |-> dev'.page, curr |-> dev'.curr, bnry |-> dev.bnry,
                   ovw |-> dev.ovw, at |-> dev.at, i |-> dev.i, lost |-> dev'.lost]
        /\ dev'.lost \in BOOLEAN
    <3>1. dev' = Rtl!Stored(dev, Len(wire) + 1, n)
      BY <1>1, <1>8
    <3> QED BY <3>1, <1>7 DEF RtlInv, Rtl!TypeOK, Rtl!Stored, RtlStored
  <2>2. (dev.curr + s) % Pages \in 0..(Pages - 1)
    BY <1>6, RtlAheadMoved
  <2>3. dev'.page \in [0..(Pages - 1) -> [p : 0..Len(wire'), at : 0..(Pages - 1)]]
    <3>1. ASSUME NEW g \in 0..(Pages - 1), ~((g - dev.curr) % Pages < s)
          PROVE  dev.page[g] \in [p : 0..(Len(wire) + 1), at : 0..(Pages - 1)]
      <4>1. dev.page[g] \in [p : 0..Len(wire), at : 0..(Pages - 1)]
        BY DEF RtlInv, Rtl!TypeOK
      <4> QED BY <1>3, <4>1
    <3>2. ASSUME NEW g \in 0..(Pages - 1), (g - dev.curr) % Pages < s
          PROVE  [p |-> Len(wire) + 1, at |-> (g - dev.curr) % Pages]
                   \in [p : 0..(Len(wire) + 1), at : 0..(Pages - 1)]
      <4>1. (g - dev.curr) % Pages \in 0..(Pages - 1)
        BY <1>6, RtlAheadIs DEF RtlAhead
      <4> QED BY <1>3, <4>1
    <3>3. dev'.page \in [0..(Pages - 1) -> [p : 0..(Len(wire) + 1), at : 0..(Pages - 1)]]
      BY <2>1, <3>1, <3>2 DEF RtlStored
    <3> QED BY <1>3, <3>3
  <2>4. Rtl!TypeOK'
    BY <2>1, <2>2, <2>3 DEF RtlInv, Rtl!TypeOK
  <2>5. ASSUME dev.bnry # -1
        PROVE  /\ RingInv(dev'.page, dev'.bnry, dev'.curr, wire', up')
               /\ dev'.at = "curr"
                    => RtlAhead(dev'.i, dev'.bnry) =< RtlAhead(dev'.curr, dev'.bnry)
    <3>1. dev.bnry \in 0..(Pages - 1)
      BY <1>6, <2>5
    <3>2. s =< (dev.bnry - dev.curr - 1) % Pages
      BY <1>7, <1>8, <2>5 DEF Rtl!Room
    <3>3. /\ RingInv(dev.page, dev.bnry, dev.curr, wire, up)
          /\ dev.at = "curr" => RtlAhead(dev.i, dev.bnry) =< RtlAhead(dev.curr, dev.bnry)
      BY <2>5 DEF RtlInv
    <3>4. /\ RingInv(RtlStored(dev.page, dev.curr, s, Len(wire) + 1), dev.bnry,
                     (dev.curr + s) % Pages, Append(wire, n), up)
          /\ RtlAhead((dev.curr + s) % Pages, dev.bnry) = RtlAhead(dev.curr, dev.bnry) + s
      <4>1. RingInv(dev.page, dev.bnry, dev.curr, wire, up)
        BY <3>3
      <4> QED BY <1>7, <3>2, <4>1, RingStored
    <3>5. RingInv(dev'.page, dev'.bnry, dev'.curr, wire', up')
      BY <1>1, <1>2, <2>1, <3>4
    <3>6. /\ RtlAhead(dev.i, dev.bnry) \in 0..(Pages - 1)
          /\ RtlAhead(dev.curr, dev.bnry) \in 0..(Pages - 1)
      BY <1>6, <3>1, RtlAheadIs
    <3>7. dev.at = "curr"
            => RtlAhead(dev.i, dev.bnry) =< RtlAhead((dev.curr + s) % Pages, dev.bnry)
      BY <1>7, <3>3, <3>4, <3>6
    <3> QED BY <2>1, <3>5, <3>7
  <2> QED BY <1>2, <1>4, <1>5, <2>1, <2>4, <2>5 DEF RtlInv
<1>9. CASE ~(~dev.ovw /\ Rtl!PagesOf(n) =< Rtl!Room(dev))
  <2>1. dev' = [dev EXCEPT !.ovw = TRUE, !.lost = TRUE]
    BY <1>1, <1>9
  <2>2. /\ dev'.page = dev.page /\ dev'.curr = dev.curr /\ dev'.bnry = dev.bnry
        /\ dev'.i = dev.i /\ dev'.at = dev.at
    BY <2>1 DEF RtlInv, Rtl!TypeOK
  <2>3. Rtl!TypeOK'
    <3>1. \A x \in [p : 0..Len(wire), at : 0..(Pages - 1)] : x \in [p : 0..(Len(wire) + 1), at : 0..(Pages - 1)]
      BY <1>3
    <3>2. dev.page \in [0..(Pages - 1) -> [p : 0..(Len(wire) + 1), at : 0..(Pages - 1)]]
      BY <3>1 DEF RtlInv, Rtl!TypeOK
    <3> QED BY <1>3, <2>1, <3>2 DEF RtlInv, Rtl!TypeOK
  <2>4. dev.bnry # -1 => RingInv(dev'.page, dev'.bnry, dev'.curr, wire', up')
    <3> SUFFICES ASSUME dev.bnry # -1
                 PROVE  RingInv(dev.page, dev.bnry, dev.curr, wire', up)
      BY <1>2, <2>2
    <3>0. RtlAhead(dev.curr, dev.bnry) \in 0..(Pages - 1)
      BY <1>6, RtlAheadIs
    <3>1. PICK m \in Nat : m = RtlAhead(dev.curr, dev.bnry)
      BY <3>0
    <3>2. PICK q : q = RtlRing(dev.page, dev.bnry, m)
      OBVIOUS
    <3>3. Pieces(q, m, Len(wire), RtlSizes(wire), up) /\ Unbroken(q, m)
      BY <3>1, <3>2 DEF RtlInv, RingInv
    <3>4. Pieces(q, m, Len(wire) + 1, RtlSizes(Append(wire, n)), up)
      BY <1>3, <3>3, PiecesLost, RtlSizesType DEF Received
    <3>5. up \in 0..(Len(wire) + 1)
      BY <1>3
    <3> QED BY <1>1, <1>3, <1>6, <3>1, <3>2, <3>3, <3>4, <3>5 DEF RingInv
  <2> QED BY <1>2, <1>4, <1>5, <2>2, <2>3, <2>4 DEF RtlInv
<1> QED BY <1>8, <1>9

\* A ring that starts anew is empty.
LEMMA RingEmpty ==
  ASSUME NEW page, NEW b \in 0..(Pages - 1), NEW w \in Seq(Lens), NEW u \in 0..Len(w)
  PROVE  RingInv(page, b, b, w, u)
<1>1. RtlAhead(b, b) = 0
  BY RtlAheadIs
<1>2. 0..(0 - 1) = {}
  OBVIOUS
<1> QED BY <1>1, <1>2 DEF RingInv, Pieces, Unbroken

LEMMA RtlBegins ==
  ASSUME Received, RtlInv, Rtl!Begin
  PROVE  Received' /\ RtlInv' /\ UNCHANGED <<wire, up>>
<1>1. wire' = wire /\ up' = up
  BY DEF Rtl!Begin
<1>2. Received'
  BY <1>1 DEF Received
<1>3. 0 \in 0..(Pages - 1) /\ 0 \in -1..(Pages - 1) /\ 0 # -1
  BY PagesNat
<1>4. CASE dev.ovw
  <2>1. /\ dev'.page = dev.page /\ dev'.curr = 0 /\ dev'.bnry = 0
        /\ dev'.i = 0 /\ dev'.at = "curr"
        /\ Rtl!TypeOK'
    BY <1>1, <1>3, <1>4
    DEF Rtl!Begin, Rtl!HandleOverrun, Rtl!Restart, RtlInv, Rtl!TypeOK
  <2>2. RingInv(dev'.page, dev'.bnry, dev'.curr, wire', up')
    BY <1>1, <1>3, <2>1, RingEmpty DEF Received
  <2>3. RtlAhead(0, 0) =< RtlAhead(0, 0)
    <3>1. RtlAhead(0, 0) \in 0..(Pages - 1)
      BY <1>3, RtlAheadIs
    <3> QED BY <3>1
  <2> QED BY <1>1, <1>2, <1>3, <2>1, <2>2, <2>3 DEF RtlInv
<1>5. CASE ~dev.ovw
  <2>1. /\ dev'.page = dev.page /\ dev'.curr = dev.curr /\ dev'.bnry = dev.bnry
        /\ dev'.i = dev.curr /\ dev'.at = "curr"
        /\ Rtl!TypeOK'
    BY <1>1, <1>5 DEF Rtl!Begin, Rtl!HandleOverrun, RtlInv, Rtl!TypeOK
  <2>2. dev.bnry # -1 =>
          /\ RingInv(dev'.page, dev'.bnry, dev'.curr, wire', up')
          /\ RtlAhead(dev'.i, dev'.bnry) =< RtlAhead(dev'.curr, dev'.bnry)
    <3> SUFFICES ASSUME dev.bnry # -1
                 PROVE  /\ RingInv(dev.page, dev.bnry, dev.curr, wire, up)
                        /\ RtlAhead(dev.curr, dev.bnry) =< RtlAhead(dev.curr, dev.bnry)
      BY <1>1, <2>1
    <3>1. RingInv(dev.page, dev.bnry, dev.curr, wire, up)
      BY DEF RtlInv
    <3>2. RtlAhead(dev.curr, dev.bnry) \in 0..(Pages - 1)
      BY <3>1, RtlAheadIs DEF RingInv
    <3> QED BY <3>1, <3>2
  <2>3. dev.bnry = -1 => up' = 0
    BY <1>1 DEF RtlInv
  <2> QED BY <1>1, <1>2, <2>1, <2>2, <2>3 DEF RtlInv
<1> QED BY <1>1, <1>2, <1>4, <1>5

LEMMA RtlRetrieves ==
  ASSUME Received, RtlInv, Rtl!Retrieve
  PROVE  Received' /\ RtlInv' /\ (Promise!HandUp \/ UNCHANGED <<wire, up>>)
<1>1. wire' = wire /\ dev.at = "curr"
  BY DEF Rtl!Retrieve
<1>2. 0 \in 0..(Pages - 1) /\ 0 \in -1..(Pages - 1) /\ 0 # -1
  BY PagesNat
<1>3. CASE dev' = Rtl!Idle(dev) /\ up' = up
  <2>1. dev' = Rtl!Idle(dev) /\ up' = up
    BY <1>3
  <2>2. /\ dev'.page = dev.page /\ dev'.curr = dev.curr /\ dev'.bnry = dev.bnry
        /\ dev'.at = "idle"
    BY <2>1 DEF Rtl!Idle, RtlInv, Rtl!TypeOK
  <2>3. Rtl!TypeOK'
    <3>1. PICK z : z = 0 /\ z \in 0..(Pages - 1)
      BY <1>2
    <3>2. dev' = [dev EXCEPT !.at = "idle", !.i = z]
      BY <2>1, <3>1 DEF Rtl!Idle
    <3> QED BY <1>1, <3>1, <3>2 DEF RtlInv, Rtl!TypeOK
  <2> QED BY <1>1, <2>1, <2>2, <2>3 DEF RtlInv, Received
<1>4. CASE dev.bnry # dev.i /\ dev.bnry = -1
  <2>1. /\ dev'.page = dev.page /\ dev'.curr = 0 /\ dev'.bnry = 0
        /\ dev'.at = "idle"
        /\ up' = up /\ Rtl!TypeOK'
    <3>1. dev' = Rtl!Idle(Rtl!Restart(dev)) /\ up' = up
      BY <1>4 DEF Rtl!Retrieve
    <3>2. PICK z : z = 0 /\ z \in 0..(Pages - 1) /\ z \in -1..(Pages - 1)
      BY <1>2
    <3>3. PICK lost : lost = (dev.lost \/ dev.bnry \notin {-1, dev.curr}) /\ lost \in BOOLEAN
      BY Zenon
    <3>4. dev' = [dev EXCEPT !.bnry = z, !.curr = z, !.lost = lost, !.at = "idle", !.i = z]
      BY <3>1, <3>2, <3>3 DEF Rtl!Idle, Rtl!Restart, RtlInv, Rtl!TypeOK
    <3>5. /\ dev'.page = dev.page /\ dev'.curr = z /\ dev'.bnry = z /\ dev'.at = "idle"
          /\ Rtl!TypeOK'
      BY <1>1, <3>2, <3>3, <3>4 DEF RtlInv, Rtl!TypeOK
    <3> QED BY <3>1, <3>2, <3>5
  <2>2. RingInv(dev'.page, dev'.bnry, dev'.curr, wire', up')
    BY <1>1, <1>2, <2>1, RingEmpty DEF Received
  <2> QED BY <1>1, <1>2, <2>1, <2>2 DEF RtlInv, Received
<1>5. CASE dev.bnry # dev.i /\ dev.bnry # -1 /\ ~(dev' = Rtl!Idle(dev) /\ up' = up)
  <2>1. PICK p : p = dev.page[dev.bnry].p
    OBVIOUS
  <2>2. PICK s : s = Rtl!PagesOf(wire[p])
    OBVIOUS
  <2>3. /\ RingInv(dev.page, dev.bnry, dev.curr, wire, up)
        /\ RtlAhead(dev.i, dev.bnry) =< RtlAhead(dev.curr, dev.bnry)
    BY <1>1, <1>5 DEF RtlInv
  <2>4. dev.bnry # dev.curr
    <3>1. /\ dev.bnry \in 0..(Pages - 1) /\ dev.i \in 0..(Pages - 1)
          /\ dev.curr \in 0..(Pages - 1)
      BY <2>3 DEF RingInv, RtlInv, Rtl!TypeOK
    <3>2. RtlAhead(dev.i, dev.bnry) \in 0..(Pages - 1) /\ RtlAhead(dev.i, dev.bnry) # 0
      BY <1>5, <3>1, RtlAheadIs
    <3>3. dev.curr = dev.bnry => RtlAhead(dev.curr, dev.bnry) = 0
      BY <3>1, RtlAheadIs
    <3> QED BY <2>3, <3>2, <3>3
  <2>5. /\ p \in 1..Len(wire) /\ up < p /\ dev.page[dev.bnry].at = 0
        /\ \A k \in 1..(s - 1) : dev.page[(dev.bnry + k) % Pages] = [p |-> p, at |-> k]
        /\ s \in 1..(Pages - 1)
        /\ RingInv(dev.page, (dev.bnry + s) % Pages, dev.curr, wire, up)
        /\ RingInv(dev.page, (dev.bnry + s) % Pages, dev.curr, wire, p)
    BY <2>1, <2>2, <2>3, <2>4, RingTaken
  <2>6. (dev.bnry + s) % Pages \in 0..(Pages - 1)
    BY <2>5 DEF RingInv
  <2>7. /\ dev' = [Rtl!Idle(dev) EXCEPT !.bnry = Rtl!NextPage(dev)]
        /\ up' = IF wire[p] > Dest THEN up ELSE Rtl!Copied(dev, wire[p])
    BY <1>5, <2>1 DEF Rtl!Retrieve
  <2>8. Rtl!NextPage(dev) = (dev.bnry + s) % Pages
    BY <2>1, <2>2 DEF Rtl!NextPage
  <2>9. /\ dev'.page = dev.page /\ dev'.curr = dev.curr
        /\ dev'.bnry = (dev.bnry + s) % Pages /\ dev'.at = "idle"
        /\ Rtl!TypeOK'
    <3>1. (dev.bnry + s) % Pages \in -1..(Pages - 1)
      BY <2>6
    <3> QED BY <1>1, <1>2, <2>7, <2>8, <3>1 DEF Rtl!Idle, RtlInv, Rtl!TypeOK
  <2>10. Rtl!Copied(dev, wire[p]) = p
    BY <2>1, <2>2, <2>5, Zenon DEF Rtl!Copied
  <2>11. dev'.bnry # -1
    BY <2>6, <2>9
  <2>12. CASE wire[p] > Dest
    <3>1. up' = up
      BY <2>7, <2>12
    <3> QED BY <1>1, <2>5, <2>9, <2>11, <3>1 DEF RtlInv, Received
  <2>13. CASE ~(wire[p] > Dest)
    <3>1. up' = p
      BY <2>7, <2>10, <2>13
    <3>2. Received'
      <4>1. p \in 0..Len(wire)
        BY <2>5
      <4> QED BY <1>1, <3>1, <4>1 DEF Received
    <3>3. Promise!HandUp
      <4>1. p \in (up + 1)..Len(wire)
        BY <2>5 DEF Received
      <4> QED BY <1>1, <3>1, <4>1 DEF Promise!HandUp
    <3>4. RtlInv'
      BY <1>1, <2>5, <2>9, <2>11, <3>1 DEF RtlInv
    <3> QED BY <3>2, <3>3, <3>4
  <2> QED BY <2>12, <2>13
<1> QED BY <1>3, <1>4, <1>5 DEF Rtl!Retrieve

-----------------------------------------------------------------------------
(* Circular buffers.  N is the buffer's size; a pointer may stand at its end.*)

LEMMA Place ==
  ASSUME NEW N \in Nat \ {0}, NEW e \in 0..N, NEW k \in 0..(N - 1),
         NEW g, g = (e + k) % N
  PROVE  /\ g \in 0..(N - 1)
         /\ e + k < N => g = e + k
         /\ ~(e + k < N) => g = e + k - N
<1>1. PICK x \in Int : x = e + k
  OBVIOUS
<1>2. /\ x % N \in 0..(N - 1)
      /\ 0 =< x /\ x < N => x % N = x
      /\ N =< x /\ x < 2 * N => x % N = x - N
  BY Around
<1>3. x % N = g
  BY <1>1
<1> QED BY <1>1, <1>2, <1>3

PlacedAt(g, N, e, k) ==
  /\ g \in 0..(N - 1)
  /\ e + k < N => g = e + k
  /\ ~(e + k < N) => g = e + k - N

LEMMA PlaceIs ==
  ASSUME NEW N \in Nat \ {0}, NEW e \in 0..N, NEW k \in 0..(N - 1)
  PROVE  PlacedAt((e + k) % N, N, e, k)
<1>1. PICK g : g = (e + k) % N
  OBVIOUS
<1>2. PlacedAt(g, N, e, k)
  BY <1>1, Place DEF PlacedAt
<1> QED BY <1>1, <1>2

\* q is l pieces of buf and then b of burst.
IsHeld(q, buf, e, l, burst, b, N) ==
  /\ \A k \in 0..(l - 1) : q[k] = buf[(e + k) % N]
  /\ \A k \in l..((l + b) - 1) : q[k] = burst[k - l + 1]

LEMMA HeldIs ==
  ASSUME NEW buf, NEW e, NEW l \in Nat, NEW burst, NEW b \in Nat, NEW N, Len(burst) = b
  PROVE  IsHeld(Held(buf, e, l, burst, N), buf, e, l, burst, b, N)
<1>1. ASSUME NEW k \in 0..(l - 1)
      PROVE  Held(buf, e, l, burst, N)[k] = buf[(e + k) % N]
  <2>1. k \in 0..((l + Len(burst)) - 1) /\ k < l
    OBVIOUS
  <2> QED BY <2>1 DEF Held
<1>2. ASSUME NEW k \in l..((l + b) - 1)
      PROVE  Held(buf, e, l, burst, N)[k] = burst[k - l + 1]
  <2>1. k \in 0..((l + Len(burst)) - 1) /\ ~(k < l)
    OBVIOUS
  <2> QED BY <2>1 DEF Held
<1> QED BY <1>1, <1>2 DEF IsHeld

\* What is held when packet p, more, has arrived in the adapter.
HeldMoreOf(buf, e, l, burst, more, N, s, p) ==
  /\ Longer(Held(buf, e, l, burst, N), Held(buf, e, l, burst \o more, N),
            l + Len(burst), s, p)
  /\ burst \o more \in Seq([p : Nat, at : Nat])
  /\ Len(burst) \in Nat /\ Len(burst \o more) = Len(burst) + s

LEMMA HeldMore ==
  ASSUME NEW buf, NEW e, NEW l, NEW burst, NEW N, NEW w, NEW size, NEW u,
         BufferInv(buf, e, l, burst, N, w, size, u),
         NEW n \in Lens, NEW s \in Nat \ {0}, NEW more,
         more = [i \in 1..s |-> [p |-> Len(w) + 1, at |-> i - 1]]
  PROVE  HeldMoreOf(buf, e, l, burst, more, N, s, Len(w) + 1)
<1>1. /\ N \in Nat \ {0} /\ e \in 0..N /\ l \in 0..N /\ l \in Nat
      /\ burst \in Seq([p : Nat, at : Nat])
      /\ w \in Seq(Lens) /\ u \in 0..Len(w) /\ size \in [1..Len(w) -> Nat]
  BY DEF BufferInv
<1>2. /\ Len(w) \in Nat /\ Append(w, n) \in Seq(Lens) /\ Len(Append(w, n)) = Len(w) + 1
  BY <1>1, WireAppend
<1>3. more \in Seq([p : Nat, at : Nat]) /\ Len(more) = s
  <2>1. \A i \in 1..s : [p |-> Len(w) + 1, at |-> i - 1] \in [p : Nat, at : Nat]
    BY <1>2
  <2>2. more \in [1..s -> [p : Nat, at : Nat]]
    BY <2>1
  <2> QED BY <2>2
<1>4. /\ burst \o more \in Seq([p : Nat, at : Nat])
      /\ Len(burst) \in Nat /\ Len(burst \o more) = Len(burst) + s
      /\ \A i \in 1..Len(burst) : (burst \o more)[i] = burst[i]
      /\ \A i \in (Len(burst) + 1)..(Len(burst) + s) :
           (burst \o more)[i] = more[i - Len(burst)]
  BY <1>1, <1>3
<1>5. PICK b \in Nat : b = Len(burst)
  BY <1>4
<1>6. PICK q : q = Held(buf, e, l, burst, N) /\ IsHeld(q, buf, e, l, burst, b, N)
  BY <1>1, <1>5, HeldIs
<1>7. PICK r : /\ r = Held(buf, e, l, burst \o more, N)
               /\ IsHeld(r, buf, e, l, burst \o more, b + s, N)
  <2>1. Len(burst \o more) = b + s /\ b + s \in Nat
    BY <1>4, <1>5
  <2> QED BY <1>1, <2>1, HeldIs
<1>8. \A k \in 0..((l + b) - 1) : r[k] = q[k]
  <2> TAKE k \in 0..((l + b) - 1)
  <2>1. CASE k < l
    <3>1. k \in 0..(l - 1)
      BY <1>1, <2>1
    <3> QED BY <1>6, <1>7, <3>1, Zenon DEF IsHeld
  <2>2. CASE ~(k < l)
    <3>1. k \in l..((l + b) - 1) /\ k \in l..((l + (b + s)) - 1) /\ k - l + 1 \in 1..b
      BY <1>1, <1>5, <2>2
    <3>2. q[k] = burst[k - l + 1]
      BY <1>6, <3>1, Zenon DEF IsHeld
    <3>3. r[k] = (burst \o more)[k - l + 1]
      BY <1>7, <3>1, Zenon DEF IsHeld
    <3> QED BY <1>4, <1>5, <3>1, <3>2, <3>3
  <2> QED BY <2>1, <2>2
<1>9. \A k \in (l + b)..((l + b) + s - 1) : r[k] = [p |-> Len(w) + 1, at |-> k - (l + b)]
  <2> TAKE k \in (l + b)..((l + b) + s - 1)
  <2>1. /\ k \in l..((l + (b + s)) - 1) /\ k - l + 1 \in (b + 1)..(b + s)
        /\ k - l + 1 - b \in 1..s /\ (k - l + 1 - b) - 1 = k - (l + b)
    BY <1>1, <1>5
  <2>2. r[k] = (burst \o more)[k - l + 1]
    BY <1>7, <2>1, Zenon DEF IsHeld
  <2>3. (burst \o more)[k - l + 1] = more[k - l + 1 - b]
    <3>1. PICK i \in (b + 1)..(b + s) : i = k - l + 1
      BY <2>1
    <3>2. \A j \in (b + 1)..(b + s) : (burst \o more)[j] = more[j - b]
      BY <1>4, <1>5
    <3>3. (burst \o more)[i] = more[i - b]
      BY <3>2
    <3>4. i - b = k - l + 1 - b
      BY <1>1, <2>1, <3>1
    <3> QED BY <3>1, <3>3, <3>4
  <2>4. more[k - l + 1 - b] = [p |-> Len(w) + 1, at |-> (k - l + 1 - b) - 1]
    BY <2>1, Zenon
  <2> QED BY <2>1, <2>2, <2>3, <2>4
<1> QED BY <1>4, <1>5, <1>6, <1>7, <1>8, <1>9 DEF Longer, HeldMoreOf

\* A packet that arrives in the adapter.
LEMMA BufferArrive ==
  ASSUME NEW buf, NEW e, NEW l, NEW burst, NEW N, NEW w, NEW size, NEW u,
         BufferInv(buf, e, l, burst, N, w, size, u),
         NEW n \in Lens, NEW s \in Nat \ {0}, NEW more,
         more = [i \in 1..s |-> [p |-> Len(w) + 1, at |-> i - 1]],
         NEW size2 \in [1..(Len(w) + 1) -> Nat],
         \A p \in 1..Len(w) : size2[p] = size[p], size2[Len(w) + 1] = s
  PROVE  BufferInv(buf, e, l, burst \o more, N, Append(w, n), size2, u)
<1>1. /\ N \in Nat \ {0} /\ e \in 0..N /\ l \in 0..N /\ l \in Nat
      /\ w \in Seq(Lens) /\ u \in 0..Len(w) /\ size \in [1..Len(w) -> Nat]
  BY DEF BufferInv
<1>2. /\ Len(w) \in Nat /\ Append(w, n) \in Seq(Lens) /\ Len(Append(w, n)) = Len(w) + 1
  BY <1>1, WireAppend
<1>a. HeldMoreOf(buf, e, l, burst, more, N, s, Len(w) + 1)
  BY HeldMore
<1>3. PICK q : q = Held(buf, e, l, burst, N)
  OBVIOUS
<1>4. PICK r : r = Held(buf, e, l, burst \o more, N)
  OBVIOUS
<1>5. /\ Longer(q, r, l + Len(burst), s, Len(w) + 1)
      /\ burst \o more \in Seq([p : Nat, at : Nat])
      /\ Len(burst) \in Nat /\ Len(burst \o more) = Len(burst) + s
  BY <1>3, <1>4, <1>a DEF HeldMoreOf
<1>6. PICK m \in Nat : m = l + Len(burst)
  BY <1>1, <1>5
<1>7. Pieces(q, m, Len(w), size, u)
  BY <1>3, <1>6 DEF BufferInv
<1>8. Pieces(r, m + s, Len(w) + 1, size2, u)
  <2>1. /\ \A k \in 0..(m - 1) : r[k] = q[k]
        /\ \A k \in m..(m + s - 1) : r[k] = [p |-> Len(w) + 1, at |-> k - m]
    BY <1>5, <1>6 DEF Longer
  <2> QED BY <1>1, <1>2, <1>7, <2>1, PiecesExtend
<1>9. m + s = l + Len(burst \o more) /\ u \in 0..(Len(w) + 1)
  BY <1>1, <1>2, <1>5, <1>6
<1> QED BY <1>1, <1>2, <1>4, <1>5, <1>8, <1>9 DEF BufferInv

\* A packet that arrives and is lost.
LEMMA BufferLost ==
  ASSUME NEW buf, NEW e, NEW l, NEW burst, NEW N, NEW w, NEW size, NEW u,
         BufferInv(buf, e, l, burst, N, w, size, u),
         NEW n \in Lens, NEW size2 \in [1..(Len(w) + 1) -> Nat],
         \A p \in 1..Len(w) : size2[p] = size[p]
  PROVE  BufferInv(buf, e, l, burst, N, Append(w, n), size2, u)
<1>1. /\ N \in Nat \ {0} /\ e \in 0..N /\ l \in 0..N
      /\ burst \in Seq([p : Nat, at : Nat])
      /\ w \in Seq(Lens) /\ u \in 0..Len(w) /\ size \in [1..Len(w) -> Nat]
  BY DEF BufferInv
<1>2. /\ Len(w) \in Nat /\ Append(w, n) \in Seq(Lens) /\ Len(Append(w, n)) = Len(w) + 1
  BY <1>1, WireAppend
<1>3. PICK m \in Nat : m = l + Len(burst)
  BY <1>1
<1>4. Pieces(Held(buf, e, l, burst, N), m, Len(w), size, u)
  BY <1>3 DEF BufferInv
<1>5. Pieces(Held(buf, e, l, burst, N), m, Len(w) + 1, size2, u)
  BY <1>1, <1>2, <1>4, PiecesLost
<1>6. u \in 0..(Len(w) + 1)
  BY <1>1, <1>2
<1> QED BY <1>1, <1>2, <1>3, <1>5, <1>6 DEF BufferInv

\* Where the k-th piece from e on is, seen from f, which is l pieces from e on.
SeenFrom(f, g, k, l, N) ==
  /\ l =< k => (g - f) % N = k - l
  /\ k < l => (g - f) % N = k - l + N

LEMMA PlaceBehind ==
  ASSUME NEW N \in Nat \ {0}, NEW e \in 0..N, NEW l \in 0..N, NEW f \in 0..N,
         (f - e - l) % N = 0, NEW k \in 0..(N - 1), NEW g, g = (e + k) % N
  PROVE  SeenFrom(f, g, k, l, N)
<1>1. PlacedAt(g, N, e, k)
  BY PlaceIs
<1>2. /\ g \in 0..(N - 1)
      /\ e + k < N => g = e + k
      /\ ~(e + k < N) => g = e + k - N
  BY <1>1 DEF PlacedAt
<1>3. PICK x \in Int : x = f - e - l
  OBVIOUS
<1>4. /\ 0 =< x /\ x < N => x % N = x
      /\ N =< x /\ x < 2 * N => x % N = x - N
      /\ -N =< x /\ x < 0 => x % N = x + N
      /\ -(2 * N) =< x /\ x < -N => x % N = x + 2 * N
  BY Around
<1>5. /\ 0 =< x /\ x < N => x = 0
      /\ N =< x /\ x < 2 * N => x = N
      /\ -N =< x /\ x < 0 => x = -N
      /\ -(2 * N) =< x /\ x < -N => x = -(2 * N)
  <2>1. x % N = 0
    BY <1>3
  <2> QED BY <1>4, <2>1
<1>6. x = 0 \/ x = N \/ x = -N \/ x = -(2 * N)
  <2>1. -(2 * N) =< x /\ x < 2 * N
    BY <1>3
  <2> QED BY <1>3, <1>5, <2>1
<1>7. PICK y \in Int : y = g - f
  <2>1. PICK h \in 0..(N - 1) : h = g
    BY <1>2
  <2>2. h - f \in Int
    OBVIOUS
  <2> QED BY <2>1, <2>2
<1>8. /\ 0 =< y /\ y < N => y % N = y
      /\ -N =< y /\ y < 0 => y % N = y + N
  BY Around
<1>9. /\ l =< k => y % N = k - l
      /\ k < l => y % N = k - l + N
  BY <1>1, <1>2, <1>3, <1>6, <1>7, <1>8
<1> QED BY <1>7, <1>9 DEF SeenFrom

\* r is s without its first n.
IsRest(r, s, n, b) == \A i \in 1..(b - n) : r[i] = s[i + n]

LEMMA Rest ==
  ASSUME NEW S, NEW s \in Seq(S), NEW n \in 0..Len(s), NEW r, r = SubSeq(s, n + 1, Len(s))
  PROVE  r \in Seq(S) /\ Len(r) = Len(s) - n /\ IsRest(r, s, n, Len(s))
BY DEF IsRest

\* Another buffer and burst that hold the same.
SameHeld(q, r, n) == \A k \in 0..(n - 1) : r[k] = q[k]

\* The first n pieces of the burst are delivered behind what is there: the same is
\* held as before.
HeldFillOf(buf, buf2, e, l, burst, n, N) ==
  LET rest == SubSeq(burst, n + 1, Len(burst))
  IN /\ SameHeld(Held(buf, e, l, burst, N), Held(buf2, e, l + n, rest, N), l + Len(burst))
     /\ rest \in Seq([p : Nat, at : Nat])
     /\ Len(burst) \in Nat /\ Len(rest) = Len(burst) - n

LEMMA HeldFill ==
  ASSUME NEW buf, NEW e, NEW l, NEW burst, NEW N, NEW w, NEW size, NEW u,
         BufferInv(buf, e, l, burst, N, w, size, u),
         NEW n \in 0..Len(burst), l + n =< N,
         NEW f \in 0..N, (f - e - l) % N = 0,
         NEW buf2,
         \A g \in 0..(N - 1) :
           buf2[g] = IF (g - f) % N < n THEN burst[((g - f) % N) + 1] ELSE buf[g]
  PROVE  HeldFillOf(buf, buf2, e, l, burst, n, N)
<1>1. /\ N \in Nat \ {0} /\ e \in 0..N /\ l \in 0..N /\ l \in Nat
      /\ burst \in Seq([p : Nat, at : Nat])
      /\ w \in Seq(Lens) /\ u \in 0..Len(w) /\ size \in [1..Len(w) -> Nat]
  BY DEF BufferInv
<1>2. PICK b \in Nat : b = Len(burst) /\ n \in 0..b /\ n \in Nat
  BY <1>1
<1>3. PICK rest : rest = SubSeq(burst, n + 1, Len(burst))
  OBVIOUS
<1>9. /\ rest \in Seq([p : Nat, at : Nat]) /\ Len(rest) = b - n
      /\ IsRest(rest, burst, n, b)
  <2>1. rest \in Seq([p : Nat, at : Nat]) /\ Len(rest) = Len(burst) - n
        /\ IsRest(rest, burst, n, Len(burst))
    <3>1. PICK S : S = [p : Nat, at : Nat]
      OBVIOUS
    <3>2. burst \in Seq(S)
      BY <1>1, <3>1
    <3>3. rest \in Seq(S) /\ Len(rest) = Len(burst) - n /\ IsRest(rest, burst, n, Len(burst))
      BY <1>3, <3>2 DEF IsRest
    <3> QED BY <3>1, <3>3
  <2> QED BY <1>2, <2>1
<1>4. PICK q : q = Held(buf, e, l, burst, N) /\ IsHeld(q, buf, e, l, burst, b, N)
  BY <1>1, <1>2, HeldIs
<1>5. PICK r : /\ r = Held(buf2, e, l + n, rest, N)
               /\ IsHeld(r, buf2, e, l + n, rest, b - n, N)
  <2>1. Len(rest) = b - n /\ b - n \in Nat /\ l + n \in Nat
    BY <1>1, <1>2, <1>9
  <2> QED BY <2>1, HeldIs
<1>6. \A k \in 0..((l + b) - 1) : r[k] = q[k]
  <2> TAKE k \in 0..((l + b) - 1)
  <2>1. CASE k < l + n
    <3>1. k \in 0..(N - 1) /\ k \in 0..((l + n) - 1)
      BY <1>1, <1>2, <2>1
    <3>2. PICK g \in 0..(N - 1) : g = (e + k) % N
      BY <1>1, <3>1, Place
    <3>3. r[k] = buf2[g]
      BY <1>5, <3>1, <3>2, Zenon DEF IsHeld
    <3>4. /\ l =< k => (g - f) % N = k - l
          /\ k < l => (g - f) % N = k - l + N
      <4>1. SeenFrom(f, g, k, l, N)
        BY <1>1, <3>1, <3>2, PlaceBehind
      <4> QED BY <4>1 DEF SeenFrom
    <3>5. CASE k < l
      <4>1. k \in 0..(l - 1) /\ ~(k - l + N < n)
        BY <1>1, <1>2, <3>1, <3>5
      <4>2. q[k] = buf[g]
        BY <1>4, <3>2, <4>1, Zenon DEF IsHeld
      <4> QED BY <3>3, <3>4, <3>5, <4>1, <4>2
    <3>6. CASE ~(k < l)
      <4>1. k \in l..((l + b) - 1) /\ k - l < n /\ l =< k
        BY <1>1, <1>2, <2>1, <3>1, <3>6
      <4>2. q[k] = burst[k - l + 1]
        BY <1>4, <4>1, Zenon DEF IsHeld
      <4> QED BY <3>3, <3>4, <4>1, <4>2
    <3> QED BY <3>5, <3>6
  <2>2. CASE ~(k < l + n)
    <3>1. /\ k \in (l + n)..(((l + n) + (b - n)) - 1) /\ k \in l..((l + b) - 1)
          /\ k - (l + n) + 1 \in 1..(b - n) /\ (k - (l + n) + 1) + n = k - l + 1
      BY <1>1, <1>2, <2>2
    <3>2. q[k] = burst[k - l + 1]
      BY <1>4, <3>1, Zenon DEF IsHeld
    <3>3. r[k] = rest[k - (l + n) + 1]
      BY <1>5, <3>1, Zenon DEF IsHeld
    <3>4. rest[k - (l + n) + 1] = burst[(k - (l + n) + 1) + n]
      BY <1>9, <3>1, Zenon DEF IsRest
    <3> QED BY <3>1, <3>2, <3>3, <3>4
  <2> QED BY <2>1, <2>2
<1> QED BY <1>2, <1>3, <1>4, <1>5, <1>6, <1>9 DEF SameHeld, HeldFillOf

LEMMA BufferFill ==
  ASSUME NEW buf, NEW e, NEW l, NEW burst, NEW N, NEW w, NEW size, NEW u,
         BufferInv(buf, e, l, burst, N, w, size, u),
         NEW n \in 0..Len(burst), l + n =< N,
         NEW f \in 0..N, (f - e - l) % N = 0,
         NEW buf2,
         \A g \in 0..(N - 1) :
           buf2[g] = IF (g - f) % N < n THEN burst[((g - f) % N) + 1] ELSE buf[g]
  PROVE  BufferInv(buf2, e, l + n, SubSeq(burst, n + 1, Len(burst)), N, w, size, u)
<1>1. /\ N \in Nat \ {0} /\ e \in 0..N /\ l \in 0..N /\ l \in Nat
      /\ w \in Seq(Lens) /\ u \in 0..Len(w) /\ size \in [1..Len(w) -> Nat]
  BY DEF BufferInv
<1>a. HeldFillOf(buf, buf2, e, l, burst, n, N)
  BY HeldFill
<1>2. PICK rest : rest = SubSeq(burst, n + 1, Len(burst))
  OBVIOUS
<1>3. PICK q : q = Held(buf, e, l, burst, N)
  OBVIOUS
<1>4. PICK r : r = Held(buf2, e, l + n, rest, N)
  OBVIOUS
<1>5. /\ SameHeld(q, r, l + Len(burst)) /\ rest \in Seq([p : Nat, at : Nat])
      /\ Len(burst) \in Nat /\ Len(rest) = Len(burst) - n
  BY <1>2, <1>3, <1>4, <1>a DEF HeldFillOf
<1>6. PICK m \in Nat : m = l + Len(burst)
  BY <1>1, <1>5
<1>7. Pieces(r, m - 0, Len(w), size, u)
  <2>1. Pieces(q, m, Len(w), size, u)
    BY <1>3, <1>6 DEF BufferInv
  <2>2. \A k \in 0..(m - 0 - 1) : r[k] = q[k + 0]
    <3> TAKE k \in 0..(m - 0 - 1)
    <3>1. k \in 0..(m - 1) /\ k + 0 = k
      BY <1>6
    <3> QED BY <1>5, <1>6, <3>1 DEF SameHeld
  <2>3. 0 \in 0..m /\ Len(w) \in Nat /\ u \in Nat /\ size \in [1..Len(w) -> Nat]
    BY <1>1, <1>6
  <2> QED BY <2>1, <2>2, <2>3, PiecesDrop
<1>8. m - 0 = (l + n) + Len(rest) /\ l + n \in 0..N
  BY <1>1, <1>5, <1>6
<1> QED BY <1>1, <1>2, <1>4, <1>5, <1>7, <1>8 DEF BufferInv

\* The k-th piece after the first m are gone.
SamePlace(e, e2, m, k, N) == (e2 + k) % N = (e + (k + m)) % N

LEMMA PlaceFurther ==
  ASSUME NEW N \in Nat \ {0}, NEW e \in 0..N, NEW e2 \in 0..N, NEW m \in Nat,
         e2 = e + m \/ e2 = e + m - N, NEW k \in Nat, k + m < N
  PROVE  SamePlace(e, e2, m, k, N)
<1>1. k \in 0..(N - 1) /\ k + m \in 0..(N - 1)
  OBVIOUS
<1>2. CASE e2 = e + m
  <2>1. e2 + k = e + (k + m)
    BY <1>2
  <2> QED BY <2>1 DEF SamePlace
<1>3. CASE e2 = e + m - N
  <2>1. PICK j \in 0..(N - 1) : j = k + m
    BY <1>1
  <2>2. PICK g : g = (e + j) % N
    OBVIOUS
  <2>3. PICK h : h = (e2 + k) % N
    OBVIOUS
  <2>4. PlacedAt(g, N, e, j) /\ PlacedAt(h, N, e2, k)
    BY <1>1, <2>2, <2>3, PlaceIs
  <2>5. /\ g \in 0..(N - 1) /\ (e + j < N => g = e + j) /\ (~(e + j < N) => g = e + j - N)
        /\ h \in 0..(N - 1) /\ (e2 + k < N => h = e2 + k) /\ (~(e2 + k < N) => h = e2 + k - N)
    BY <2>4 DEF PlacedAt
  <2>6. e2 + k = e + j - N /\ e2 + k < N /\ ~(e + j < N)
    BY <1>3, <2>1
  <2>7. g = h
    BY <2>4, <2>5, <2>6
  <2> QED BY <2>1, <2>2, <2>3, <2>7 DEF SamePlace
<1> QED BY <1>2, <1>3

\* What is held when the first m pieces are gone from the buffer.
LEMMA HeldDrop ==
  ASSUME NEW buf, NEW e, NEW l, NEW burst, NEW N, NEW w, NEW size, NEW u,
         BufferInv(buf, e, l, burst, N, w, size, u),
         NEW m \in 0..l, NEW e2 \in 0..N, e2 = e + m \/ e2 = e + m - N,
         NEW q, q = Held(buf, e, l, burst, N),
         NEW r, r = Held(buf, e2, l - m, burst, N)
  PROVE  \A k \in 0..((l + Len(burst)) - m - 1) : r[k] = q[k + m]
<1>1. /\ N \in Nat \ {0} /\ e \in 0..N /\ l \in 0..N /\ l \in Nat /\ m \in Nat
  BY DEF BufferInv
<1>2. PICK b \in Nat : b = Len(burst)
  BY DEF BufferInv
<1>3. IsHeld(q, buf, e, l, burst, b, N)
  BY <1>1, <1>2, HeldIs
<1>4. IsHeld(r, buf, e2, l - m, burst, b, N)
  <2>1. l - m \in Nat
    BY <1>1
  <2> QED BY <1>2, <2>1, HeldIs
<1>5. ASSUME NEW k \in 0..((l + b) - m - 1)
      PROVE  r[k] = q[k + m]
  <2>1. CASE k < l - m
    <3>1. k \in 0..((l - m) - 1) /\ k + m \in 0..(l - 1) /\ k \in Nat /\ k + m < N
      BY <1>1, <2>1
    <3>2. r[k] = buf[(e2 + k) % N]
      BY <1>4, <3>1, Zenon DEF IsHeld
    <3>3. q[k + m] = buf[(e + (k + m)) % N]
      BY <1>3, <3>1, Zenon DEF IsHeld
    <3>4. (e2 + k) % N = (e + (k + m)) % N
      <4>1. SamePlace(e, e2, m, k, N)
        BY <1>1, <3>1, PlaceFurther
      <4> QED BY <4>1 DEF SamePlace
    <3> QED BY <3>2, <3>3, <3>4
  <2>2. CASE ~(k < l - m)
    <3>1. /\ k \in (l - m)..(((l - m) + b) - 1) /\ k + m \in l..((l + b) - 1)
          /\ k - (l - m) + 1 = (k + m) - l + 1
      BY <1>1, <2>2
    <3>2. r[k] = burst[k - (l - m) + 1]
      BY <1>4, <3>1, Zenon DEF IsHeld
    <3>3. q[k + m] = burst[(k + m) - l + 1]
      BY <1>3, <3>1, Zenon DEF IsHeld
    <3> QED BY <3>1, <3>2, <3>3
  <2> QED BY <2>1, <2>2
<1> QED BY <1>2, <1>5

\* Pieces are taken out of the buffer and thrown away.
LEMMA BufferDrop ==
  ASSUME NEW buf, NEW e, NEW l, NEW burst, NEW N, NEW w, NEW size, NEW u,
         BufferInv(buf, e, l, burst, N, w, size, u),
         NEW m \in 0..l, NEW e2 \in 0..N, e2 = e + m \/ e2 = e + m - N
  PROVE  BufferInv(buf, e2, l - m, burst, N, w, size, u)
<1>1. /\ N \in Nat \ {0} /\ e \in 0..N /\ l \in 0..N /\ l \in Nat
      /\ burst \in Seq([p : Nat, at : Nat]) /\ Len(burst) \in Nat
      /\ w \in Seq(Lens) /\ Len(w) \in Nat /\ u \in 0..Len(w) /\ u \in Nat
      /\ size \in [1..Len(w) -> Nat]
  BY DEF BufferInv
<1>2. PICK q : q = Held(buf, e, l, burst, N)
  OBVIOUS
<1>3. PICK r : r = Held(buf, e2, l - m, burst, N)
  OBVIOUS
<1>4. \A k \in 0..((l + Len(burst)) - m - 1) : r[k] = q[k + m]
  BY <1>2, <1>3, HeldDrop
<1>5. Pieces(q, l + Len(burst), Len(w), size, u)
  BY <1>2 DEF BufferInv
<1>6. l + Len(burst) \in Nat /\ m \in 0..(l + Len(burst))
  BY <1>1
<1>7. Pieces(r, (l + Len(burst)) - m, Len(w), size, u)
  BY <1>1, <1>4, <1>5, <1>6, PiecesDrop
<1>8. (l + Len(burst)) - m = (l - m) + Len(burst) /\ l - m \in 0..N
  BY <1>1
<1> QED BY <1>1, <1>3, <1>7, <1>8 DEF BufferInv

\* The head of packet p is taken out: what is left comes after it was begun.
LEMMA BufferTake ==
  ASSUME NEW buf, NEW e, NEW l, NEW burst, NEW N, NEW w, NEW size, NEW u,
         BufferInv(buf, e, l, burst, N, w, size, u),
         NEW m \in 1..l, NEW e2 \in 0..N, e2 = e + m \/ e2 = e + m - N,
         buf[(e + 0) % N].at = 0, buf[(e + 0) % N].p \in 0..Len(w)
  PROVE  BufferInv(buf, e2, l - m, burst, N, w, size, buf[(e + 0) % N].p)
<1>1. /\ N \in Nat \ {0} /\ e \in 0..N /\ l \in 0..N /\ l \in Nat
      /\ burst \in Seq([p : Nat, at : Nat]) /\ Len(burst) \in Nat
      /\ w \in Seq(Lens) /\ Len(w) \in Nat /\ u \in 0..Len(w) /\ u \in Nat
      /\ size \in [1..Len(w) -> Nat]
  BY DEF BufferInv
<1>2. PICK q : q = Held(buf, e, l, burst, N)
  OBVIOUS
<1>3. PICK r : r = Held(buf, e2, l - m, burst, N)
  OBVIOUS
<1>4. \A k \in 0..((l + Len(burst)) - m - 1) : r[k] = q[k + m]
  <2>1. m \in 0..l
    BY <1>1
  <2> QED BY <1>2, <1>3, <2>1, HeldDrop
<1>5. Pieces(q, l + Len(burst), Len(w), size, u)
  BY <1>2 DEF BufferInv
<1>6. l + Len(burst) \in Nat /\ m \in 1..(l + Len(burst))
  BY <1>1
<1>7. q[0] = buf[(e + 0) % N]
  <2>1. IsHeld(q, buf, e, l, burst, Len(burst), N) /\ 0 \in 0..(l - 1)
    BY <1>1, <1>2, HeldIs
  <2> QED BY <2>1, Zenon DEF IsHeld
<1>8. Pieces(r, (l + Len(burst)) - m, Len(w), size, q[0].p)
  <2>1. q[0].at = 0
    BY <1>7
  <2> QED BY <1>1, <1>4, <1>5, <1>6, <2>1, PiecesTake
<1>9. (l + Len(burst)) - m = (l - m) + Len(burst) /\ l - m \in 0..N
  BY <1>1
<1> QED BY <1>1, <1>3, <1>7, <1>8, <1>9 DEF BufferInv

\* The buffer is given up, and the first n pieces of the burst are lost.
LEMMA BufferEmpty ==
  ASSUME NEW buf, NEW e, NEW l, NEW burst, NEW N, NEW w, NEW size, NEW u,
         BufferInv(buf, e, l, burst, N, w, size, u),
         NEW n \in 0..Len(burst), NEW e2 \in 0..N
  PROVE  BufferInv(buf, e2, 0, SubSeq(burst, n + 1, Len(burst)), N, w, size, u)
<1>1. /\ N \in Nat \ {0} /\ e \in 0..N /\ l \in 0..N /\ l \in Nat /\ n \in Nat
      /\ burst \in Seq([p : Nat, at : Nat]) /\ Len(burst) \in Nat
      /\ w \in Seq(Lens) /\ Len(w) \in Nat /\ u \in 0..Len(w) /\ u \in Nat
      /\ size \in [1..Len(w) -> Nat]
  BY DEF BufferInv
<1>2. PICK b \in Nat : b = Len(burst)
  BY <1>1
<1>3. PICK rest : rest = SubSeq(burst, n + 1, Len(burst))
  OBVIOUS
<1>4. /\ rest \in Seq([p : Nat, at : Nat]) /\ Len(rest) = b - n
      /\ IsRest(rest, burst, n, b)
  <2>1. PICK S : S = [p : Nat, at : Nat]
    OBVIOUS
  <2>2. burst \in Seq(S)
    BY <1>1, <2>1
  <2>3. rest \in Seq(S) /\ Len(rest) = Len(burst) - n /\ IsRest(rest, burst, n, Len(burst))
    BY <1>3, <2>2 DEF IsRest
  <2> QED BY <1>2, <2>1, <2>3
<1>5. PICK q : q = Held(buf, e, l, burst, N) /\ IsHeld(q, buf, e, l, burst, b, N)
  BY <1>1, <1>2, HeldIs
<1>6. PICK r : r = Held(buf, e2, 0, rest, N) /\ IsHeld(r, buf, e2, 0, rest, b - n, N)
  <2>1. b - n \in Nat /\ Len(rest) = b - n
    BY <1>1, <1>2, <1>4
  <2> QED BY <2>1, HeldIs
<1>7. \A k \in 0..((l + b) - (l + n) - 1) : r[k] = q[k + (l + n)]
  <2> TAKE k \in 0..((l + b) - (l + n) - 1)
  <2>1. /\ k \in 0..((0 + (b - n)) - 1) /\ k + (l + n) \in l..((l + b) - 1)
        /\ k - 0 + 1 \in 1..(b - n) /\ (k - 0 + 1) + n = (k + (l + n)) - l + 1
    BY <1>1, <1>2
  <2>2. r[k] = rest[k - 0 + 1]
    BY <1>6, <2>1, Zenon DEF IsHeld
  <2>3. q[k + (l + n)] = burst[(k + (l + n)) - l + 1]
    BY <1>5, <2>1, Zenon DEF IsHeld
  <2>4. rest[k - 0 + 1] = burst[(k - 0 + 1) + n]
    BY <1>4, <2>1, Zenon DEF IsRest
  <2> QED BY <2>1, <2>2, <2>3, <2>4
<1>8. Pieces(q, l + b, Len(w), size, u)
  BY <1>2, <1>5 DEF BufferInv
<1>9. l + b \in Nat /\ l + n \in 0..(l + b)
  BY <1>1, <1>2
<1>10. Pieces(r, (l + b) - (l + n), Len(w), size, u)
  BY <1>1, <1>7, <1>8, <1>9, PiecesDrop
<1>11. (l + b) - (l + n) = 0 + Len(rest) /\ 0 \in 0..N
  BY <1>1, <1>2, <1>4
<1> QED BY <1>1, <1>3, <1>4, <1>6, <1>10, <1>11 DEF BufferInv

\* The packet at the head of the buffer.
LEMMA BufferHead ==
  ASSUME NEW buf, NEW e, NEW l, NEW burst, NEW N, NEW w, NEW size, NEW u,
         BufferInv(buf, e, l, burst, N, w, size, u), 0 < l,
         NEW p, p = buf[(e + 0) % N].p, buf[(e + 0) % N].at = 0
  PROVE  /\ p \in 1..Len(w) /\ u < p /\ size[p] =< l + Len(burst)
         /\ \A k \in 1..(size[p] - 1) :
              k < l => buf[(e + k) % N] = [p |-> p, at |-> k]
<1>1. /\ N \in Nat \ {0} /\ e \in 0..N /\ l \in 0..N /\ l \in Nat
      /\ Len(burst) \in Nat /\ Len(w) \in Nat /\ u \in Nat
      /\ size \in [1..Len(w) -> Nat]
  BY DEF BufferInv
<1>2. PICK q : q = Held(buf, e, l, burst, N) /\ IsHeld(q, buf, e, l, burst, Len(burst), N)
  BY <1>1, HeldIs
<1>3. PICK n \in Nat : n = l + Len(burst) /\ n > 0
  BY <1>1
<1>4. Pieces(q, n, Len(w), size, u)
  BY <1>2, <1>3 DEF BufferInv
<1>5. q[0] = buf[(e + 0) % N]
  <2>1. 0 \in 0..(l - 1)
    BY <1>1
  <2> QED BY <1>2, <2>1, Zenon DEF IsHeld
<1>6. q[0].at = 0
  BY <1>5
<1>7. q[0].p \in 1..Len(w) /\ u < q[0].p /\ size[q[0].p] =< n /\ Whole(q, q[0].p, size[q[0].p])
  BY <1>1, <1>3, <1>4, <1>6, PiecesHead
<1>8. p \in 1..Len(w) /\ u < p /\ size[p] =< n /\ Whole(q, p, size[p]) /\ size[p] \in Nat
  BY <1>1, <1>5, <1>7
<1>9. ASSUME NEW k \in 1..(size[p] - 1), k < l
      PROVE  buf[(e + k) % N] = [p |-> p, at |-> k]
  <2>1. k \in 0..(l - 1)
    BY <1>1, <1>8, <1>9
  <2>2. q[k] = buf[(e + k) % N]
    BY <1>2, <2>1, Zenon DEF IsHeld
  <2>3. q[k] = [p |-> p, at |-> k]
    BY <1>8, Zenon DEF Whole
  <2> QED BY <2>2, <2>3
<1> QED BY <1>3, <1>8, <1>9

-----------------------------------------------------------------------------
(* The steps of the PicoWifi device and its driver.                         *)

LEMMA PicoNat ==
  /\ Fifo \in Nat \ {0} /\ Pico!FIFO_SIZE = 2 * Fifo /\ Pico!FIFO_SIZE \in Nat \ {0}
  /\ Pico!H = 4 /\ MaxFaults \in Nat
  /\ \A n \in Lens : n \in Nat /\ Pico!H + n =< Fifo /\ Pico!H + n \in Nat \ {0}
BY DriverAssumption DEF DriverAssumption, Pico!FIFO_SIZE, Pico!H

LEMMA PicoSizesType ==
  ASSUME NEW w \in Seq(Lens), NEW n \in Lens
  PROVE  /\ PicoSizes(Append(w, n)) \in [1..(Len(w) + 1) -> Nat]
         /\ \A p \in 1..Len(w) : PicoSizes(Append(w, n))[p] = PicoSizes(w)[p]
         /\ PicoSizes(Append(w, n))[Len(w) + 1] = Pico!H + n
<1>1. /\ Len(w) \in Nat
      /\ Append(w, n) \in Seq(Lens) /\ Len(Append(w, n)) = Len(w) + 1
      /\ \A p \in 1..Len(w) : Append(w, n)[p] = w[p]
      /\ Append(w, n)[Len(w) + 1] = n
      /\ \A p \in 1..(Len(w) + 1) : Append(w, n)[p] \in Lens
  OBVIOUS
<1>2. \A x \in Lens : Pico!H + x \in Nat
  BY PicoNat
<1>3. \A p \in 1..(Len(w) + 1) : Pico!H + Append(w, n)[p] \in Nat
  BY <1>1, <1>2
<1> QED BY <1>1, <1>3 DEF PicoSizes

LEMMA PicoSizesAre == ASSUME NEW w \in Seq(Lens)
                      PROVE  PicoSizes(w) \in [1..Len(w) -> Nat]
<1>1. \A x \in Lens : Pico!H + x \in Nat
  BY PicoNat
<1>2. \A p \in 1..Len(w) : Pico!H + w[p] \in Nat
  BY <1>1
<1> QED BY <1>2 DEF PicoSizes

LEMMA SeqWider ==
  ASSUME NEW A, NEW B, A \subseteq B, NEW s \in Seq(A)
  PROVE  s \in Seq(B)
OBVIOUS

LEMMA CellsWider ==
  ASSUME NEW S, NEW A, NEW B, A \subseteq B
  PROVE  [S -> A] \subseteq [S -> B]
OBVIOUS

LEMMA Joined ==
  ASSUME NEW S, NEW a \in Seq(S), NEW s \in Nat, NEW b \in [1..s -> S]
  PROVE  a \o b \in Seq(S) /\ Len(a \o b) = Len(a) + s /\ Len(a) \in Nat
<1>1. b \in Seq(S) /\ Len(b) = s
  OBVIOUS
<1> QED BY <1>1

\* The states of the PicoWifi driver, field by field.
PicoCells(last) == [0..(Pico!FIFO_SIZE - 1) -> [p : 0..last, at : 0..(Fifo - 1)]]
PicoBytes(last) == Seq([p : 1..last, at : 0..(Fifo - 1)])

PicoIs(e, last, buf, level, read, write, burst) ==
  /\ e \in PicoDevs(last)
  /\ e.buf = buf /\ e.level = level /\ e.read = read /\ e.write = write
  /\ e.burst = burst

LEMMA PicoReadTo ==
  ASSUME NEW last, NEW d \in PicoDevs(last),
         NEW l \in 0..Pico!FIFO_SIZE, NEW r \in 0..Pico!FIFO_SIZE
  PROVE  PicoIs([d EXCEPT !.level = l, !.read = r], last, d.buf, l, r, d.write, d.burst)
BY DEF PicoDevs, PicoIs

LEMMA PicoFilled ==
  ASSUME NEW last, NEW d \in PicoDevs(last), NEW buf \in PicoCells(last),
         NEW burst \in PicoBytes(last),
         NEW l \in 0..Pico!FIFO_SIZE, NEW f \in 0..Pico!FIFO_SIZE
  PROVE  PicoIs([d EXCEPT !.buf = buf, !.burst = burst, !.level = l, !.write = f],
                last, buf, l, d.read, f, burst)
BY DEF PicoDevs, PicoIs, PicoCells, PicoBytes

LEMMA PicoFailed ==
  ASSUME NEW last, NEW d \in PicoDevs(last), NEW burst \in PicoBytes(last),
         NEW n \in 0..MaxFaults
  PROVE  /\ PicoIs([d EXCEPT !.faults = n], last, d.buf, d.level, d.read, d.write, d.burst)
         /\ PicoIs([d EXCEPT !.faults = n, !.burst = burst], last, d.buf, d.level, d.read,
                   d.write, burst)
BY DEF PicoDevs, PicoIs, PicoBytes

LEMMA PicoArrived ==
  ASSUME NEW last, NEW wider, PicoCells(last) \subseteq PicoCells(wider),
         NEW d \in PicoDevs(last), NEW burst \in PicoBytes(wider)
  PROVE  PicoIs([d EXCEPT !.burst = burst], wider, d.buf, d.level, d.read, d.write, burst)
BY DEF PicoDevs, PicoIs, PicoCells, PicoBytes

\* An empty buffer and an adapter that has nothing.
LEMMA BufferStart ==
  ASSUME NEW buf, NEW N \in Nat \ {0}, NEW w \in Seq(Lens),
         NEW size \in [1..Len(w) -> Nat], NEW u \in 0..Len(w)
  PROVE  BufferInv(buf, 0, 0, <<>>, N, w, size, u)
<1>1. 0 + Len(<<>>) = 0 /\ <<>> \in Seq([p : Nat, at : Nat]) /\ 0 \in 0..N
  OBVIOUS
<1>2. 0..(0 - 1) = {}
  OBVIOUS
<1>3. Pieces(Held(buf, 0, 0, <<>>, N), 0, Len(w), size, u)
  BY <1>2 DEF Pieces
<1> QED BY <1>1, <1>3 DEF BufferInv

LEMMA PicoStart ==
  ASSUME NEW w \in Seq(Lens), NEW u \in 0..Len(w), NEW d, d = Pico!Start
  PROVE  PicoOK(d, w, u)
<1>1. Len(w) \in Nat
  OBVIOUS
<1>2. [p |-> 0, at |-> 0] \in [p : 0..Len(w), at : 0..(Fifo - 1)]
  BY <1>1, PicoNat
<1>3. /\ 0 \in 0..Pico!FIFO_SIZE /\ 0 \in 0..3 /\ 0 \in 0..MaxFaults
      /\ <<>> \in Seq([p : 1..Len(w), at : 0..(Fifo - 1)]) /\ Len(<<>>) = 0
  BY PicoNat
<1>4. d \in PicoDevs(Len(w))
  BY <1>2, <1>3 DEF PicoDevs, Pico!Start, Pico!Nocell
<1>5. /\ d.burst = <<>> /\ d.level = 0 /\ d.read = 0 /\ d.write = 0
  BY DEF Pico!Start
<1>6. (0 - 0 - 0) % Pico!FIFO_SIZE = 0 /\ Len(<<>>) =< Fifo
  BY <1>3, PicoNat
<1>7. BufferInv(d.buf, 0, 0, <<>>, Pico!FIFO_SIZE, w, PicoSizes(w), u)
  BY <1>1, PicoNat, PicoSizesAre, BufferStart
<1> QED BY <1>4, <1>5, <1>6, <1>7 DEF PicoOK

LEMMA PicoTypeOK == PicoInv => Pico!TypeOK
BY DEF PicoInv, PicoOK, PicoDevs, Pico!TypeOK

LEMMA PicoArrives ==
  ASSUME Received, PicoInv, Pico!Arrive
  PROVE  Received' /\ PicoInv' /\ Promise!Arrive
<1>1. PICK n \in Lens :
        /\ Len(dev.burst) + Pico!H + n =< Fifo
        /\ wire' = Append(wire, n)
        /\ dev' = [dev EXCEPT !.burst = @ \o Pico!Cells(Len(wire) + 1, n)]
  BY DEF Pico!Arrive
<1>2. up' = up
  BY DEF Pico!Arrive
<1>3. /\ Len(wire) \in Nat /\ wire' \in Seq(Lens) /\ Len(wire') = Len(wire) + 1
      /\ wire \in Seq(Lens) /\ up \in 0..Len(wire)
  BY <1>1, WireAppend DEF Received
<1>4. Received'
  BY <1>2, <1>3 DEF Received
<1>5. Promise!Arrive
  BY <1>1, <1>2 DEF Promise!Arrive
<1>6. PICK s \in Nat \ {0} : s = Pico!H + n /\ s =< Fifo
  BY PicoNat
<1>7. PICK more : more = [i \in 1..s |-> [p |-> Len(wire) + 1, at |-> i - 1]]
  OBVIOUS
<1>8. Pico!Cells(Len(wire) + 1, n) = more
  BY <1>6, <1>7 DEF Pico!Cells
<1>9. /\ dev \in PicoDevs(Len(wire))
      /\ BufferInv(dev.buf, dev.read, dev.level, dev.burst, Pico!FIFO_SIZE, wire,
                   PicoSizes(wire), up)
      /\ BufferInv(dev.buf, dev.read, dev.level, <<>>, Pico!FIFO_SIZE, wire,
                   PicoSizes(wire), up)
      /\ (dev.write - dev.read - dev.level) % Pico!FIFO_SIZE = 0
  BY DEF PicoInv, PicoOK
<1>10. /\ dev'.buf = dev.buf /\ dev'.read = dev.read /\ dev'.level = dev.level
       /\ dev'.write = dev.write /\ dev'.burst = dev.burst \o more
       /\ dev' = [dev EXCEPT !.burst = dev.burst \o more]
  BY <1>1, <1>8, <1>9 DEF PicoDevs
<1>11. /\ PicoSizes(wire') \in [1..(Len(wire) + 1) -> Nat]
       /\ \A p \in 1..Len(wire) : PicoSizes(wire')[p] = PicoSizes(wire)[p]
       /\ PicoSizes(wire')[Len(wire) + 1] = s
  BY <1>1, <1>3, <1>6, PicoSizesType
<1>12. BufferInv(dev'.buf, dev'.read, dev'.level, dev'.burst, Pico!FIFO_SIZE, wire',
                 PicoSizes(wire'), up')
  <2>1. BufferInv(dev.buf, dev.read, dev.level, dev.burst \o more, Pico!FIFO_SIZE,
                  Append(wire, n), PicoSizes(wire'), up)
    BY <1>7, <1>9, <1>11, BufferArrive, Zenon
  <2> QED BY <1>1, <1>2, <1>10, <2>1
<1>13. BufferInv(dev'.buf, dev'.read, dev'.level, <<>>, Pico!FIFO_SIZE, wire',
                 PicoSizes(wire'), up')
  <2>1. BufferInv(dev.buf, dev.read, dev.level, <<>>, Pico!FIFO_SIZE,
                  Append(wire, n), PicoSizes(wire'), up)
    BY <1>9, <1>11, BufferLost
  <2> QED BY <1>1, <1>2, <1>10, <2>1
<1>14. dev'.burst \in Seq([p : 1..Len(wire'), at : 0..(Fifo - 1)]) /\ Len(dev'.burst) =< Fifo
  <2>1. dev.burst \in Seq([p : 1..Len(wire), at : 0..(Fifo - 1)])
    BY <1>9 DEF PicoDevs
  <2>2. PICK A : A = [p : 1..Len(wire), at : 0..(Fifo - 1)]
    OBVIOUS
  <2>3. dev.burst \in Seq([p : 1..Len(wire'), at : 0..(Fifo - 1)])
    <3>1. PICK B : B = [p : 1..Len(wire'), at : 0..(Fifo - 1)]
      OBVIOUS
    <3>2. A \subseteq B
      BY <1>3, <2>2, <3>1
    <3>3. dev.burst \in Seq(A)
      BY <2>1, <2>2
    <3>4. dev.burst \in Seq(B)
      BY <3>2, <3>3, SeqWider, Zenon
    <3> QED BY <3>1, <3>4
  <2>4. \A i \in 1..s : [p |-> Len(wire) + 1, at |-> i - 1] \in [p : 1..Len(wire'), at : 0..(Fifo - 1)]
    <3> TAKE i \in 1..s
    <3>1. i - 1 \in 0..(Fifo - 1)
      BY <1>6, PicoNat
    <3>2. Len(wire) + 1 \in 1..Len(wire')
      BY <1>3
    <3> QED BY <3>1, <3>2
  <2>5. more \in [1..s -> [p : 1..Len(wire'), at : 0..(Fifo - 1)]]
    BY <1>7, <2>4
  <2>6. PICK S : S = [p : 1..Len(wire'), at : 0..(Fifo - 1)]
    OBVIOUS
  <2>7. /\ dev.burst \o more \in Seq([p : 1..Len(wire'), at : 0..(Fifo - 1)])
        /\ Len(dev.burst \o more) = Len(dev.burst) + s /\ Len(dev.burst) \in Nat
    <3>1. dev.burst \in Seq(S) /\ more \in [1..s -> S] /\ s \in Nat
      BY <1>6, <2>3, <2>5, <2>6
    <3>2. dev.burst \o more \in Seq(S)
          /\ Len(dev.burst \o more) = Len(dev.burst) + s /\ Len(dev.burst) \in Nat
      BY <3>1, Joined
    <3> QED BY <2>6, <3>2
  <2>8. Len(dev.burst) + s =< Fifo
    <3>1. PICK b \in Nat : b = Len(dev.burst)
      BY <2>7
    <3>2. PICK h \in Nat : h = Pico!H
      BY PicoNat
    <3>3. b + h + n =< Fifo /\ s = h + n /\ n \in Nat /\ Fifo \in Nat
      BY <1>1, <1>6, <3>1, <3>2, PicoNat
    <3>4. b + s =< Fifo
      BY <3>3
    <3> QED BY <3>1, <3>4
  <2> QED BY <1>10, <2>7, <2>8
<1>15. dev' \in PicoDevs(Len(wire'))
  <2>1. PicoCells(Len(wire)) \subseteq PicoCells(Len(wire'))
    <3>1. [p : 0..Len(wire), at : 0..(Fifo - 1)] \subseteq [p : 0..Len(wire'), at : 0..(Fifo - 1)]
      BY <1>3
    <3> QED BY <3>1, CellsWider DEF PicoCells
  <2>2. PICK more2 \in PicoBytes(Len(wire')) : more2 = dev.burst \o more
    BY <1>10, <1>14 DEF PicoBytes
  <2>3. PicoIs([dev EXCEPT !.burst = more2], Len(wire'), dev.buf, dev.level, dev.read,
               dev.write, more2)
    BY <1>9, <2>1, <2>2, PicoArrived, Zenon
  <2> QED BY <1>10, <2>2, <2>3 DEF PicoIs
<1> QED BY <1>4, <1>5, <1>9, <1>10, <1>12, <1>13, <1>14, <1>15 DEF PicoInv, PicoOK

\* Two distances in the ring that differ by its size or not at all.
LEMMA Multiple ==
  ASSUME NEW N \in Nat \ {0}, NEW x \in Int, NEW y \in Int, x % N = 0,
         -(2 * N) =< x, x =< N, -(2 * N) =< y, y =< N,
         y = x \/ y = x - N \/ y = x + N
  PROVE  y % N = 0
<1>1. /\ 0 =< x /\ x < N => x % N = x
      /\ N =< x /\ x < 2 * N => x % N = x - N
      /\ -N =< x /\ x < 0 => x % N = x + N
      /\ -(2 * N) =< x /\ x < -N => x % N = x + 2 * N
  BY Around
<1>2. x = 0 \/ x = N \/ x = -N \/ x = -(2 * N)
  BY <1>1
<1>3. /\ 0 =< y /\ y < N => y % N = y
      /\ N =< y /\ y < 2 * N => y % N = y - N
      /\ -N =< y /\ y < 0 => y % N = y + N
      /\ -(2 * N) =< y /\ y < -N => y % N = y + 2 * N
  BY Around
<1>4. y = 0 \/ y = N \/ y = -N \/ y = -(2 * N)
  BY <1>2
<1> QED BY <1>3, <1>4

\* The two indexes stay in step when one moves with what crosses it.
LEMMA ReadMoved ==
  ASSUME NEW N \in Nat \ {0}, NEW i \in 0..N, NEW o \in 0..N, NEW l \in 0..N,
         NEW n \in 0..l, NEW o2 \in 0..N, o2 = o + n \/ o2 = o + n - N,
         InStep(i, o, l, N)
  PROVE  InStep(i, o2, l - n, N)
<1>1. PICK x \in Int : x = i - o - l
  OBVIOUS
<1>2. PICK y \in Int : y = i - o2 - (l - n)
  OBVIOUS
<1>3. /\ -(2 * N) =< x /\ x =< N /\ -(2 * N) =< y /\ y =< N
      /\ y = x \/ y = x - N \/ y = x + N
  BY <1>1, <1>2
<1>4. x % N = 0
  BY <1>1 DEF InStep
<1>5. y % N = 0
  BY <1>3, <1>4, Multiple
<1> QED BY <1>2, <1>5 DEF InStep

LEMMA WriteMoved ==
  ASSUME NEW N \in Nat \ {0}, NEW i \in 0..N, NEW o \in 0..N, NEW l \in 0..N,
         NEW n \in 0..N, l + n =< N, NEW i2 \in 0..N, i2 = i + n \/ i2 = i + n - N,
         InStep(i, o, l, N)
  PROVE  InStep(i2, o, l + n, N)
<1>1. PICK x \in Int : x = i - o - l
  OBVIOUS
<1>2. PICK y \in Int : y = i2 - o - (l + n)
  OBVIOUS
<1>3. /\ -(2 * N) =< x /\ x =< N /\ -(2 * N) =< y /\ y =< N
      /\ y = x \/ y = x - N \/ y = x + N
  BY <1>1, <1>2
<1>4. x % N = 0
  BY <1>1 DEF InStep
<1>5. y % N = 0
  BY <1>3, <1>4, Multiple
<1> QED BY <1>2, <1>5 DEF InStep

LEMMA PicoMoved ==
  ASSUME NEW i \in 0..Pico!FIFO_SIZE, NEW n \in 0..Pico!FIFO_SIZE
  PROVE  /\ Pico!Moved(i, n) \in 0..Pico!FIFO_SIZE
         /\ Pico!Moved(i, n) = i + n \/ Pico!Moved(i, n) = i + n - Pico!FIFO_SIZE
BY PicoNat DEF Pico!Moved

MovedTo(j, i, n) ==
  j \in 0..Pico!FIFO_SIZE /\ (j = i + n \/ j = i + n - Pico!FIFO_SIZE)

LEMMA PicoMovedTo ==
  ASSUME NEW i \in 0..Pico!FIFO_SIZE, NEW n \in 0..Pico!FIFO_SIZE
  PROVE  MovedTo(Pico!Moved(i, n), i, n)
BY PicoMoved DEF MovedTo

\* Cells are taken out of the ring, the read index moves with them.
LEMMA PicoDequeues ==
  ASSUME NEW d, NEW w, NEW u, PicoOK(d, w, u), NEW n \in 0..d.level
  PROVE  /\ PicoOK(Pico!Dequeue(d, n), w, u)
         /\ n > 0 /\ Pico!Cell(d, 0).at = 0 =>
              PicoOK(Pico!Dequeue(d, n), w, Pico!Cell(d, 0).p)
<1> DEFINE F == Pico!FIFO_SIZE
           e == Pico!Dequeue(d, n)
<1>1. /\ d \in PicoDevs(Len(w)) /\ Len(d.burst) =< Fifo
      /\ (d.write - d.read - d.level) % F = 0
      /\ BufferInv(d.buf, d.read, d.level, d.burst, F, w, PicoSizes(w), u)
      /\ BufferInv(d.buf, d.read, d.level, <<>>, F, w, PicoSizes(w), u)
  BY DEF PicoOK
<1>2. /\ F \in Nat \ {0} /\ d.level \in 0..F /\ d.read \in 0..F /\ d.write \in 0..F
      /\ n \in 0..F /\ n \in Nat /\ Len(w) \in Nat
  <2>1. F \in Nat \ {0} /\ d.level \in 0..F /\ d.read \in 0..F /\ d.write \in 0..F
    BY <1>1, PicoNat DEF PicoDevs
  <2>2. w \in Seq(Lens)
    BY <1>1 DEF BufferInv
  <2>3. PICK l \in 0..F : l = d.level
    BY <2>1
  <2>4. n \in 0..F /\ n \in Nat
    BY <2>1, <2>3
  <2> QED BY <2>1, <2>2, <2>4
<1>3. PICK r \in 0..F : r = Pico!Moved(d.read, n) /\ (r = d.read + n \/ r = d.read + n - F)
  BY <1>2, PicoMoved
<1>4. d.level - n \in 0..F
  BY <1>2
<1>5. e = [d EXCEPT !.level = d.level - n, !.read = r]
  BY <1>3 DEF Pico!Dequeue
<1>6. /\ e.buf = d.buf /\ e.level = d.level - n /\ e.read = r /\ e.write = d.write
      /\ e.burst = d.burst /\ e \in PicoDevs(Len(w))
  <2>1. PicoIs([d EXCEPT !.level = d.level - n, !.read = r], Len(w), d.buf, d.level - n, r,
               d.write, d.burst)
    BY <1>1, <1>4, PicoReadTo, Zenon
  <2> QED BY <1>5, <2>1 DEF PicoIs
<1>7. InStep(d.write, r, d.level - n, F)
  <2>1. InStep(d.write, d.read, d.level, F)
    BY <1>1 DEF InStep
  <2> QED BY <1>2, <1>3, <2>1, ReadMoved
<1>8. /\ BufferInv(d.buf, r, d.level - n, d.burst, F, w, PicoSizes(w), u)
      /\ BufferInv(d.buf, r, d.level - n, <<>>, F, w, PicoSizes(w), u)
  BY <1>1, <1>3, BufferDrop
<1>9. PicoOK(e, w, u)
  BY <1>1, <1>6, <1>7, <1>8 DEF PicoOK, InStep
<1>10. ASSUME n > 0, Pico!Cell(d, 0).at = 0
       PROVE  PicoOK(e, w, Pico!Cell(d, 0).p)
  <2>1. Pico!Cell(d, 0) = d.buf[(d.read + 0) % F]
    BY DEF Pico!Cell
  <2>2. n \in 1..d.level
    BY <1>2, <1>10
  <2>3. (d.read + 0) % F \in 0..(F - 1)
    <3>1. 0 \in 0..(F - 1)
      BY <1>2
    <3> QED BY <1>2, <3>1, Place
  <2>4. d.buf[(d.read + 0) % F].p \in 0..Len(w)
    BY <1>1, <2>3 DEF PicoDevs
  <2>5. d.buf[(d.read + 0) % F].at = 0
    BY <1>10, <2>1
  <2>6. /\ BufferInv(d.buf, r, d.level - n, d.burst, F, w, PicoSizes(w),
                     d.buf[(d.read + 0) % F].p)
        /\ BufferInv(d.buf, r, d.level - n, <<>>, F, w, PicoSizes(w),
                     d.buf[(d.read + 0) % F].p)
    BY <1>1, <1>3, <2>2, <2>4, <2>5, BufferTake
  <2> QED BY <1>1, <1>6, <1>7, <2>1, <2>6 DEF PicoOK, InStep
<1> QED BY <1>9, <1>10

\* What the driver counts has no part in it.
LEMMA PicoCounts ==
  ASSUME NEW d, NEW w, NEW u, PicoOK(d, w, u), NEW r \in 0..3, NEW c \in BOOLEAN
  PROVE  /\ PicoOK([d EXCEPT !.resync = r], w, u)
         /\ PicoOK([d EXCEPT !.cut = c], w, u)
<1>1. d \in PicoDevs(Len(w))
  BY DEF PicoOK
<1>2. PICK e : e = [d EXCEPT !.resync = r]
  OBVIOUS
<1>3. PICK f : f = [d EXCEPT !.cut = c]
  OBVIOUS
<1>4. /\ e \in PicoDevs(Len(w)) /\ e.buf = d.buf /\ e.level = d.level /\ e.read = d.read
      /\ e.write = d.write /\ e.burst = d.burst
  BY <1>1, <1>2 DEF PicoDevs
<1>5. /\ f \in PicoDevs(Len(w)) /\ f.buf = d.buf /\ f.level = d.level /\ f.read = d.read
      /\ f.write = d.write /\ f.burst = d.burst
  BY <1>1, <1>3 DEF PicoDevs
<1>6. PicoOK(e, w, u)
  BY <1>4 DEF PicoOK
<1>7. PicoOK(f, w, u)
  BY <1>5 DEF PicoOK
<1> QED BY <1>2, <1>3, <1>6, <1>7

\* fifo_reset()
LEMMA PicoResets ==
  ASSUME NEW d, NEW w, NEW u, PicoOK(d, w, u)
  PROVE  PicoOK(Pico!FifoReset(d), w, u)
<1>1. /\ d \in PicoDevs(Len(w)) /\ Len(d.burst) =< Fifo
      /\ BufferInv(d.buf, d.read, d.level, d.burst, Pico!FIFO_SIZE, w, PicoSizes(w), u)
      /\ BufferInv(d.buf, d.read, d.level, <<>>, Pico!FIFO_SIZE, w, PicoSizes(w), u)
  BY DEF PicoOK
<1>2. PICK e : e = Pico!FifoReset(d)
  OBVIOUS
<1>3. 0 \in 0..Pico!FIFO_SIZE /\ (0 - 0 - 0) % Pico!FIFO_SIZE = 0
  BY PicoNat
<1>4. /\ e \in PicoDevs(Len(w)) /\ e.buf = d.buf /\ e.level = 0 /\ e.read = 0
      /\ e.write = 0 /\ e.burst = d.burst
  BY <1>1, <1>2, <1>3 DEF PicoDevs, Pico!FifoReset
<1>5. 0 \in 0..Len(d.burst) /\ SubSeq(d.burst, 0 + 1, Len(d.burst)) = d.burst
  BY <1>1 DEF PicoDevs
<1>6. 0 \in 0..Len(<<>>) /\ SubSeq(<<>>, 0 + 1, Len(<<>>)) = <<>>
  OBVIOUS
<1>7. BufferInv(d.buf, 0, 0, SubSeq(d.burst, 0 + 1, Len(d.burst)), Pico!FIFO_SIZE, w,
                PicoSizes(w), u)
  BY <1>1, <1>3, <1>5, BufferEmpty
<1>8. BufferInv(d.buf, 0, 0, SubSeq(<<>>, 0 + 1, Len(<<>>)), Pico!FIFO_SIZE, w,
                PicoSizes(w), u)
  BY <1>1, <1>3, <1>6, BufferEmpty
<1> QED BY <1>1, <1>2, <1>3, <1>4, <1>5, <1>6, <1>7, <1>8 DEF PicoOK

\* A transfer that empties the device's FIFO.
LEMMA PicoEnqueues ==
  ASSUME NEW d, NEW w, NEW u, PicoOK(d, w, u), Pico!HasRoom(d)
  PROVE  PicoOK(Pico!Enqueue(d, Len(d.burst)), w, u)
<1> DEFINE F == Pico!FIFO_SIZE
<1>1. /\ d \in PicoDevs(Len(w)) /\ Len(d.burst) =< Fifo
      /\ (d.write - d.read - d.level) % F = 0
      /\ BufferInv(d.buf, d.read, d.level, d.burst, F, w, PicoSizes(w), u)
  BY DEF PicoOK
<1>2. PICK n \in Nat : n = Len(d.burst)
  BY <1>1 DEF PicoDevs
<1>3. PICK e : e = Pico!Enqueue(d, n)
  OBVIOUS
<1>4. /\ F \in Nat \ {0} /\ d.level \in 0..F /\ d.read \in 0..F /\ d.write \in 0..F
      /\ n \in 0..F /\ n \in 0..n /\ Len(w) \in Nat /\ d.level + n =< F
      /\ d.level + n \in 0..F
  <2>1. F \in Nat \ {0} /\ d.level \in 0..F /\ d.read \in 0..F /\ d.write \in 0..F
    BY <1>1, PicoNat DEF PicoDevs
  <2>2. w \in Seq(Lens)
    BY <1>1 DEF BufferInv
  <2>3. PICK l \in 0..F : l = d.level
    BY <2>1
  <2>4. n =< Fifo /\ F - l >= Fifo /\ Fifo \in Nat /\ F = 2 * Fifo
    BY <1>1, <1>2, <2>3, PicoNat DEF Pico!HasRoom
  <2>5. n \in 0..F /\ n \in 0..n /\ l + n =< F /\ l + n \in 0..F
    BY <2>1, <2>4
  <2> QED BY <2>1, <2>2, <2>3, <2>5
<1>5. PICK m \in 0..F : m = Pico!Moved(d.write, n) /\ (m = d.write + n \/ m = d.write + n - F)
  BY <1>4, PicoMoved
<1>6. PICK buf2 : buf2 = [i \in 0..(F - 1) |->
                            IF (i - d.write) % F < n THEN d.burst[((i - d.write) % F) + 1]
                            ELSE d.buf[i]]
  OBVIOUS
<1>7. e = [d EXCEPT !.buf = buf2, !.burst = SubSeq(d.burst, n + 1, Len(d.burst)),
                    !.level = d.level + n, !.write = m]
  BY <1>3, <1>5, <1>6 DEF Pico!Enqueue
<1>8. SubSeq(d.burst, n + 1, Len(d.burst)) = <<>>
  <2>1. Len(d.burst) < n + 1
    BY <1>2
  <2> QED BY <1>1, <1>2, <2>1 DEF PicoDevs
<1>9. buf2 \in [0..(F - 1) -> [p : 0..Len(w), at : 0..(Fifo - 1)]]
  <2>1. ASSUME NEW i \in 0..(F - 1), (i - d.write) % F < n
        PROVE  d.burst[((i - d.write) % F) + 1] \in [p : 0..Len(w), at : 0..(Fifo - 1)]
    <3>1. (i - d.write) % F \in 0..(F - 1)
      <4>1. PICK x \in Int : x = i - d.write
        BY <1>4
      <4>2. x % F \in 0..(F - 1)
        BY <1>4, Around
      <4> QED BY <4>1, <4>2
    <3>2. PICK j \in 1..n : j = ((i - d.write) % F) + 1
      <4>1. PICK h \in 0..(F - 1) : h = (i - d.write) % F
        BY <3>1
      <4>2. h < n /\ n \in Nat /\ h \in Nat
        BY <1>4, <2>1, <4>1
      <4>3. h + 1 \in 1..n
        BY <4>2
      <4> QED BY <4>1, <4>3
    <3>3. d.burst[j] \in [p : 1..Len(w), at : 0..(Fifo - 1)]
      <4>1. PICK S : S = [p : 1..Len(w), at : 0..(Fifo - 1)]
        OBVIOUS
      <4>2. PICK b \in Seq(S) : b = d.burst
        BY <1>1, <4>1 DEF PicoDevs
      <4>3. b[j] \in S
        BY <1>2, <4>2
      <4> QED BY <4>1, <4>2, <4>3
    <3>4. [p : 1..Len(w), at : 0..(Fifo - 1)] \subseteq [p : 0..Len(w), at : 0..(Fifo - 1)]
      BY <1>4
    <3> QED BY <3>2, <3>3, <3>4
  <2>2. ASSUME NEW i \in 0..(F - 1) PROVE d.buf[i] \in [p : 0..Len(w), at : 0..(Fifo - 1)]
    BY <1>1 DEF PicoDevs
  <2> QED BY <1>6, <2>1, <2>2
<1>10. /\ e.buf = buf2 /\ e.level = d.level + n /\ e.read = d.read /\ e.write = m
       /\ e.burst = <<>> /\ e \in PicoDevs(Len(w))
  <2>1. <<>> \in PicoBytes(Len(w))
    BY DEF PicoBytes
  <2>2. buf2 \in PicoCells(Len(w))
    BY <1>9 DEF PicoCells
  <2>3. PicoIs([d EXCEPT !.buf = buf2, !.burst = <<>>, !.level = d.level + n, !.write = m],
               Len(w), buf2, d.level + n, d.read, m, <<>>)
    BY <1>1, <1>4, <2>1, <2>2, PicoFilled, Zenon
  <2> QED BY <1>7, <1>8, <2>3 DEF PicoIs
<1>11. InStep(m, d.read, d.level + n, F)
  <2>1. InStep(d.write, d.read, d.level, F)
    BY <1>1 DEF InStep
  <2> QED BY <1>4, <1>5, <2>1, WriteMoved
<1>12. BufferInv(buf2, d.read, d.level + n, <<>>, F, w, PicoSizes(w), u)
  <2>1. \A g \in 0..(F - 1) :
          buf2[g] = IF (g - d.write) % F < n THEN d.burst[((g - d.write) % F) + 1]
                    ELSE d.buf[g]
    BY <1>6
  <2>2. n \in 0..Len(d.burst)
    BY <1>2
  <2>3. BufferInv(buf2, d.read, d.level + n, SubSeq(d.burst, n + 1, Len(d.burst)), F, w,
                  PicoSizes(w), u)
    BY <1>1, <1>4, <2>1, <2>2, BufferFill
  <2> QED BY <1>8, <2>3
<1>13. Len(<<>>) =< Fifo
  BY PicoNat
<1> QED BY <1>2, <1>3, <1>10, <1>11, <1>12, <1>13 DEF PicoOK, InStep

\* usb_bulk_msg(), and the calls that leave it out.
LEMMA PicoTransfers ==
  ASSUME NEW d, NEW w, NEW u, PicoOK(d, w, u),
         NEW t \in IF Pico!HasRoom(d) THEN Pico!Transfers(d) ELSE {d}
  PROVE  PicoOK(t, w, u)
<1>1. CASE ~Pico!HasRoom(d)
  BY <1>1
<1>2. CASE Pico!HasRoom(d) /\ t = Pico!Enqueue(d, Len(d.burst))
  BY <1>2, PicoEnqueues
<1>3. CASE /\ d.faults # MaxFaults
           /\ \/ t = [d EXCEPT !.faults = @ + 1]
              \/ t = [d EXCEPT !.faults = @ + 1, !.burst = <<>>]
  <2>1. /\ d \in PicoDevs(Len(w)) /\ Len(d.burst) =< Fifo
        /\ (d.write - d.read - d.level) % Pico!FIFO_SIZE = 0
        /\ BufferInv(d.buf, d.read, d.level, d.burst, Pico!FIFO_SIZE, w, PicoSizes(w), u)
        /\ BufferInv(d.buf, d.read, d.level, <<>>, Pico!FIFO_SIZE, w, PicoSizes(w), u)
    BY DEF PicoOK
  <2>2. d.faults + 1 \in 0..MaxFaults
    <3>1. d.faults \in 0..MaxFaults
      BY <2>1 DEF PicoDevs
    <3>2. PICK x \in 0..MaxFaults : x = d.faults
      BY <3>1
    <3>3. x # MaxFaults
      BY <1>3, <3>2
    <3>4. x + 1 \in 0..MaxFaults
      BY <3>3, PicoNat
    <3> QED BY <3>2, <3>4
  <2>3. /\ t \in PicoDevs(Len(w)) /\ t.buf = d.buf /\ t.level = d.level /\ t.read = d.read
        /\ t.write = d.write /\ (t.burst = d.burst \/ t.burst = <<>>)
    <3>1. <<>> \in PicoBytes(Len(w))
      BY DEF PicoBytes
    <3>2. /\ PicoIs([d EXCEPT !.faults = d.faults + 1], Len(w), d.buf, d.level, d.read,
                    d.write, d.burst)
          /\ PicoIs([d EXCEPT !.faults = d.faults + 1, !.burst = <<>>], Len(w), d.buf,
                    d.level, d.read, d.write, <<>>)
      BY <2>1, <2>2, <3>1, PicoFailed, Zenon
    <3> QED BY <1>3, <3>2 DEF PicoIs
  <2>4. Len(<<>>) =< Fifo
    BY PicoNat
  <2> QED BY <2>1, <2>3, <2>4 DEF PicoOK
<1> QED BY <1>1, <1>2, <1>3 DEF Pico!Transfers

\* fifo_resync()
LEMMA PicoResyncs ==
  ASSUME NEW d, NEW w, NEW u, PicoOK(d, w, u), 4 < d.level
  PROVE  PicoOK(Pico!Resync(d), w, u)
<1>1. d \in PicoDevs(Len(w))
  BY DEF PicoOK
<1>2. CASE d.resync = 3
  <2>1. PicoOK(Pico!FifoReset(d), w, u)
    BY PicoResets
  <2>2. 0 \in 0..3
    OBVIOUS
  <2>3. PicoOK([Pico!FifoReset(d) EXCEPT !.resync = 0], w, u)
    BY <2>1, <2>2, PicoCounts
  <2> QED BY <1>2, <2>3 DEF Pico!Resync
<1>3. CASE d.resync # 3
  <2>1. PICK e : e = Pico!Dequeue(d, 2)
    OBVIOUS
  <2>2. 2 \in 0..d.level
    BY <1>1, PicoNat DEF PicoDevs
  <2>3. PicoOK(e, w, u)
    BY <2>1, <2>2, PicoDequeues
  <2>4. e.resync = d.resync
    BY <1>1, <2>1 DEF PicoDevs, Pico!Dequeue
  <2>5. PICK c \in 0..3 : c = d.resync
    BY <1>1 DEF PicoDevs
  <2>6. c + 1 \in 0..3
    BY <1>3, <2>5
  <2>7. PicoOK([e EXCEPT !.resync = c + 1], w, u)
    BY <2>3, <2>6, PicoCounts
  <2>8. Pico!Resync(d) = [e EXCEPT !.resync = c + 1]
    BY <1>3, <2>1, <2>4, <2>5 DEF Pico!Resync
  <2> QED BY <2>7, <2>8
<1> QED BY <1>2, <1>3

\* The packet at the head of the ring.
LEMMA PicoHead ==
  ASSUME NEW d, NEW w, NEW u, PicoOK(d, w, u), 4 < d.level, Pico!MagicAhead(d),
         NEW p, p = Pico!Cell(d, 0).p
  PROVE  /\ p \in 1..Len(w) /\ u < p /\ w[p] \in Nat
         /\ \A n \in 0..w[p] : Pico!H + n =< d.level => Pico!Copied(d, n) = p
<1> DEFINE F == Pico!FIFO_SIZE
<1>1. /\ d \in PicoDevs(Len(w)) /\ w \in Seq(Lens)
      /\ BufferInv(d.buf, d.read, d.level, <<>>, F, w, PicoSizes(w), u)
  BY DEF PicoOK, BufferInv
<1>2. PICK l \in 0..F : l = d.level
  BY <1>1 DEF PicoDevs
<1>3. p = d.buf[(d.read + 0) % F].p /\ d.buf[(d.read + 0) % F].at = 0
  BY DEF Pico!Cell, Pico!MagicAhead
<1>4. 0 < d.level
  BY <1>2, PicoNat
<1>5. /\ p \in 1..Len(w) /\ u < p
      /\ \A k \in 1..(PicoSizes(w)[p] - 1) :
           k < d.level => d.buf[(d.read + k) % F] = [p |-> p, at |-> k]
  BY <1>1, <1>3, <1>4, BufferHead
<1>6. w[p] \in Lens
  BY <1>1, <1>5
<1>7. w[p] \in Nat /\ PicoSizes(w)[p] = Pico!H + w[p]
  BY <1>5, <1>6, PicoNat DEF PicoSizes
<1>8. ASSUME NEW n \in 0..w[p], Pico!H + n =< d.level
      PROVE  Pico!Copied(d, n) = p
  <2>1. ASSUME NEW i \in 0..(n - 1)
        PROVE  Pico!Cell(d, Pico!H + i) = [p |-> p, at |-> Pico!H + i]
    <3>1. Pico!H + i \in 1..((Pico!H + w[p]) - 1) /\ Pico!H + i < l
      BY <1>2, <1>7, <1>8, PicoNat
    <3>2. d.buf[(d.read + (Pico!H + i)) % F] = [p |-> p, at |-> Pico!H + i]
      BY <1>2, <1>5, <1>7, <3>1
    <3> QED BY <3>2 DEF Pico!Cell
  <2> QED BY <2>1 DEF Pico!Copied
<1> QED BY <1>5, <1>7, <1>8

\* What a call takes out of the ring.
PicoTakes(r) ==
  /\ PicoOK(r.st, wire, IF r.up = 0 THEN up ELSE r.up)
  /\ r.up = 0 \/ r.up \in (up + 1)..Len(wire)

\* picowifi_recv() once the transfer is done.
LEMMA PicoExtracts ==
  ASSUME NEW d, PicoOK(d, wire, up)
  PROVE  PicoTakes(Pico!Extract(d))
<1> DEFINE p == Pico!Cell(d, 0).p
           n == wire[p]
           size == IF Dest < n THEN Dest ELSE n
           d0 == [d EXCEPT !.resync = 0]
<1>1. d \in PicoDevs(Len(wire)) /\ wire \in Seq(Lens) /\ Pico!H = 4 /\ up \in Nat
  BY PicoNat DEF PicoOK, BufferInv
<1>2. PICK l \in Nat : l = d.level
  BY <1>1, PicoNat DEF PicoDevs
<1>3. CASE l =< 4
  <2>1. Pico!Extract(d) = [st |-> d, up |-> 0]
    BY <1>1, <1>2, <1>3 DEF Pico!Extract
  <2> QED BY <2>1 DEF PicoTakes
<1>4. CASE ~(l =< 4) /\ ~Pico!MagicAhead(d)
  <2>1. Pico!Extract(d) = [st |-> Pico!Resync(d), up |-> 0]
    BY <1>1, <1>2, <1>4 DEF Pico!Extract
  <2>2. 4 < d.level
    BY <1>2, <1>4
  <2>3. PicoOK(Pico!Resync(d), wire, up)
    BY <2>2, PicoResyncs
  <2> QED BY <2>1, <2>3 DEF PicoTakes
<1>5. CASE ~(l =< 4) /\ Pico!MagicAhead(d) /\ d.level < Pico!H + n
  <2>1. Pico!Extract(d) = [st |-> d0, up |-> 0]
    BY <1>1, <1>2, <1>5 DEF Pico!Extract
  <2>2. 0 \in 0..3
    OBVIOUS
  <2>3. PicoOK(d0, wire, up)
    BY <2>2, PicoCounts
  <2> QED BY <2>1, <2>3 DEF PicoTakes
<1>6. CASE ~(l =< 4) /\ Pico!MagicAhead(d) /\ ~(d.level < Pico!H + n)
  <2>1. /\ p \in 1..Len(wire) /\ up < p /\ n \in Nat
        /\ \A m \in 0..n : Pico!H + m =< d.level => Pico!Copied(d, m) = p
    <3>1. 4 < d.level
      BY <1>2, <1>6
    <3> QED BY <1>6, <3>1, PicoHead
  <2>2. /\ size \in 0..n /\ 4 + size =< l /\ 4 \in 0..l /\ size \in 0..(l - 4)
    BY <1>1, <1>2, <1>6, <2>1, DriverAssumption DEF DriverAssumption
  <2>3. Pico!Copied(d, size) = p
    BY <1>1, <1>2, <2>1, <2>2
  <2>4. PICK d1 : d1 = Pico!Dequeue(d0, 4)
    OBVIOUS
  <2>5. PICK d2 : d2 = Pico!Dequeue(d1, size)
    OBVIOUS
  <2>6. PICK c : c = (d2.cut \/ size < n)
    OBVIOUS
  <2>7. PicoOK(d0, wire, up) /\ d0.level = l /\ Pico!Cell(d0, 0) = Pico!Cell(d, 0)
    <3>1. d0.level = l /\ d0.buf = d.buf /\ d0.read = d.read
      BY <1>1, <1>2 DEF PicoDevs
    <3>2. 0 \in 0..3
      OBVIOUS
    <3>3. PicoOK(d0, wire, up)
      BY <3>2, PicoCounts
    <3> QED BY <3>1, <3>3 DEF Pico!Cell
  <2>8. PicoOK(d1, wire, p) /\ d1.level = l - 4
    <3>1. Pico!Cell(d0, 0).at = 0 /\ 4 > 0
      BY <1>6, <2>7 DEF Pico!MagicAhead
    <3>2. PicoOK(d1, wire, p)
      BY <2>2, <2>4, <2>7, <3>1, PicoDequeues
    <3>3. d0 \in PicoDevs(Len(wire))
      BY <2>7 DEF PicoOK
    <3>4. d1.level = d0.level - 4
      BY <2>4, <3>3 DEF PicoDevs, Pico!Dequeue
    <3> QED BY <2>7, <3>2, <3>4
  <2>9. PicoOK(d2, wire, p)
    <3>1. size \in 0..d1.level
      BY <2>2, <2>8
    <3> QED BY <2>5, <2>8, <3>1, PicoDequeues
  <2>10. d2 \in PicoDevs(Len(wire)) /\ c \in BOOLEAN
    BY <2>6, <2>9 DEF PicoOK
  <2>11. PicoOK([d2 EXCEPT !.cut = c], wire, p)
    <3>1. 0 \in 0..3 /\ c \in BOOLEAN
      BY <2>10
    <3> QED BY <2>9, <3>1, PicoCounts
  <2>12. Pico!Extract(d) = [st |-> [d2 EXCEPT !.cut = c], up |-> p]
    BY <1>1, <1>2, <1>6, <2>3, <2>4, <2>5, <2>6, <2>10 DEF Pico!Extract
  <2>13. p # 0 /\ p \in (up + 1)..Len(wire)
    BY <1>1, <2>1
  <2> QED BY <2>11, <2>12, <2>13 DEF PicoTakes
<1> QED BY <1>3, <1>4, <1>5, <1>6

\* picowifi_recv()
LEMMA PicoReceives ==
  ASSUME Received, PicoInv, Pico!Recv
  PROVE  Received' /\ PicoInv' /\ (Promise!HandUp \/ UNCHANGED <<wire, up>>)
<1>1. PICK t \in IF Pico!HasRoom(dev) THEN Pico!Transfers(dev) ELSE {dev} :
        /\ dev' = Pico!Extract(t).st
        /\ up' = IF Pico!Extract(t).up = 0 THEN up ELSE Pico!Extract(t).up
        /\ wire' = wire
  BY DEF Pico!Recv
<1>2. PicoOK(t, wire, up)
  BY <1>1, PicoTransfers DEF PicoInv
<1>3. PicoTakes(Pico!Extract(t))
  BY <1>2, PicoExtracts
<1>4. PicoInv' /\ (up' = up \/ up' \in (up + 1)..Len(wire))
  BY <1>1, <1>3 DEF PicoTakes, PicoInv
<1>5. Received'
  BY <1>1, <1>4 DEF Received
<1>6. Promise!HandUp \/ UNCHANGED <<wire, up>>
  BY <1>1, <1>4 DEF Promise!HandUp
<1> QED BY <1>4, <1>5, <1>6

-----------------------------------------------------------------------------
(* The steps of the ASIX adapter and its driver.                            *)

LEMMA EvenSum ==
  ASSUME NEW a \in Int, NEW b \in Int, a % 2 = 0, b % 2 = 0
  PROVE  (a + b) % 2 = 0 /\ (a - b) % 2 = 0
OBVIOUS

LEMMA AsixNat ==
  /\ Urb \in Nat \ {0} /\ Urb % 2 = 0 /\ Asix!End = 2 * Urb /\ Asix!End \in Nat \ {0}
  /\ Asix!H = 4 /\ MaxFaults \in Nat
BY DriverAssumption DEF DriverAssumption, Asix!End, Asix!H

\* A packet with its header and its padding fits into a half of the buffer.
LEMMA AsixPadded ==
  ASSUME NEW n \in Lens
  PROVE  /\ n \in Nat /\ n % 2 \in {0, 1} /\ Asix!Padded(n) = n + (n % 2)
         /\ Asix!Padded(n) % 2 = 0
         /\ Asix!H + Asix!Padded(n) =< Urb /\ Asix!H + Asix!Padded(n) \in Nat \ {0}
         /\ (Asix!H + Asix!Padded(n)) % 2 = 0
<1>1. n \in Nat /\ n =< Urb - 4
  BY DriverAssumption DEF DriverAssumption
<1>2. Urb \in Nat /\ Urb % 2 = 0
  BY AsixNat
<1>3. n % 2 \in {0, 1}
  BY <1>1
<1>4. (n + (n % 2)) % 2 = 0 /\ (4 + (n + (n % 2))) % 2 = 0
  BY <1>1
<1>5. 4 + (n + (n % 2)) =< Urb /\ 4 + (n + (n % 2)) \in Nat \ {0}
  BY <1>1, <1>2, <1>3
<1> QED BY <1>1, <1>3, <1>4, <1>5, AsixNat DEF Asix!Padded

LEMMA AsixSizesType ==
  ASSUME NEW w \in Seq(Lens), NEW n \in Lens
  PROVE  /\ AsixSizes(Append(w, n)) \in [1..(Len(w) + 1) -> Nat]
         /\ \A p \in 1..Len(w) : AsixSizes(Append(w, n))[p] = AsixSizes(w)[p]
         /\ AsixSizes(Append(w, n))[Len(w) + 1] = Asix!H + Asix!Padded(n)
<1>1. /\ Len(w) \in Nat
      /\ Append(w, n) \in Seq(Lens) /\ Len(Append(w, n)) = Len(w) + 1
      /\ \A p \in 1..Len(w) : Append(w, n)[p] = w[p]
      /\ Append(w, n)[Len(w) + 1] = n
      /\ \A p \in 1..(Len(w) + 1) : Append(w, n)[p] \in Lens
  OBVIOUS
<1>2. \A x \in Lens : Asix!H + Asix!Padded(x) \in Nat
  BY AsixPadded
<1>3. \A p \in 1..(Len(w) + 1) : Asix!H + Asix!Padded(Append(w, n)[p]) \in Nat
  BY <1>1, <1>2
<1> QED BY <1>1, <1>3 DEF AsixSizes

LEMMA AsixSizesAre == ASSUME NEW w \in Seq(Lens)
                      PROVE  AsixSizes(w) \in [1..Len(w) -> Nat]
<1>1. \A x \in Lens : Asix!H + Asix!Padded(x) \in Nat
  BY AsixPadded
<1>2. \A p \in 1..Len(w) : Asix!H + Asix!Padded(w[p]) \in Nat
  BY <1>1
<1> QED BY <1>2 DEF AsixSizes

LEMMA AsixStart ==
  ASSUME NEW w \in Seq(Lens), NEW u \in 0..Len(w), NEW d, d = Asix!Start
  PROVE  AsixOK(d, w, u)
<1>1. Len(w) \in Nat
  OBVIOUS
<1>2. [p |-> 0, at |-> 0] \in [p : 0..Len(w), at : 0..(Urb - 1)]
  BY <1>1, AsixNat
<1>3. /\ 0 \in 0..Asix!End /\ 0 \in 0..MaxFaults
      /\ <<>> \in Seq([p : 1..Len(w), at : 0..(Urb - 1)]) /\ Len(<<>>) = 0
  BY AsixNat
<1>4. d \in AsixDevs(Len(w))
  BY <1>2, <1>3 DEF AsixDevs, Asix!Start, Asix!Nobyte
<1>5. /\ d.burst = <<>> /\ d.left = 0 /\ d.fill = 0 /\ d.empty = 0
  BY DEF Asix!Start
<1>6. InStep(0, 0, 0, Asix!End) /\ 0 % 2 = 0
  BY AsixNat DEF InStep
<1>7. BufferInv(d.buf, 0, 0, <<>>, Asix!End, w, AsixSizes(w), u)
  BY <1>1, AsixNat, AsixSizesAre, BufferStart
<1> QED BY <1>3, <1>4, <1>5, <1>6, <1>7 DEF AsixOK

LEMMA AsixTypeOK == AsixInv => Asix!TypeOK
BY DEF AsixInv, AsixOK, AsixDevs, Asix!TypeOK

LEMMA AsixArrives ==
  ASSUME Received, AsixInv, Asix!Arrive
  PROVE  Received' /\ AsixInv' /\ Promise!Arrive
<1>1. PICK n \in Lens :
        /\ wire' = Append(wire, n)
        /\ dev' = [dev EXCEPT !.burst = @ \o Asix!Bytes(Len(wire) + 1, n)]
  BY DEF Asix!Arrive
<1>2. up' = up
  BY DEF Asix!Arrive
<1>3. /\ Len(wire) \in Nat /\ wire' \in Seq(Lens) /\ Len(wire') = Len(wire) + 1
      /\ wire \in Seq(Lens) /\ up \in 0..Len(wire)
  BY <1>1, WireAppend DEF Received
<1>4. Received'
  BY <1>2, <1>3 DEF Received
<1>5. Promise!Arrive
  BY <1>1, <1>2 DEF Promise!Arrive
<1>6. PICK s \in Nat \ {0} : s = Asix!H + Asix!Padded(n) /\ s =< Urb /\ s % 2 = 0
  BY AsixPadded
<1>7. PICK more : more = [i \in 1..s |-> [p |-> Len(wire) + 1, at |-> i - 1]]
  OBVIOUS
<1>8. Asix!Bytes(Len(wire) + 1, n) = more
  BY <1>6, <1>7 DEF Asix!Bytes
<1>9. /\ dev \in AsixDevs(Len(wire))
      /\ BufferInv(dev.buf, dev.empty, dev.left, dev.burst, Asix!End, wire,
                   AsixSizes(wire), up)
      /\ dev.empty % 2 = 0 /\ dev.left % 2 = 0 /\ Len(dev.burst) % 2 = 0
      /\ ~dev.end => InStep(dev.fill, dev.empty, dev.left, Asix!End)
  BY DEF AsixInv, AsixOK
<1>10. /\ dev'.buf = dev.buf /\ dev'.empty = dev.empty /\ dev'.left = dev.left
       /\ dev'.fill = dev.fill /\ dev'.end = dev.end /\ dev'.burst = dev.burst \o more
       /\ dev' = [dev EXCEPT !.burst = dev.burst \o more]
  BY <1>1, <1>8, <1>9 DEF AsixDevs
<1>11. /\ AsixSizes(wire') \in [1..(Len(wire) + 1) -> Nat]
       /\ \A p \in 1..Len(wire) : AsixSizes(wire')[p] = AsixSizes(wire)[p]
       /\ AsixSizes(wire')[Len(wire) + 1] = s
  BY <1>1, <1>3, <1>6, AsixSizesType
<1>12. BufferInv(dev'.buf, dev'.empty, dev'.left, dev'.burst, Asix!End, wire',
                 AsixSizes(wire'), up')
  <2>1. BufferInv(dev.buf, dev.empty, dev.left, dev.burst \o more, Asix!End,
                  Append(wire, n), AsixSizes(wire'), up)
    BY <1>7, <1>9, <1>11, BufferArrive, Zenon
  <2> QED BY <1>1, <1>2, <1>10, <2>1
<1>13. /\ dev'.burst \in Seq([p : 1..Len(wire'), at : 0..(Urb - 1)])
       /\ Len(dev'.burst) % 2 = 0
  <2>1. dev.burst \in Seq([p : 1..Len(wire), at : 0..(Urb - 1)])
    BY <1>9 DEF AsixDevs
  <2>2. PICK A : A = [p : 1..Len(wire), at : 0..(Urb - 1)]
    OBVIOUS
  <2>3. dev.burst \in Seq([p : 1..Len(wire'), at : 0..(Urb - 1)])
    <3>1. PICK B : B = [p : 1..Len(wire'), at : 0..(Urb - 1)]
      OBVIOUS
    <3>2. A \subseteq B
      BY <1>3, <2>2, <3>1
    <3>3. dev.burst \in Seq(A)
      BY <2>1, <2>2
    <3>4. dev.burst \in Seq(B)
      BY <3>2, <3>3, SeqWider, Zenon
    <3> QED BY <3>1, <3>4
  <2>4. \A i \in 1..s : [p |-> Len(wire) + 1, at |-> i - 1] \in [p : 1..Len(wire'), at : 0..(Urb - 1)]
    <3> TAKE i \in 1..s
    <3>1. i - 1 \in 0..(Urb - 1)
      BY <1>6, AsixNat
    <3>2. Len(wire) + 1 \in 1..Len(wire')
      BY <1>3
    <3> QED BY <3>1, <3>2
  <2>5. more \in [1..s -> [p : 1..Len(wire'), at : 0..(Urb - 1)]]
    BY <1>7, <2>4
  <2>6. PICK S : S = [p : 1..Len(wire'), at : 0..(Urb - 1)]
    OBVIOUS
  <2>7. /\ dev.burst \o more \in Seq([p : 1..Len(wire'), at : 0..(Urb - 1)])
        /\ Len(dev.burst \o more) = Len(dev.burst) + s /\ Len(dev.burst) \in Nat
    <3>1. dev.burst \in Seq(S) /\ more \in [1..s -> S] /\ s \in Nat
      BY <1>6, <2>3, <2>5, <2>6
    <3>2. dev.burst \o more \in Seq(S)
          /\ Len(dev.burst \o more) = Len(dev.burst) + s /\ Len(dev.burst) \in Nat
      BY <3>1, Joined
    <3> QED BY <2>6, <3>2
  <2>8. (Len(dev.burst) + s) % 2 = 0
    <3>1. PICK b \in Nat : b = Len(dev.burst) /\ b % 2 = 0
      BY <1>9, <2>7
    <3>2. s \in Int /\ b \in Int /\ s % 2 = 0
      BY <1>6, <3>1
    <3>3. (b + s) % 2 = 0
      BY <3>1, <3>2, EvenSum
    <3> QED BY <3>1, <3>3
  <2> QED BY <1>10, <2>7, <2>8
<1>14. dev' \in AsixDevs(Len(wire'))
  <2>1. dev.buf \in [0..(Asix!End - 1) -> [p : 0..Len(wire'), at : 0..(Urb - 1)]]
    <3>1. [p : 0..Len(wire), at : 0..(Urb - 1)] \subseteq [p : 0..Len(wire'), at : 0..(Urb - 1)]
      BY <1>3
    <3> QED BY <1>9, <3>1 DEF AsixDevs
  <2> QED BY <1>9, <1>10, <1>13, <2>1 DEF AsixDevs
<1> QED BY <1>4, <1>5, <1>9, <1>10, <1>12, <1>13, <1>14 DEF AsixInv, AsixOK

\* "out:", after the first n bytes of the burst are lost.
LEMMA AsixResets ==
  ASSUME NEW d, NEW w, NEW u, AsixOK(d, w, u), NEW n \in 0..Len(d.burst), n % 2 = 0
  PROVE  AsixOK(Asix!Reset([d EXCEPT !.burst = SubSeq(@, n + 1, Len(@))]), w, u)
<1>1. /\ d \in AsixDevs(Len(w)) /\ Len(d.burst) % 2 = 0
      /\ BufferInv(d.buf, d.empty, d.left, d.burst, Asix!End, w, AsixSizes(w), u)
  BY DEF AsixOK
<1>2. PICK S : S = [p : 1..Len(w), at : 0..(Urb - 1)]
  OBVIOUS
<1>3. PICK rest : rest = SubSeq(d.burst, n + 1, Len(d.burst))
  OBVIOUS
<1>4. PICK b \in Nat : b = Len(d.burst) /\ b % 2 = 0 /\ n \in 0..b /\ n \in Int /\ b \in Int
  <2>1. PICK b \in Nat : b = Len(d.burst)
    BY <1>1 DEF AsixDevs
  <2>2. n \in 0..b /\ n \in Int /\ b \in Int
    BY <2>1
  <2> QED BY <1>1, <2>1, <2>2
<1>5. rest \in Seq(S) /\ Len(rest) = b - n
  <2>1. d.burst \in Seq(S)
    BY <1>1, <1>2 DEF AsixDevs
  <2> QED BY <1>3, <1>4, <2>1, Rest
<1>6. PICK e : e = Asix!Reset([d EXCEPT !.burst = SubSeq(@, n + 1, Len(@))])
  OBVIOUS
<1>7. 0 \in {0, Urb} /\ 0 \in 0..Asix!End
  BY AsixNat
<1>8. e = [d EXCEPT !.burst = rest, !.end = FALSE, !.left = 0, !.fill = 0, !.empty = 0]
  BY <1>1, <1>3, <1>6 DEF AsixDevs, Asix!Reset
<1>9. /\ e \in AsixDevs(Len(w)) /\ e.buf = d.buf /\ e.empty = 0 /\ e.left = 0
      /\ e.fill = 0 /\ e.burst = rest
  BY <1>1, <1>2, <1>5, <1>7, <1>8 DEF AsixDevs
<1>10. BufferInv(d.buf, 0, 0, rest, Asix!End, w, AsixSizes(w), u)
  BY <1>1, <1>3, <1>7, BufferEmpty
<1>11. InStep(0, 0, 0, Asix!End) /\ 0 % 2 = 0
  BY AsixNat DEF InStep
<1>12. Len(rest) % 2 = 0
  <2>1. (b - n) % 2 = 0
    BY <1>4, EvenSum
  <2> QED BY <1>5, <2>1
<1>13. AsixOK(e, w, u)
  BY <1>9, <1>10, <1>11, <1>12 DEF AsixOK
<1> QED BY <1>6, <1>13

\* "out:", with nothing lost that the adapter still has.
LEMMA AsixGivesUp ==
  ASSUME NEW d, NEW w, NEW u, AsixOK(d, w, u)
  PROVE  AsixOK(Asix!Reset(d), w, u)
<1>1. d \in AsixDevs(Len(w))
  BY DEF AsixOK
<1>2. 0 \in 0..Len(d.burst) /\ 0 % 2 = 0 /\ SubSeq(d.burst, 0 + 1, Len(d.burst)) = d.burst
  BY <1>1 DEF AsixDevs
<1>3. PICK e : e = [d EXCEPT !.burst = SubSeq(@, 0 + 1, Len(@))]
  OBVIOUS
<1>4. AsixOK(Asix!Reset(e), w, u)
  BY <1>2, <1>3, AsixResets
<1>5. e = d
  BY <1>1, <1>2, <1>3 DEF AsixDevs
<1> QED BY <1>4, <1>5

\* What the driver counts has no part in it.
LEMMA AsixCounts ==
  ASSUME NEW d, NEW w, NEW u, AsixOK(d, w, u), NEW b \in BOOLEAN
  PROVE  /\ AsixOK([d EXCEPT !.beyond = b], w, u)
         /\ d.faults # MaxFaults => AsixOK([d EXCEPT !.faults = @ + 1], w, u)
<1>1. d \in AsixDevs(Len(w))
  BY DEF AsixOK
<1>2. ASSUME NEW e, e \in AsixDevs(Len(w)), e.buf = d.buf, e.left = d.left,
             e.empty = d.empty, e.fill = d.fill, e.burst = d.burst, e.end = d.end
      PROVE  AsixOK(e, w, u)
  BY <1>2 DEF AsixOK
<1>3. AsixOK([d EXCEPT !.beyond = b], w, u)
  <2>1. PICK e : e = [d EXCEPT !.beyond = b]
    OBVIOUS
  <2>2. /\ e \in AsixDevs(Len(w)) /\ e.buf = d.buf /\ e.left = d.left
        /\ e.empty = d.empty /\ e.fill = d.fill /\ e.burst = d.burst /\ e.end = d.end
    BY <1>1, <2>1 DEF AsixDevs
  <2> QED BY <1>2, <2>1, <2>2
<1>4. ASSUME d.faults # MaxFaults PROVE AsixOK([d EXCEPT !.faults = @ + 1], w, u)
  <2>1. PICK x \in 0..MaxFaults : x = d.faults
    BY <1>1 DEF AsixDevs
  <2>2. x + 1 \in 0..MaxFaults
    BY <1>4, <2>1, AsixNat
  <2>3. PICK e : e = [d EXCEPT !.faults = @ + 1]
    OBVIOUS
  <2>4. e = [d EXCEPT !.faults = x + 1]
    BY <2>1, <2>3
  <2>5. /\ e \in AsixDevs(Len(w)) /\ e.buf = d.buf /\ e.left = d.left
        /\ e.empty = d.empty /\ e.fill = d.fill /\ e.burst = d.burst /\ e.end = d.end
    BY <1>1, <2>2, <2>4 DEF AsixDevs
  <2> QED BY <1>2, <2>3, <2>5
<1> QED BY <1>3, <1>4

\* Place g of a buffer of N is one of the n from f on, seen from f.
OneOf(f, n, g, N) ==
  /\ g \in f..(f + n - 1) => (g - f) % N = g - f /\ g - f < n
  /\ ~(g \in f..(f + n - 1)) => ~((g - f) % N < n)

LEMMA HalfPlace ==
  ASSUME NEW U \in Nat \ {0}, NEW N \in Nat \ {0}, N = 2 * U,
         NEW f \in {0, U}, NEW n \in 0..U, NEW g \in 0..(N - 1)
  PROVE  OneOf(f, n, g, N)
<1>1. PICK x \in Int : x = g - f
  OBVIOUS
<1>2. /\ 0 =< x /\ x < N => x % N = x
      /\ -N =< x /\ x < 0 => x % N = x + N
  BY Around
<1>3. /\ g \in f..(f + n - 1) => x % N = x /\ x < n
      /\ ~(g \in f..(f + n - 1)) => ~(x % N < n)
  BY <1>1, <1>2
<1> QED BY <1>1, <1>3 DEF OneOf

\* usb_bulk_msg() into a half of the buffer.
LEMMA AsixFills ==
  ASSUME NEW d, NEW w, NEW u, AsixOK(d, w, u), Asix!NeedsRead(d),
         NEW n \in 0..Len(d.burst), n % 2 = 0, n =< Urb
  PROVE  AsixOK(Asix!Filled(d, n), w, u)
<1> DEFINE N == Asix!End
<1>1. /\ d \in AsixDevs(Len(w)) /\ Len(d.burst) % 2 = 0 /\ d.empty % 2 = 0
      /\ d.left % 2 = 0 /\ ~d.end
      /\ InStep(d.fill, d.empty, d.left, N)
      /\ BufferInv(d.buf, d.empty, d.left, d.burst, N, w, AsixSizes(w), u)
  BY DEF AsixOK, Asix!NeedsRead
<1>2. PICK S : S = [p : 1..Len(w), at : 0..(Urb - 1)]
  OBVIOUS
<1>3. PICK rest : rest = SubSeq(d.burst, n + 1, Len(d.burst))
  OBVIOUS
<1>4. PICK b \in Nat : /\ b = Len(d.burst) /\ b % 2 = 0 /\ n \in 0..b /\ n \in 0..Urb
                      /\ n \in Int /\ b \in Int
  <2>1. PICK b \in Nat : b = Len(d.burst)
    BY <1>1 DEF AsixDevs
  <2>2. n \in 0..b /\ n \in Int /\ b \in Int
    BY <2>1
  <2>3. n \in 0..Urb
    BY <2>2, AsixNat
  <2> QED BY <1>1, <2>1, <2>2, <2>3
<1>5. d.burst \in Seq(S) /\ rest \in Seq(S) /\ Len(rest) = b - n
  <2>1. d.burst \in Seq(S)
    BY <1>1, <1>2 DEF AsixDevs
  <2> QED BY <1>3, <1>4, <2>1, Rest
<1>6. PICK f \in {0, Urb} : f = d.fill
  BY <1>1 DEF AsixDevs
<1>7. PICK l \in 0..Urb : l = d.left /\ l % 2 = 0
  <2>1. d.left \in 0..N /\ d.left <= Urb /\ d.left % 2 = 0
    BY <1>1 DEF AsixDevs, Asix!NeedsRead
  <2>2. PICK l \in 0..N : l = d.left /\ l <= Urb
    BY <2>1
  <2>3. l \in 0..Urb
    BY <2>2, AsixNat
  <2> QED BY <2>1, <2>2, <2>3
<1>8. PICK buf2 : buf2 = [i \in 0..(N - 1) |->
                            IF i \in f..(f + n - 1) THEN d.burst[i - f + 1] ELSE d.buf[i]]
  OBVIOUS
<1>9. PICK f2 : f2 = Asix!OtherHalf(f)
  OBVIOUS
<1>10. /\ f2 \in {0, Urb} /\ f2 \in 0..N /\ f \in 0..N /\ l \in 0..N /\ n \in 0..N
       /\ l + n =< N /\ l + n \in 0..N /\ n \in Nat
       /\ f2 = f + Urb \/ f2 = f + Urb - N
  BY <1>4, <1>9, AsixNat DEF Asix!OtherHalf
<1>11. PICK e : e = Asix!Filled(d, n)
  OBVIOUS
<1>12. PICK c \in BOOLEAN : c = (n < Urb) /\ (c <=> n < Urb)
  <2>1. (n < Urb) \in BOOLEAN
    OBVIOUS
  <2> QED BY <2>1, Zenon
<1>13. e = [d EXCEPT !.buf = buf2, !.burst = rest, !.fill = f2, !.left = l + n, !.end = c]
  <2>1. buf2 = [i \in 0..(N - 1) |-> IF i \in d.fill..(d.fill + n - 1)
                                    THEN d.burst[i - d.fill + 1] ELSE d.buf[i]]
    BY <1>6, <1>8
  <2>2. e = [d EXCEPT !.buf = buf2, !.burst = rest, !.fill = f2, !.left = d.left + n,
                      !.end = n < Urb]
    BY <1>1, <1>3, <1>6, <1>9, <1>11, <2>1 DEF Asix!Filled, AsixDevs
  <2> QED BY <1>7, <1>12, <2>2
<1>14. \A g \in 0..(N - 1) :
         buf2[g] = IF (g - f) % N < n THEN d.burst[((g - f) % N) + 1] ELSE d.buf[g]
  <2>1. ASSUME NEW g \in 0..(N - 1)
        PROVE  buf2[g] = IF (g - f) % N < n THEN d.burst[((g - f) % N) + 1] ELSE d.buf[g]
    <3>1. Urb \in Nat \ {0} /\ N \in Nat \ {0} /\ N = 2 * Urb
      BY AsixNat
    <3>2. OneOf(f, n, g, N)
      BY <1>4, <3>1, HalfPlace
    <3> QED BY <1>8, <3>2 DEF OneOf
  <2> QED BY <2>1
<1>15. buf2 \in [0..(N - 1) -> [p : 0..Len(w), at : 0..(Urb - 1)]]
  <2>1. ASSUME NEW i \in 0..(N - 1), i \in f..(f + n - 1)
        PROVE  d.burst[i - f + 1] \in [p : 0..Len(w), at : 0..(Urb - 1)]
    <3>1. PICK j \in 1..b : j = i - f + 1
      <4>1. f \in Nat /\ n \in Nat /\ b \in Nat /\ n =< b
        BY <1>4, <1>6, AsixNat
      <4>2. i - f + 1 \in 1..b
        BY <2>1, <4>1
      <4> QED BY <4>2
    <3>2. d.burst[j] \in S
      BY <1>4, <1>5
    <3>3. Len(w) \in Nat
      BY <1>1 DEF BufferInv
    <3>4. [p : 1..Len(w), at : 0..(Urb - 1)] \subseteq [p : 0..Len(w), at : 0..(Urb - 1)]
      BY <3>3
    <3> QED BY <1>2, <3>1, <3>2, <3>4
  <2>2. ASSUME NEW i \in 0..(N - 1) PROVE d.buf[i] \in [p : 0..Len(w), at : 0..(Urb - 1)]
    BY <1>1 DEF AsixDevs
  <2> QED BY <1>8, <2>1, <2>2
<1>16. /\ e.buf = buf2 /\ e.burst = rest /\ e.fill = f2 /\ e.left = l + n
       /\ e.end = c /\ e.empty = d.empty
       /\ e \in AsixDevs(Len(w))
  BY <1>1, <1>2, <1>5, <1>10, <1>13, <1>15 DEF AsixDevs
<1>17. BufferInv(buf2, d.empty, l + n, rest, N, w, AsixSizes(w), u)
  <2>1. (f - d.empty - l) % N = 0
    BY <1>1, <1>6, <1>7 DEF InStep
  <2>2. BufferInv(d.buf, d.empty, l, d.burst, N, w, AsixSizes(w), u)
    BY <1>1, <1>7
  <2> QED BY <1>3, <1>10, <1>14, <2>1, <2>2, BufferFill
<1>18. ~(n < Urb) => InStep(f2, d.empty, l + n, N)
  <2>1. ASSUME ~(n < Urb) PROVE f2 = f + n \/ f2 = f + n - N
    BY <1>4, <1>10, <2>1, AsixNat
  <2>2. InStep(f, d.empty, l, N)
    BY <1>1, <1>6, <1>7
  <2>3. N \in Nat \ {0} /\ d.empty \in 0..N
    BY <1>1, AsixNat DEF AsixDevs
  <2> QED BY <1>10, <2>1, <2>2, <2>3, WriteMoved
<1>19. (l + n) % 2 = 0 /\ (b - n) % 2 = 0
  <2>1. l \in Int
    BY <1>7, AsixNat
  <2> QED BY <1>4, <1>7, <2>1, EvenSum
<1>20. AsixOK(e, w, u)
  BY <1>1, <1>5, <1>16, <1>17, <1>18, <1>19, <1>12 DEF AsixOK
<1> QED BY <1>11, <1>20

\* Where a packet with its header and its padding ends, s bytes from e on; y is
\* where its bytes begin.
IsBehind(e, s, z, N) == z \in 0..N /\ (z = e + s \/ z = e + s - N) /\ z % 2 = 0

LEMMA BehindIs ==
  ASSUME NEW N \in Nat \ {0}, N % 2 = 0, NEW e \in 0..(N - 1), e % 2 = 0,
         NEW n \in Nat, NEW h \in {0, 1}, h = n % 2, 4 + (n + h) =< N,
         NEW y \in Nat, y = IF e + 4 < N THEN e + 4 ELSE e + 4 - N,
         NEW z, z = (IF y + n - N > 0 THEN y + n - N ELSE y + n) + h
  PROVE  IsBehind(e, 4 + (n + h), z, N)
<1>1. (n + h) % 2 = 0
  OBVIOUS
<1>2. y % 2 = 0
  <2>1. (e + 4) % 2 = 0 /\ (e + 4 - N) % 2 = 0
    OBVIOUS
  <2> QED BY <2>1
<1>3. (y + (n + h)) % 2 = 0 /\ ((y + (n + h)) - N) % 2 = 0
  BY <1>1, <1>2
<1>4. y + n # N \/ h = 0
  <2>1. CASE y + n = N
    <3>1. n = N - y /\ (N - y) % 2 = 0
      BY <1>2, <2>1
    <3> QED BY <3>1
  <2> QED BY <2>1
<1>5. (z = y + (n + h) /\ z =< N) \/ z = (y + (n + h)) - N
  BY <1>4
<1>6. z % 2 = 0
  BY <1>3, <1>5
<1>7. y = e + 4 \/ y = e + 4 - N
  OBVIOUS
<1>8. z \in 0..N /\ (z = e + (4 + (n + h)) \/ z = e + (4 + (n + h)) - N)
  BY <1>4, <1>7
<1> QED BY <1>6, <1>8 DEF IsBehind

\* The packet whose header is at the head of the buffer.
AsixAhead(d, w, u, p) ==
  /\ p = Asix!HeaderByte(d, 0).p /\ p \in 1..Len(w) /\ u < p /\ w[p] \in Lens
  /\ d.empty \in 0..(Asix!End - 1)
  /\ d.buf[(d.empty + 0) % Asix!End].p = p /\ d.buf[(d.empty + 0) % Asix!End].at = 0
  /\ \A k \in 1..((Asix!H + Asix!Padded(w[p])) - 1) :
       k < d.left => d.buf[(d.empty + k) % Asix!End] = [p |-> p, at |-> k]

LEMMA AsixHead ==
  ASSUME NEW d, NEW w, NEW u, AsixOK(d, w, u), 0 < d.left, Asix!WellFormed(d)
  PROVE  AsixAhead(d, w, u, Asix!HeaderByte(d, 0).p)
<1> DEFINE N == Asix!End
           p == Asix!HeaderByte(d, 0).p
<1>1. /\ d \in AsixDevs(Len(w)) /\ w \in Seq(Lens)
      /\ BufferInv(d.buf, d.empty, d.left, d.burst, N, w, AsixSizes(w), u)
  BY DEF AsixOK, BufferInv
<1>2. 0 \in 0..(Asix!H - 1)
  BY AsixNat
<1>3. Asix!HeaderByte(d, 0) = [p |-> p, at |-> 0] /\ p # 0
  BY <1>2 DEF Asix!WellFormed
<1>4. d.empty # N
  BY <1>3 DEF Asix!HeaderByte, Asix!Nobyte
<1>5. d.empty \in 0..(N - 1)
  <2>1. PICK e \in 0..N : e = d.empty
    BY <1>1 DEF AsixDevs
  <2>2. e \in 0..(N - 1)
    BY <1>4, <2>1, AsixNat
  <2> QED BY <2>1, <2>2
<1>6. d.buf[(d.empty + 0) % N] = Asix!HeaderByte(d, 0)
  BY <1>4 DEF Asix!HeaderByte
<1>7. p = d.buf[(d.empty + 0) % N].p /\ d.buf[(d.empty + 0) % N].at = 0
  BY <1>3, <1>6
<1>8. /\ p \in 1..Len(w) /\ u < p
      /\ \A k \in 1..(AsixSizes(w)[p] - 1) :
           k < d.left => d.buf[(d.empty + k) % N] = [p |-> p, at |-> k]
  BY <1>1, <1>7, BufferHead
<1>9. w[p] \in Lens /\ AsixSizes(w)[p] = Asix!H + Asix!Padded(w[p])
  BY <1>1, <1>8 DEF AsixSizes
<1> QED BY <1>5, <1>7, <1>8, <1>9 DEF AsixAhead

\* What is left of the buffer when the packet ahead is taken out of it: s bytes with
\* its header and its padding.
AsixLess(d, t, s) ==
  /\ t.buf = d.buf /\ t.burst = d.burst /\ t.end = d.end /\ t.left = d.left - s
  /\ t.faults = d.faults /\ t.beyond = d.beyond
  /\ s \in 1..d.left /\ t.left \in 0..Asix!End /\ t.left % 2 = 0
  /\ t.empty \in 0..Asix!End /\ (t.empty = d.empty + s \/ t.empty = d.empty + s - Asix!End)
  /\ t.empty % 2 = 0
  /\ t = [d EXCEPT !.empty = t.empty, !.left = t.left]

LEMMA AsixBehind ==
  ASSUME NEW d, NEW w, NEW u, AsixOK(d, w, u), NEW p, AsixAhead(d, w, u, p),
         NEW n, n = w[p], n =< d.left - 4, 4 =< d.left
  PROVE  AsixLess(d, Asix!Taken(d, n), 4 + Asix!Padded(n))
<1> DEFINE N == Asix!End
<1>1. d \in AsixDevs(Len(w)) /\ d.empty % 2 = 0 /\ d.left % 2 = 0
  BY DEF AsixOK
<1>2. p \in 1..Len(w) /\ n \in Lens
  BY DEF AsixAhead
<1>3. PICK h \in {0, 1} : h = n % 2 /\ Asix!Padded(n) = n + h /\ n \in Nat
                         /\ 4 + (n + h) =< Urb /\ (4 + (n + h)) % 2 = 0
  <2>1. /\ n \in Nat /\ n % 2 \in {0, 1} /\ Asix!Padded(n) = n + (n % 2)
        /\ 4 + Asix!Padded(n) =< Urb /\ (4 + Asix!Padded(n)) % 2 = 0
    BY <1>2, AsixPadded, AsixNat
  <2>2. PICK h \in {0, 1} : h = n % 2
    BY <2>1
  <2> QED BY <2>1, <2>2
<1>4. PICK e \in 0..(N - 1) : e = d.empty /\ e % 2 = 0
  BY <1>1 DEF AsixAhead
<1>5. PICK l \in 0..N : l = d.left /\ l % 2 = 0
  BY <1>1 DEF AsixDevs
<1>6. n \in Nat /\ N \in Nat \ {0} /\ N = 2 * Urb /\ N % 2 = 0 /\ Urb \in Nat \ {0} /\ n > 0
  BY <1>2, AsixNat, DriverAssumption DEF DriverAssumption
<1>7. PICK m \in 1..l : m = 4 + (n + h) /\ m =< N /\ m % 2 = 0 /\ m \in 0..l
  <2>1. n =< l - 4 /\ 4 =< l
    BY <1>5
  <2>2. n + h =< l - 4
    <3>1. (l - 4) % 2 = 0
      BY <1>5
    <3>2. n = l - 4 => n % 2 = 0
      BY <3>1
    <3> QED BY <1>3, <1>5, <2>1, <3>2
  <2>4. 4 + (n + h) \in 1..l /\ 4 + (n + h) =< N
    <3>1. n + h \in Nat
      BY <1>3
    <3>2. PICK c \in Nat : c = n + h
      BY <3>1
    <3>3. c =< l - 4 /\ l \in 0..N
      BY <1>5, <2>2, <3>2
    <3>4. 4 + c \in 1..l /\ 4 + c =< N
      BY <1>6, <3>3
    <3> QED BY <3>2, <3>4
  <2> QED BY <1>3, <2>4
<1>8. PICK y \in 0..(N - 1) : y = Asix!Payload(d) /\ y = IF e + 4 < N THEN e + 4 ELSE e + 4 - N
  <2>1. 4 \in 0..(N - 1) /\ e \in 0..N /\ N \in Nat \ {0}
    BY <1>3, <1>6
  <2>2. PICK g : g = (e + 4) % N
    OBVIOUS
  <2>3. /\ g \in 0..(N - 1)
        /\ e + 4 < N => g = e + 4
        /\ ~(e + 4 < N) => g = e + 4 - N
    BY <2>1, <2>2, Place
  <2>4. e # N
    BY <1>6
  <2>5. Asix!Payload(d) = g
    BY <1>4, <2>2, <2>4, AsixNat DEF Asix!Payload
  <2> QED BY <2>3, <2>5
<1>9. PICK z : z = Asix!Behind(d, n)
  OBVIOUS
<1>10. z \in 0..N /\ (z = e + m \/ z = e + m - N) /\ z % 2 = 0
  <2>1. z = (IF y + n - N > 0 THEN y + n - N ELSE y + n) + h
    BY <1>3, <1>8, <1>9 DEF Asix!Behind
  <2>2. y \in Nat /\ 4 + (n + h) =< N
    BY <1>6, <1>7
  <2>3. IsBehind(e, 4 + (n + h), z, N)
    BY <1>3, <1>4, <1>6, <1>8, <2>1, <2>2, BehindIs
  <2> QED BY <1>7, <2>3 DEF IsBehind
<1>11. PICK t : t = Asix!Taken(d, n)
  OBVIOUS
<1>12. /\ t = [d EXCEPT !.empty = z, !.left = l - m] /\ l - m \in 0..N /\ (l - m) % 2 = 0
  <2>1. d.left - Asix!H - Asix!Padded(n) = l - m
    <3>1. (l - 4) - (n + h) = l - m
      BY <1>6, <1>7
    <3> QED BY <1>3, <1>5, <3>1, AsixNat
  <2>2. l - m \in 0..N
    <3>1. l \in 0..N /\ m \in 0..l /\ N \in Nat
      BY <1>5, <1>6, <1>7
    <3> QED BY <3>1
  <2>3. (l - m) % 2 = 0
    <3>1. l \in Int /\ m \in Int
      OBVIOUS
    <3> QED BY <1>5, <1>7, <3>1, EvenSum
  <2> QED BY <1>9, <1>11, <2>1, <2>2, <2>3 DEF Asix!Taken
<1>13. /\ t.buf = d.buf /\ t.burst = d.burst /\ t.end = d.end
       /\ t.empty = z /\ t.left = l - m /\ t.faults = d.faults /\ t.beyond = d.beyond
  BY <1>1, <1>12 DEF AsixDevs
<1>14. 4 + Asix!Padded(n) = m
  BY <1>3, <1>7
<1>15. AsixLess(d, t, m)
  BY <1>4, <1>5, <1>7, <1>10, <1>12, <1>13 DEF AsixLess
<1> QED BY <1>11, <1>14, <1>15

\* A packet is taken out of the buffer, to be handed up or not.
LEMMA AsixTakes ==
  ASSUME NEW d, NEW w, NEW u, AsixOK(d, w, u), NEW p, AsixAhead(d, w, u, p),
         NEW n, n = w[p], n =< d.left - 4, 4 =< d.left
  PROVE  /\ AsixOK(Asix!Taken(d, n), w, u) /\ AsixOK(Asix!Taken(d, n), w, p)
         /\ Asix!Copied(d, n) = p
<1> DEFINE N == Asix!End
<1>1. /\ d \in AsixDevs(Len(w)) /\ w \in Seq(Lens)
      /\ d.empty % 2 = 0 /\ d.left % 2 = 0 /\ Len(d.burst) % 2 = 0
      /\ ~d.end => InStep(d.fill, d.empty, d.left, N)
      /\ BufferInv(d.buf, d.empty, d.left, d.burst, N, w, AsixSizes(w), u)
  BY DEF AsixOK, BufferInv
<1>2. /\ p \in 1..Len(w) /\ u < p /\ n \in Lens
      /\ d.buf[(d.empty + 0) % N].p = p /\ d.buf[(d.empty + 0) % N].at = 0
      /\ p = Asix!HeaderByte(d, 0).p
      /\ \A k \in 1..((4 + Asix!Padded(n)) - 1) :
           k < d.left => d.buf[(d.empty + k) % N] = [p |-> p, at |-> k]
  BY AsixNat DEF AsixAhead
<1>3. PICK h \in {0, 1} : h = n % 2 /\ Asix!Padded(n) = n + h /\ n \in Nat
                         /\ 4 + (n + h) =< Urb /\ (4 + (n + h)) % 2 = 0
  <2>1. /\ n \in Nat /\ n % 2 \in {0, 1} /\ Asix!Padded(n) = n + (n % 2)
        /\ 4 + Asix!Padded(n) =< Urb /\ (4 + Asix!Padded(n)) % 2 = 0
    BY <1>2, AsixPadded, AsixNat
  <2>2. PICK h \in {0, 1} : h = n % 2
    BY <2>1
  <2> QED BY <2>1, <2>2
<1>4. PICK e \in 0..(N - 1) : e = d.empty
  BY <1>1 DEF AsixAhead
<1>5. PICK l \in 0..N : l = d.left
  BY <1>1 DEF AsixDevs
<1>6. n \in Nat /\ N \in Nat \ {0} /\ N = 2 * Urb /\ N % 2 = 0 /\ Urb \in Nat \ {0} /\ n > 0
  BY <1>2, AsixNat, DriverAssumption DEF DriverAssumption
<1>7. PICK y \in 0..(N - 1) : y = Asix!Payload(d) /\ y = IF e + 4 < N THEN e + 4 ELSE e + 4 - N
  <2>1. 4 \in 0..(N - 1) /\ e \in 0..N /\ N \in Nat \ {0}
    BY <1>3, <1>6
  <2>2. PICK g : g = (e + 4) % N
    OBVIOUS
  <2>3. /\ g \in 0..(N - 1)
        /\ e + 4 < N => g = e + 4
        /\ ~(e + 4 < N) => g = e + 4 - N
    BY <2>1, <2>2, Place
  <2>4. e # N
    BY <1>6
  <2>5. Asix!Payload(d) = g
    BY <1>4, <2>2, <2>4, AsixNat DEF Asix!Payload
  <2> QED BY <2>3, <2>5
<1>8. PICK t : t = Asix!Taken(d, n)
  OBVIOUS
<1>9. AsixLess(d, t, 4 + Asix!Padded(n))
  BY <1>8, AsixBehind
<1>10. PICK m \in 1..l : m = 4 + (n + h) /\ m \in 0..l /\ AsixLess(d, t, m)
  <2>1. 4 + Asix!Padded(n) \in 1..l
    BY <1>5, <1>9 DEF AsixLess
  <2>2. PICK m \in 1..l : m = 4 + Asix!Padded(n)
    BY <2>1
  <2> QED BY <1>3, <1>9, <2>2
<1>11. PICK z \in 0..N : z = t.empty /\ (z = e + m \/ z = e + m - N) /\ z % 2 = 0
  BY <1>4, <1>10 DEF AsixLess
<1>12. /\ t = [d EXCEPT !.empty = z, !.left = l - m] /\ l - m \in 0..N /\ (l - m) % 2 = 0
  BY <1>5, <1>10, <1>11 DEF AsixLess
<1>13. /\ t \in AsixDevs(Len(w)) /\ t.buf = d.buf /\ t.burst = d.burst /\ t.fill = d.fill
       /\ t.end = d.end /\ t.empty = z /\ t.left = l - m
  BY <1>1, <1>11, <1>12 DEF AsixDevs
<1>14. /\ BufferInv(d.buf, z, l - m, d.burst, N, w, AsixSizes(w), u)
       /\ BufferInv(d.buf, z, l - m, d.burst, N, w, AsixSizes(w), p)
  <2>1. BufferInv(d.buf, e, l, d.burst, N, w, AsixSizes(w), u)
    BY <1>1, <1>4, <1>5
  <2>2. BufferInv(d.buf, z, l - m, d.burst, N, w, AsixSizes(w), u)
    BY <1>10, <1>11, <2>1, BufferDrop
  <2>3. p \in 0..Len(w)
    BY <1>2
  <2>4. d.buf[(e + 0) % N].at = 0 /\ d.buf[(e + 0) % N].p \in 0..Len(w)
    BY <1>2, <1>4, <2>3
  <2>5. BufferInv(d.buf, z, l - m, d.burst, N, w, AsixSizes(w), d.buf[(e + 0) % N].p)
    BY <1>10, <1>11, <2>1, <2>4, BufferTake
  <2>6. d.buf[(e + 0) % N].p = p
    BY <1>2, <1>4
  <2> QED BY <2>2, <2>5, <2>6
<1>15. ~t.end => InStep(t.fill, z, l - m, N)
  <2>1. ASSUME ~d.end PROVE InStep(d.fill, z, l - m, N)
    <3>1. InStep(d.fill, e, l, N)
      BY <1>1, <1>4, <1>5, <2>1
    <3>2. d.fill \in 0..N /\ e \in 0..N /\ N \in Nat \ {0}
      <4>1. d.fill \in {0, Urb}
        BY <1>1 DEF AsixDevs
      <4>2. 0 \in 0..N /\ Urb \in 0..N /\ N \in Nat \ {0}
        BY <1>6
      <4>3. e \in 0..N
        BY <4>2
      <4> QED BY <4>1, <4>2, <4>3
    <3>3. l \in 0..N /\ m \in 0..l /\ z \in 0..N /\ (z = e + m \/ z = e + m - N)
      BY <1>5, <1>10, <1>11
    <3> QED BY <3>1, <3>2, <3>3, ReadMoved
  <2> QED BY <1>13, <2>1
<1>16. AsixOK(t, w, u) /\ AsixOK(t, w, p)
  BY <1>1, <1>11, <1>12, <1>13, <1>14, <1>15 DEF AsixOK
<1>17. Asix!Copied(d, n) = p
  <2>1. ASSUME NEW i \in 0..(n - 1)
        PROVE  Asix!Byte(d, i) = [p |-> p, at |-> Asix!H + i]
    <3>1. i \in Nat /\ i + 4 < N /\ 4 \in Nat /\ y \in 0..N /\ e \in 0..N
          /\ (y = e + 4 \/ y = e + 4 - N)
      BY <1>3, <1>6, <1>7
    <3>2. SamePlace(e, y, 4, i, N)
      BY <1>6, <3>1, PlaceFurther
    <3>3. i + 4 \in 1..((4 + (n + h)) - 1) /\ i + 4 < l
      BY <1>6, <1>10
    <3>4. d.buf[(e + (i + 4)) % N] = [p |-> p, at |-> i + 4]
      BY <1>2, <1>3, <1>4, <1>5, <3>3
    <3>5. Asix!H + i = i + 4
      BY <1>6, AsixNat
    <3> QED BY <1>7, <3>2, <3>4, <3>5 DEF Asix!Byte, SamePlace
  <2> QED BY <1>2, <2>1 DEF Asix!Copied
<1> QED BY <1>8, <1>16, <1>17

\* What a call takes out of the buffer.
AsixHands(r) ==
  /\ AsixOK(r.st, wire, IF r.up = 0 THEN up ELSE r.up)
  /\ r.up = 0 \/ r.up \in (up + 1)..Len(wire)

\* asix_recv() once the transfer is done.
LEMMA AsixExtracts ==
  ASSUME NEW d, AsixOK(d, wire, up)
  PROVE  AsixHands(Asix!Extract(d))
<1> DEFINE p == Asix!HeaderByte(d, 0).p
           n == wire[p]
<1>1. d \in AsixDevs(Len(wire)) /\ wire \in Seq(Lens) /\ Asix!H = 4 /\ up \in Nat
  BY AsixNat DEF AsixOK, BufferInv
<1>2. PICK l \in Nat : l = d.left
  BY <1>1, AsixNat DEF AsixDevs
<1>3. AsixOK(Asix!Reset(d), wire, up)
  BY AsixGivesUp
<1>4. CASE l < 4 \/ ~Asix!WellFormed(d)
  <2>1. PICK b \in BOOLEAN : b = (Asix!Reset(d).beyond \/ (d.left >= 4 /\ d.empty = Asix!End))
    <3>1. Asix!Reset(d).beyond \in BOOLEAN
      BY <1>3 DEF AsixOK, AsixDevs
    <3>2. (Asix!Reset(d).beyond \/ (d.left >= 4 /\ d.empty = Asix!End)) \in BOOLEAN
      BY <3>1
    <3> QED BY <3>2, Zenon
  <2>2. AsixOK([Asix!Reset(d) EXCEPT !.beyond = b], wire, up)
    BY <1>3, AsixCounts
  <2>3. Asix!Extract(d) = [st |-> [Asix!Reset(d) EXCEPT !.beyond = b], up |-> 0]
    BY <1>1, <1>2, <1>4, <2>1 DEF Asix!Extract
  <2> QED BY <2>2, <2>3 DEF AsixHands
<1>5. CASE ~(l < 4 \/ ~Asix!WellFormed(d))
  <2>1. AsixAhead(d, wire, up, p)
    <3>1. 0 < d.left
      BY <1>2, <1>5
    <3> QED BY <1>5, <3>1, AsixHead
  <2>2. /\ p \in 1..Len(wire) /\ up < p /\ n \in Lens
    BY <2>1 DEF AsixAhead
  <2>3. n \in Nat
    BY <2>2, AsixPadded
  <2>4. CASE n > l - 4
    <3>1. Asix!Extract(d) = [st |-> Asix!Reset(d), up |-> 0]
      BY <1>1, <1>2, <1>5, <2>4 DEF Asix!Extract
    <3> QED BY <1>3, <3>1 DEF AsixHands
  <2>5. CASE ~(n > l - 4)
    <3>1. n =< d.left - 4 /\ 4 =< d.left
      BY <1>2, <1>5, <2>3, <2>5
    <3>2. /\ AsixOK(Asix!Taken(d, n), wire, up) /\ AsixOK(Asix!Taken(d, n), wire, p)
          /\ Asix!Copied(d, n) = p
      BY <2>1, <3>1, AsixTakes
    <3>3. \/ Asix!Extract(d) = [st |-> Asix!Taken(d, n), up |-> 0]
          \/ Asix!Extract(d) = [st |-> Asix!Taken(d, n), up |-> p]
      BY <1>1, <1>2, <1>5, <2>5, <3>2 DEF Asix!Extract
    <3>4. p # 0 /\ p \in (up + 1)..Len(wire)
      BY <1>1, <2>2
    <3> QED BY <3>2, <3>3, <3>4 DEF AsixHands
  <2> QED BY <2>4, <2>5
<1> QED BY <1>4, <1>5

\* usb_bulk_msg(): what the buffer is like when it delivered, and when "out:" follows.
LEMMA AsixTransfers ==
  ASSUME NEW d, NEW w, NEW u, AsixOK(d, w, u), Asix!NeedsRead(d),
         NEW t \in Asix!Transfers(d)
  PROVE  AsixOK(IF t.ok THEN t.st ELSE Asix!Reset(t.st), w, u)
<1>1. d \in AsixDevs(Len(w)) /\ Len(d.burst) % 2 = 0
  BY DEF AsixOK
<1>2. PICK b \in Nat : b = Len(d.burst) /\ b % 2 = 0
  BY <1>1 DEF AsixDevs
<1>3. PICK n : n = IF Len(d.burst) < Urb THEN Len(d.burst) ELSE Urb
  OBVIOUS
<1>4. n \in 0..Len(d.burst) /\ n % 2 = 0 /\ n =< Urb
  <2>1. CASE b < Urb
    <3>1. n = b
      BY <1>2, <1>3, <2>1
    <3>2. b \in 0..b /\ b =< Urb
      BY <2>1, AsixNat
    <3> QED BY <1>2, <3>1, <3>2
  <2>2. CASE ~(b < Urb)
    <3>1. n = Urb
      BY <1>2, <1>3, <2>2
    <3>2. Urb \in 0..b /\ Urb % 2 = 0 /\ Urb =< Urb
      BY <2>2, AsixNat
    <3> QED BY <1>2, <3>1, <3>2
  <2> QED BY <2>1, <2>2
<1>5. 0 \in 0..Len(d.burst) /\ 0 % 2 = 0 /\ 0 =< Urb
  BY <1>2, AsixNat
<1>6. CASE t = [st |-> Asix!Filled(d, n), ok |-> TRUE]
  BY <1>4, <1>6, AsixFills
<1>7. CASE /\ d.faults # MaxFaults
           /\ t = [st |-> [Asix!Filled(d, 0) EXCEPT !.faults = @ + 1], ok |-> TRUE]
  <2>1. AsixOK(Asix!Filled(d, 0), w, u)
    BY <1>5, AsixFills
  <2>2. Asix!Filled(d, 0).faults = d.faults
    BY <1>1 DEF AsixDevs, Asix!Filled
  <2>3. FALSE \in BOOLEAN
    OBVIOUS
  <2>4. AsixOK([Asix!Filled(d, 0) EXCEPT !.faults = @ + 1], w, u)
    BY <1>7, <2>1, <2>2, <2>3, AsixCounts
  <2> QED BY <1>7, <2>4
<1>8. CASE /\ d.faults # MaxFaults
           /\ t = [st |-> [d EXCEPT !.faults = @ + 1], ok |-> FALSE]
  <2>1. AsixOK([d EXCEPT !.faults = @ + 1], w, u)
    BY <1>8, AsixCounts
  <2>2. AsixOK(Asix!Reset([d EXCEPT !.faults = @ + 1]), w, u)
    BY <2>1, AsixGivesUp
  <2> QED BY <1>8, <2>2
<1>9. CASE /\ d.faults # MaxFaults
           /\ t = [st |-> [d EXCEPT !.faults = @ + 1, !.burst = SubSeq(@, n + 1, Len(@))],
                   ok |-> FALSE]
  <2>1. PICK e : e = [d EXCEPT !.faults = @ + 1]
    OBVIOUS
  <2>2. AsixOK(e, w, u) /\ e.burst = d.burst
    <3>1. AsixOK(e, w, u)
      BY <1>9, <2>1, AsixCounts
    <3>2. e.burst = d.burst
      BY <1>1, <2>1 DEF AsixDevs
    <3> QED BY <3>1, <3>2
  <2>3. n \in 0..Len(e.burst)
    BY <1>4, <2>2
  <2>4. AsixOK(Asix!Reset([e EXCEPT !.burst = SubSeq(@, n + 1, Len(@))]), w, u)
    BY <1>4, <2>2, <2>3, AsixResets
  <2>5. t.st = [e EXCEPT !.burst = SubSeq(@, n + 1, Len(@))]
    BY <1>1, <1>9, <2>1 DEF AsixDevs
  <2> QED BY <1>9, <2>4, <2>5
<1> QED BY <1>3, <1>6, <1>7, <1>8, <1>9 DEF Asix!Transfers

\* asix_recv()
LEMMA AsixReceives ==
  ASSUME Received, AsixInv, Asix!Recv
  PROVE  Received' /\ AsixInv' /\ (Promise!HandUp \/ UNCHANGED <<wire, up>>)
<1>1. PICK t \in IF Asix!NeedsRead(dev) THEN Asix!Transfers(dev)
                 ELSE {[st |-> dev, ok |-> TRUE]} :
        /\ dev' = (IF t.ok THEN Asix!Extract(t.st)
                   ELSE [st |-> Asix!Reset(t.st), up |-> 0]).st
        /\ up' = LET r == IF t.ok THEN Asix!Extract(t.st)
                          ELSE [st |-> Asix!Reset(t.st), up |-> 0]
                 IN IF r.up = 0 THEN up ELSE r.up
        /\ wire' = wire
  BY DEF Asix!Recv
<1>2. AsixOK(IF t.ok THEN t.st ELSE Asix!Reset(t.st), wire, up)
  <2>1. CASE Asix!NeedsRead(dev)
    BY <1>1, <2>1, AsixTransfers DEF AsixInv
  <2>2. CASE ~Asix!NeedsRead(dev)
    BY <1>1, <2>2 DEF AsixInv
  <2> QED BY <2>1, <2>2
<1>3. AsixInv' /\ (up' = up \/ up' \in (up + 1)..Len(wire))
  <2>1. CASE t.ok
    <3>1. AsixHands(Asix!Extract(t.st))
      BY <1>2, <2>1, AsixExtracts
    <3> QED BY <1>1, <2>1, <3>1 DEF AsixHands, AsixInv
  <2>2. CASE ~t.ok
    BY <1>1, <1>2, <2>2 DEF AsixInv
  <2> QED BY <2>1, <2>2
<1>4. Received'
  BY <1>1, <1>3 DEF Received
<1>5. Promise!HandUp \/ UNCHANGED <<wire, up>>
  BY <1>1, <1>3 DEF Promise!HandUp
<1> QED BY <1>3, <1>4, <1>5

-----------------------------------------------------------------------------
(* The search for an adapter.                                               *)

\* Word k of the address is still to be read, by a command that has to succeed.
StillReads(todo, k) == \E i \in 1..Len(todo) : todo[i].must /\ k \in Usb!Words(todo[i].c)

\* As long as an adapter may be found, every word of its address is there or a
\* failure to read it will end the search.
Searching(s) ==
  /\ s.result \in {"busy", "asix", "picowifi"} =>
       \A k \in {1, 2, 3} : k \in s.mac \/ StillReads(s.todo, k)
  /\ s.result \in {"asix", "picowifi"} => s.todo = <<>>
  /\ s.result \in {"asix", "picowifi"} /\ s.given # "unset" => s.given = "whole"

SearchInv ==
  /\ mode \in {"setup", "over", "none", "asix", "picowifi", "rtl8019"}
  /\ Usb!SetupTypeOK
  /\ Usb!SetupDone => su.result \in {"asix", "picowifi", "nothing"}
  /\ mode \in {"asix", "picowifi"} => su.given = "whole"
  /\ mode = "setup" => Searching(su)

Commands == [c : Usb!CommandNames, must : BOOLEAN]

LEMMA ReadsJoined ==
  ASSUME NEW s \in Seq(Commands), NEW t \in Seq(Commands), NEW k,
         StillReads(s, k) \/ StillReads(t, k)
  PROVE  StillReads(s \o t, k)
<1>1. /\ Len(s \o t) = Len(s) + Len(t) /\ Len(s) \in Nat /\ Len(t) \in Nat
      /\ \A i \in 1..Len(s) : (s \o t)[i] = s[i]
      /\ \A i \in 1..Len(t) : (s \o t)[Len(s) + i] = t[i]
  OBVIOUS
<1>2. CASE StillReads(s, k)
  <2>1. PICK i \in 1..Len(s) : s[i].must /\ k \in Usb!Words(s[i].c)
    BY <1>2 DEF StillReads
  <2>2. i \in 1..Len(s \o t) /\ (s \o t)[i] = s[i]
    BY <1>1
  <2> QED BY <2>1, <2>2 DEF StillReads
<1>3. CASE StillReads(t, k)
  <2>1. PICK i \in 1..Len(t) : t[i].must /\ k \in Usb!Words(t[i].c)
    BY <1>3 DEF StillReads
  <2>2. Len(s) + i \in 1..Len(s \o t) /\ (s \o t)[Len(s) + i] = t[i]
    BY <1>1
  <2> QED BY <2>1, <2>2 DEF StillReads
<1> QED BY <1>2, <1>3

\* asix_mdio_read(), asix_mdio_write() and the two resets.
LEMMA Strung ==
  ASSUME NEW S, NEW a \in S, NEW b \in S, NEW c \in S
  PROVE  <<a>> \in Seq(S) /\ <<a, b>> \in Seq(S) /\ <<a, b, c>> \in Seq(S)
OBVIOUS

LEMMA StrungLong ==
  ASSUME NEW S, NEW a \in S, NEW b \in S, NEW c \in S, NEW d \in S, NEW e \in S,
         NEW f \in S, NEW g \in S, NEW h \in S, NEW i \in S, NEW j \in S
  PROVE  <<a, b, c, d, e, f, g, h, i, j>> \in Seq(S)
OBVIOUS

LEMMA StrungOn ==
  ASSUME NEW S, NEW s \in Seq(S), NEW t \in Seq(S)
  PROVE  s \o t \in Seq(S)
OBVIOUS

LEMMA InCommands ==
  ASSUME NEW c \in Usb!CommandNames
  PROVE  Usb!Must(c) \in Commands /\ Usb!Try(c) \in Commands
BY DEF Usb!Must, Usb!Try, Commands

LEMMA MdioCommands ==
  ASSUME NEW reg \in Usb!CommandNames
  PROVE  Usb!Mdio(reg) \in Seq(Commands)
<1>1. "sw_mii" \in Usb!CommandNames /\ "hw_mii" \in Usb!CommandNames
  BY DEF Usb!CommandNames
<1>2. Usb!Try("sw_mii") \in Commands /\ Usb!Try(reg) \in Commands /\ Usb!Try("hw_mii") \in Commands
  BY <1>1, InCommands
<1> QED BY <1>2, Strung DEF Usb!Mdio

LEMMA NwayCommands == Usb!NwayRestart \in Seq(Commands)
<1>1. "read BMCR" \in Usb!CommandNames /\ "write BMCR" \in Usb!CommandNames
  BY DEF Usb!CommandNames
<1>2. Usb!Mdio("read BMCR") \in Seq(Commands) /\ Usb!Mdio("write BMCR") \in Seq(Commands)
  BY <1>1, MdioCommands
<1> QED BY <1>2, StrungOn DEF Usb!NwayRestart

LEMMA ResetCommands ==
  Usb!BasicReset172 \in Seq(Commands) /\ Usb!BasicReset772 \in Seq(Commands)
<1>1. /\ "write BMCR" \in Usb!CommandNames /\ "write ADVERTISE" \in Usb!CommandNames
      /\ "gpio" \in Usb!CommandNames /\ "rx off" \in Usb!CommandNames
      /\ "phy id" \in Usb!CommandNames /\ "medium" \in Usb!CommandNames
      /\ "ipg" \in Usb!CommandNames /\ "phy select" \in Usb!CommandNames
      /\ "IPPD" \in Usb!CommandNames /\ "clear" \in Usb!CommandNames
      /\ "phy" \in Usb!CommandNames /\ "read rx" \in Usb!CommandNames
  BY DEF Usb!CommandNames
<1>2. /\ Usb!Mdio("write BMCR") \in Seq(Commands)
      /\ Usb!Mdio("write ADVERTISE") \in Seq(Commands)
  BY <1>1, MdioCommands
<1>3. /\ Usb!Gpio \in Commands /\ Usb!RxOff \in Commands /\ Usb!PhyAddr \in Commands
      /\ Usb!MediumMode \in Commands /\ Usb!Must("ipg") \in Commands
      /\ Usb!Must("phy select") \in Commands /\ Usb!SwReset("IPPD") \in Commands
      /\ Usb!SwReset("clear") \in Commands /\ Usb!SwReset("phy") \in Commands
      /\ Usb!ReadRxCtl \in Commands
  BY <1>1, InCommands
     DEF Usb!Gpio, Usb!RxOff, Usb!PhyAddr, Usb!MediumMode, Usb!SwReset, Usb!ReadRxCtl
<1>4. /\ <<Usb!Gpio, Usb!RxOff, Usb!PhyAddr>> \in Seq(Commands)
      /\ <<Usb!MediumMode>> \in Seq(Commands)
      /\ <<Usb!MediumMode, Usb!Must("ipg")>> \in Seq(Commands)
  BY <1>3, Strung
<1>5. <<Usb!Gpio, Usb!PhyAddr, Usb!Must("phy select"),
        Usb!SwReset("IPPD"), Usb!SwReset("clear"), Usb!SwReset("phy"),
        Usb!ReadRxCtl, Usb!RxOff, Usb!ReadRxCtl, Usb!PhyAddr>> \in Seq(Commands)
  BY <1>3, StrungLong
<1>6. Usb!BasicReset172 \in Seq(Commands)
  BY <1>2, <1>4, NwayCommands, StrungOn DEF Usb!BasicReset172
<1>7. Usb!BasicReset772 \in Seq(Commands)
  BY <1>2, <1>4, <1>5, NwayCommands, StrungOn DEF Usb!BasicReset772
<1> QED BY <1>6, <1>7

\* The list asix_eth_get_info() works through reads the whole address.
LEMMA InfoReads ==
  ASSUME NEW kind
  PROVE  /\ Usb!AsixInfo(kind) \in Seq(Commands)
         /\ \A k \in {1, 2, 3} : StillReads(Usb!AsixInfo(kind), k)
<1>1. PICK s \in Seq(Commands) :
        s = IF kind = "172" THEN Usb!BasicReset172 ELSE Usb!BasicReset772
  BY ResetCommands
<1>2. PICK t : t = Usb!ReadMac(kind)
  OBVIOUS
<1>3. t \in Seq(Commands) /\ \A k \in {1, 2, 3} : StillReads(t, k)
  <2>0. /\ "mac" \in Usb!CommandNames /\ "mac 1" \in Usb!CommandNames
        /\ "mac 2" \in Usb!CommandNames /\ "mac 3" \in Usb!CommandNames
    BY DEF Usb!CommandNames
  <2>1. CASE kind = "772B"
    <3>1. PICK a \in Commands : a = Usb!Must("mac 1") /\ a.must /\ a.c = "mac 1"
      BY <2>0, InCommands DEF Usb!Must
    <3>2. PICK b \in Commands : b = Usb!Must("mac 2") /\ b.must /\ b.c = "mac 2"
      BY <2>0, InCommands DEF Usb!Must
    <3>3. PICK c \in Commands : c = Usb!Must("mac 3") /\ c.must /\ c.c = "mac 3"
      BY <2>0, InCommands DEF Usb!Must
    <3>4. t = <<a, b, c>>
      BY <1>2, <2>1, <3>1, <3>2, <3>3 DEF Usb!ReadMac
    <3>5. t \in Seq(Commands)
      BY <3>4, Strung
    <3>6. Len(t) = 3 /\ t[1] = a /\ t[2] = b /\ t[3] = c
      BY <3>4
    <3>7. 1 \in Usb!Words(a.c) /\ 2 \in Usb!Words(b.c) /\ 3 \in Usb!Words(c.c)
      BY <3>1, <3>2, <3>3 DEF Usb!Words
    <3>8. StillReads(t, 1)
      <4>1. 1 \in 1..Len(t)
        BY <3>6
      <4>2. t[1].must /\ 1 \in Usb!Words(t[1].c)
        BY <3>1, <3>6, <3>7, Zenon
      <4> QED BY <4>1, <4>2, Zenon DEF StillReads
    <3>9. StillReads(t, 2)
      <4>1. 2 \in 1..Len(t)
        BY <3>6
      <4>2. t[2].must /\ 2 \in Usb!Words(t[2].c)
        BY <3>2, <3>6, <3>7, Zenon
      <4> QED BY <4>1, <4>2, Zenon DEF StillReads
    <3>10. StillReads(t, 3)
      <4>1. 3 \in 1..Len(t)
        BY <3>6
      <4>2. t[3].must /\ 3 \in Usb!Words(t[3].c)
        BY <3>3, <3>6, <3>7, Zenon
      <4> QED BY <4>1, <4>2, Zenon DEF StillReads
    <3> QED BY <3>5, <3>8, <3>9, <3>10
  <2>2. CASE kind # "772B"
    <3>1. PICK a \in Commands : a = Usb!Must("mac") /\ a.must /\ a.c = "mac"
      BY <2>0, InCommands DEF Usb!Must
    <3>2. t = <<a>>
      BY <1>2, <2>2, <3>1 DEF Usb!ReadMac
    <3>3. t \in Seq(Commands)
      BY <3>2, Strung
    <3>4. Len(t) = 1 /\ t[1] = a
      BY <3>2
    <3>5. {1, 2, 3} \subseteq Usb!Words(a.c)
      BY <3>1 DEF Usb!Words
    <3> QED BY <3>1, <3>3, <3>4, <3>5 DEF StillReads
  <2> QED BY <2>1, <2>2
<1>4. Usb!AsixInit \in Seq(Commands)
  <2>1. "rx on" \in Usb!CommandNames
    BY DEF Usb!CommandNames
  <2> QED BY <2>1, InCommands, Strung DEF Usb!AsixInit
<1>5. s \o t \in Seq(Commands)
  BY <1>1, <1>3
<1>6. \A k \in {1, 2, 3} : StillReads(s \o t, k)
  BY <1>1, <1>3, ReadsJoined
<1>7. PICK a \in Seq(Commands) : a = Usb!AsixInit
  BY <1>4
<1>8. (s \o t) \o a \in Seq(Commands)
  BY <1>5, <1>7
<1>9. \A k \in {1, 2, 3} : StillReads((s \o t) \o a, k)
  BY <1>5, <1>6, <1>7, ReadsJoined
<1>10. Usb!AsixInfo(kind) = (s \o t) \o a
  BY <1>1, <1>2, <1>7 DEF Usb!AsixInfo
<1> QED BY <1>8, <1>9, <1>10

LEMMA NothingRead == \A k : ~StillReads(<<>>, k)
BY DEF StillReads

\* The head of the list, or one of the commands behind it.
LEMMA HeadOrTail ==
  ASSUME NEW todo \in Seq(Commands), todo # <<>>, NEW k, StillReads(todo, k)
  PROVE  \/ Head(todo).must /\ k \in Usb!Words(Head(todo).c)
         \/ StillReads(Tail(todo), k)
<1>1. PICK i \in 1..Len(todo) : todo[i].must /\ k \in Usb!Words(todo[i].c)
  BY DEF StillReads
<1>2. CASE i = 1
  <2>1. todo[1] = Head(todo)
    OBVIOUS
  <2> QED BY <1>1, <1>2, <2>1
<1>3. CASE i # 1
  <2>1. i - 1 \in 1..Len(Tail(todo)) /\ Tail(todo)[i - 1] = todo[i]
    BY <1>3
  <2>2. Tail(todo)[i - 1].must /\ k \in Usb!Words(Tail(todo)[i - 1].c)
    BY <1>1, <2>1
  <2> QED BY <2>1, <2>2, Zenon DEF StillReads
<1> QED BY <1>2, <1>3

\* The list of picowifi_eth_get_info().
LEMMA PicoCommands == ASSUME NEW cred \in Usb!Credentials
                      PROVE  Usb!PicoInit(cred) \in Seq(Commands)
<1>1. "ssid" \in Usb!CommandNames /\ "passwd" \in Usb!CommandNames /\ "connect" \in Usb!CommandNames
  BY DEF Usb!CommandNames
<1>2. /\ Usb!Try("ssid") \in Commands /\ Usb!Try("passwd") \in Commands
      /\ Usb!Try("connect") \in Commands
  BY <1>1, InCommands
<1>3. /\ <<>> \in Seq(Commands) /\ <<Usb!Try("ssid"), Usb!Try("connect")>> \in Seq(Commands)
      /\ <<Usb!Try("ssid"), Usb!Try("passwd"), Usb!Try("connect")>> \in Seq(Commands)
  BY <1>2, Strung
<1> QED BY <1>3 DEF Usb!PicoInit, Usb!Credentials

LEMMA SearchProbes ==
  ASSUME SearchInv, mode = "setup", mode' = mode, ~Usb!SetupDone, Usb!Probe
  PROVE  SearchInv'
<1>1. /\ Usb!SetupTypeOK /\ su.result = "start" /\ su.given = "unset"
  BY DEF SearchInv, Usb!SetupDone, Usb!Probe
<1>2. PICK kind \in Dongles :
        \/ kind \in {"172", "772", "772B"} /\ Usb!AsixProbe(kind)
        \/ kind = "picowifi" /\ Usb!PicoProbe(kind)
        \/ kind \in {"other", "none"} /\ su' = Usb!Refused(kind)
  BY DEF Usb!Probe
<1>3. CASE su' = Usb!Refused(kind)
  <2>1. Usb!SetupTypeOK' /\ su'.result = "nothing" /\ su'.given = "unset"
    BY <1>1, <1>2, <1>3 DEF Usb!SetupTypeOK, Usb!Refused
  <2> QED BY <2>1 DEF SearchInv, Searching, Usb!SetupDone
<1>4. ASSUME NEW mac \in SUBSET {1, 2, 3}, NEW todo \in Seq(Commands),
             su' = Usb!Taken(kind, mac, todo),
             \A k \in {1, 2, 3} : k \in mac \/ StillReads(todo, k)
      PROVE  SearchInv'
  <2>1. /\ Usb!SetupTypeOK' /\ su'.result = "busy" /\ su'.given = "unset"
        /\ su'.mac = mac /\ su'.todo = todo
    BY <1>1, <1>2, <1>4 DEF Usb!SetupTypeOK, Usb!Taken, Commands
  <2> QED BY <1>4, <2>1 DEF SearchInv, Searching, Usb!SetupDone
<1>5. CASE su' = Usb!Taken(kind, {}, Usb!AsixInfo(kind))
  <2>1. {} \in SUBSET {1, 2, 3}
    OBVIOUS
  <2> QED BY <1>4, <1>5, <2>1, InfoReads
<1>6. ASSUME NEW cred \in Usb!Credentials,
             su' = Usb!Taken(kind, {1, 2, 3}, Usb!PicoInit(cred))
      PROVE  SearchInv'
  <2>1. {1, 2, 3} \in SUBSET {1, 2, 3}
    OBVIOUS
  <2> QED BY <1>4, <1>6, <2>1, PicoCommands
<1> QED BY <1>2, <1>3, <1>5, <1>6 DEF Usb!AsixProbe, Usb!PicoProbe

\* The states of the search, and what a command changes in one.
Setups == [kind : Dongles \cup {"none"}, todo : Seq(Commands), mac : SUBSET {1, 2, 3},
           rx : {"on", "off"}, link : BOOLEAN, polls : 0..Polls,
           result : {"start", "busy", "asix", "picowifi", "nothing"},
           given : {"unset", "none", "zero", "part", "whole"}]

CommandedOf(s, r, todo, result, mac) ==
  /\ r \in Setups /\ r.todo = todo /\ r.result = result /\ r.mac = mac /\ r.given = s.given

LEMMA Commanded ==
  ASSUME NEW s \in Setups, NEW todo \in Seq(Commands), NEW result \in {"busy", "nothing"},
         NEW mac \in SUBSET {1, 2, 3}, NEW rx \in {"on", "off"}, NEW polls \in 0..Polls
  PROVE  CommandedOf(s, [s EXCEPT !.todo = todo, !.result = result, !.mac = mac, !.rx = rx,
                                  !.polls = polls], todo, result, mac)
BY DEF Setups, CommandedOf

LEMMA SetupsAre == Usb!SetupTypeOK <=> su \in Setups
BY DEF Usb!SetupTypeOK, Setups, Commands

LEMMA SearchCommands ==
  ASSUME SearchInv, mode = "setup", mode' = mode, ~Usb!SetupDone, Usb!Command
  PROVE  SearchInv'
<1> DEFINE c == Head(su.todo)
<1>1. /\ Usb!SetupTypeOK /\ su.result = "busy" /\ su.todo # <<>> /\ su.given = "unset"
      /\ \A k \in {1, 2, 3} : k \in su.mac \/ StillReads(su.todo, k)
  BY DEF SearchInv, Searching, Usb!SetupDone, Usb!Command
<1>2. su.todo \in Seq(Commands) /\ Tail(su.todo) \in Seq(Commands) /\ <<>> \in Seq(Commands)
  BY <1>1 DEF Usb!SetupTypeOK, Commands
<1>3. PICK ok \in BOOLEAN :
        su' = [su EXCEPT
            !.todo = IF ok \/ ~c.must THEN Tail(@) ELSE <<>>,
            !.result = IF ok \/ ~c.must THEN @ ELSE "nothing",
            !.mac = IF ok THEN @ \cup Usb!Words(c.c) ELSE @,
            !.rx = IF ~ok THEN @ ELSE IF c.c = "rx on" THEN "on"
                   ELSE IF c.c = "rx off" THEN "off" ELSE @,
            !.polls = IF c.c = "rx on" /\ ~ok THEN Polls ELSE @]
  BY DEF Usb!Command
<1>4. PICK todo2 \in Seq(Commands) : todo2 = IF ok \/ ~c.must THEN Tail(su.todo) ELSE <<>>
  BY <1>2
<1>5. PICK mac2 \in SUBSET {1, 2, 3} : mac2 = IF ok THEN su.mac \cup Usb!Words(c.c) ELSE su.mac
  <2>1. su.mac \in SUBSET {1, 2, 3} /\ Usb!Words(c.c) \in SUBSET {1, 2, 3}
    BY <1>1 DEF Usb!SetupTypeOK, Usb!Words
  <2> QED BY <2>1
<1>6. PICK rx2 \in {"on", "off"} :
        rx2 = IF ~ok THEN su.rx ELSE IF c.c = "rx on" THEN "on"
              ELSE IF c.c = "rx off" THEN "off" ELSE su.rx
  BY <1>1 DEF Usb!SetupTypeOK
<1>7. PICK polls2 \in 0..Polls : polls2 = IF c.c = "rx on" /\ ~ok THEN Polls ELSE su.polls
  <2>1. su.polls \in 0..Polls /\ Polls \in 0..Polls
    BY <1>1, DriverAssumption DEF DriverAssumption, Usb!SetupTypeOK
  <2> QED BY <2>1
<1>8. PICK res \in {"busy", "nothing"} : res = IF ok \/ ~c.must THEN su.result ELSE "nothing"
  BY <1>1
<1>9. su' = [su EXCEPT !.todo = todo2, !.result = res, !.mac = mac2, !.rx = rx2,
                       !.polls = polls2]
  BY <1>1, <1>3, <1>4, <1>5, <1>6, <1>7, <1>8 DEF Usb!SetupTypeOK
<1>10. /\ Usb!SetupTypeOK' /\ su'.todo = todo2 /\ su'.result = res /\ su'.mac = mac2
       /\ su'.given = "unset"
  <2>1. CommandedOf(su, su', todo2, res, mac2)
    <3>1. su \in Setups
      BY <1>1, SetupsAre
    <3> QED BY <1>9, <3>1, Commanded, Zenon
  <2>2. Usb!SetupTypeOK'
    <3>1. su' \in Setups
      BY <2>1 DEF CommandedOf
    <3> QED BY <3>1 DEF Usb!SetupTypeOK, Setups, Commands
  <2> QED BY <1>1, <2>1, <2>2, Zenon DEF CommandedOf
<1>11. ASSUME res = "busy", NEW k \in {1, 2, 3} PROVE k \in mac2 \/ StillReads(todo2, k)
  <2>1. (ok \/ ~c.must) /\ todo2 = Tail(su.todo)
    BY <1>4, <1>8, <1>11
  <2>2. su.mac \subseteq mac2
    BY <1>5
  <2>3. CASE k \in su.mac
    BY <2>2, <2>3
  <2>4. CASE StillReads(su.todo, k)
    <3>1. (c.must /\ k \in Usb!Words(c.c)) \/ StillReads(Tail(su.todo), k)
      BY <1>1, <1>2, <2>4, HeadOrTail
    <3>2. CASE c.must /\ k \in Usb!Words(c.c)
      <4>1. ok
        BY <2>1, <3>2
      <4> QED BY <1>5, <3>2, <4>1
    <3> QED BY <2>1, <3>1, <3>2
  <2> QED BY <1>1, <2>3, <2>4
<1> QED BY <1>10, <1>11 DEF SearchInv, Searching, Usb!SetupDone

\* The link is asked for, the device found, the address copied.
LEMMA SearchEnds ==
  ASSUME SearchInv, mode = "setup", mode' = mode, ~Usb!SetupDone,
         Usb!AskLink \/ Usb!GotInfo \/ Usb!GiveUp \/ Usb!CopyMac
  PROVE  SearchInv'
<1>1. Usb!SetupTypeOK /\ su.given = "unset" /\ Searching(su)
  BY DEF SearchInv, Usb!SetupDone
<1>2. CASE Usb!AskLink
  <2>1. PICK link \in BOOLEAN : su' = [su EXCEPT !.link = link, !.polls = @ + 1]
    BY <1>2 DEF Usb!AskLink
  <2>2. su.polls + 1 \in 0..Polls
    <3>1. PICK x \in 0..Polls : x = su.polls
      BY <1>1 DEF Usb!SetupTypeOK
    <3>2. x < Polls /\ Polls \in Nat
      BY <1>2, <3>1, DriverAssumption DEF DriverAssumption, Usb!AskLink
    <3>3. x + 1 \in 0..Polls
      BY <3>2
    <3> QED BY <3>1, <3>3
  <2>3. /\ Usb!SetupTypeOK' /\ su'.result = su.result /\ su'.mac = su.mac
        /\ su'.todo = su.todo /\ su'.given = su.given
    BY <1>1, <2>1, <2>2 DEF Usb!SetupTypeOK
  <2> QED BY <1>1, <2>3 DEF SearchInv, Searching, Usb!SetupDone
<1>3. CASE Usb!GotInfo
  <2>1. su.result = "busy" /\ su.todo = <<>>
    BY <1>3 DEF Usb!GotInfo
  <2>2. /\ Usb!SetupTypeOK' /\ su'.result \in {"asix", "picowifi"} /\ su'.mac = su.mac
        /\ su'.todo = su.todo /\ su'.given = su.given
    BY <1>1, <1>3 DEF Usb!SetupTypeOK, Usb!GotInfo
  <2> QED BY <1>1, <2>1, <2>2 DEF SearchInv, Searching, Usb!SetupDone
<1>4. CASE Usb!CopyMac
  <2>1. PICK g \in {"zero", "part", "whole"} :
          /\ g = CASE su.mac = {} -> "zero" [] su.mac = {1, 2, 3} -> "whole"
                   [] OTHER -> "part"
          /\ su' = [su EXCEPT !.given = g]
    BY <1>4 DEF Usb!CopyMac
  <2>2. /\ Usb!SetupTypeOK' /\ su'.result = su.result /\ su'.mac = su.mac
        /\ su'.todo = su.todo /\ su'.given = g
    BY <1>1, <2>1 DEF Usb!SetupTypeOK
  <2>3. su.result \in {"asix", "picowifi", "nothing"}
    BY <1>4 DEF Usb!CopyMac
  <2>4. ASSUME su.result \in {"asix", "picowifi"} PROVE g = "whole"
    <3>1. \A k \in {1, 2, 3} : k \in su.mac
      BY <1>1, <2>4, NothingRead DEF Searching
    <3>2. su.mac = {1, 2, 3}
      BY <1>1, <3>1 DEF Usb!SetupTypeOK
    <3> QED BY <2>1, <3>2
  <2> QED BY <1>1, <2>2, <2>3, <2>4 DEF SearchInv, Searching, Usb!SetupDone
<1>5. CASE Usb!GiveUp
  <2>1. /\ Usb!SetupTypeOK' /\ su'.result = "nothing" /\ su'.mac = su.mac
        /\ su'.todo = su.todo /\ su'.given = "none"
    BY <1>1, <1>5 DEF Usb!SetupTypeOK, Usb!GiveUp
  <2> QED BY <1>1, <2>1 DEF SearchInv, Searching, Usb!SetupDone
<1> QED BY <1>2, <1>3, <1>4, <1>5

LEMMA SearchDone ==
  ASSUME SearchInv, Ready
  PROVE  SearchInv' /\ mode' \in {"over", "none", "asix", "picowifi"}
<1>1. /\ Usb!SetupTypeOK /\ Searching(su) /\ su.given # "unset"
      /\ su.result \in {"asix", "picowifi", "nothing"}
  BY DEF SearchInv, Usb!SetupDone, Ready
<1>2. /\ mode' = IF su.given = "none" THEN "over"
                 ELSE IF su.result = "nothing" THEN "none" ELSE su.result
      /\ su' = [Usb!Blank EXCEPT !.result = su.result, !.given = su.given]
  BY DEF Ready, Usb!Outcome
<1>3. /\ su.given \in {"unset", "none", "zero", "part", "whole"} /\ 0 \in 0..Polls
      /\ <<>> \in Seq([c : Usb!CommandNames, must : BOOLEAN])
  BY <1>1, DriverAssumption DEF DriverAssumption, Usb!SetupTypeOK
<1>4. Usb!SetupTypeOK' /\ su'.result = su.result /\ su'.given = su.given
  BY <1>1, <1>2, <1>3 DEF Usb!SetupTypeOK, Usb!Blank
<1> QED BY <1>1, <1>2, <1>4 DEF SearchInv, Searching, Usb!SetupDone

-----------------------------------------------------------------------------
(* The driver as a whole.                                                   *)

LEMMA DriverStarts == Init => SearchInv /\ DriverInv
<1> SUFFICES ASSUME Init PROVE SearchInv /\ DriverInv
  OBVIOUS
<1>1. su = Usb!Blank /\ mode \in {"setup", "rtl8019"} /\ wire = <<>> /\ up = 0
  BY DEF Init, Usb!SetupInit
<1>2. 0 \in 0..Polls /\ <<>> \in Seq([c : Usb!CommandNames, must : BOOLEAN])
  BY DriverAssumption DEF DriverAssumption
<1>3. Usb!SetupTypeOK /\ su.result = "start" /\ su.given = "unset"
  BY <1>1, <1>2 DEF Usb!SetupTypeOK, Usb!Blank
<1>4. SearchInv
  BY <1>1, <1>3 DEF SearchInv, Searching, Usb!SetupDone
<1>5. Received
  BY <1>1 DEF Received
<1>6. mode = "rtl8019" => RtlInv
  BY <1>1, <1>5, RtlStart DEF Init
<1> QED BY <1>1, <1>4, <1>5, <1>6 DEF DriverInv, Received

\* driver_init(), the adapter not found yet.
LEMMA SetupKeeps == SearchInv /\ DriverInv /\ Setup => SearchInv' /\ DriverInv'
<1> SUFFICES ASSUME SearchInv, DriverInv, Setup PROVE SearchInv' /\ DriverInv'
  OBVIOUS
<1>1. /\ mode = "setup" /\ mode' = mode /\ wire' = wire /\ up' = up /\ dev' = dev
      /\ ~Usb!SetupDone /\ Usb!SetupNext
  BY DEF Setup
<1>2. SearchInv'
  BY <1>1, SearchProbes, SearchCommands, SearchEnds DEF Usb!SetupNext
<1> QED BY <1>1, <1>2 DEF DriverInv

\* The driver in use starts with an adapter that has received nothing.
LEMMA ReadyKeeps == SearchInv /\ DriverInv /\ Ready => SearchInv' /\ DriverInv'
<1> SUFFICES ASSUME SearchInv, DriverInv, Ready PROVE SearchInv' /\ DriverInv'
  OBVIOUS
<1>1. SearchInv' /\ mode' \in {"over", "none", "asix", "picowifi"}
  BY SearchDone
<1>2. wire' = wire /\ up' = up /\ Received
  BY DEF Ready, DriverInv, Received
<1>3. mode' \in {"asix", "picowifi"} => su.result = mode'
  BY DEF Ready, SearchInv
<1>4. /\ mode' = "asix" => dev' = Asix!Start
      /\ mode' = "picowifi" => dev' = Pico!Start
  BY <1>3 DEF Ready
<1>5. Received'
  BY <1>2 DEF Received
<1>6. mode' = "asix" => AsixInv'
  <2>1. wire' \in Seq(Lens) /\ up' \in 0..Len(wire')
    BY <1>5 DEF Received
  <2> QED BY <1>4, <2>1, AsixStart DEF AsixInv
<1>7. mode' = "picowifi" => PicoInv'
  <2>1. wire' \in Seq(Lens) /\ up' \in 0..Len(wire')
    BY <1>5 DEF Received
  <2> QED BY <1>4, <2>1, PicoStart DEF PicoInv
<1> QED BY <1>1, <1>5, <1>6, <1>7 DEF DriverInv, Received

\* A packet arrives.
LEMMA ArriveKeeps ==
  SearchInv /\ DriverInv /\ Arrive => SearchInv' /\ DriverInv' /\ Promise!Arrive
<1> SUFFICES ASSUME SearchInv, DriverInv, Arrive
             PROVE  SearchInv' /\ DriverInv' /\ Promise!Arrive
  OBVIOUS
<1>1. mode' = mode /\ su' = su /\ mode # "setup" /\ Received
  BY DEF Arrive, DriverInv, Received
<1>2. SearchInv'
  BY <1>1 DEF SearchInv, Searching, Usb!SetupTypeOK, Usb!SetupDone
<1>3. CASE mode = "asix" /\ Asix!Arrive
  <2>1. Received' /\ AsixInv' /\ Promise!Arrive
    BY <1>1, <1>3, AsixArrives DEF DriverInv
  <2> QED BY <1>1, <1>2, <1>3, <2>1 DEF DriverInv, Received
<1>4. CASE mode = "picowifi" /\ Pico!Arrive
  <2>1. Received' /\ PicoInv' /\ Promise!Arrive
    BY <1>1, <1>4, PicoArrives DEF DriverInv
  <2> QED BY <1>1, <1>2, <1>4, <2>1 DEF DriverInv, Received
<1>5. CASE mode = "rtl8019" /\ Rtl!Arrive
  <2>1. Received' /\ RtlInv' /\ Promise!Arrive
    BY <1>1, <1>5, RtlArrives DEF DriverInv
  <2> QED BY <1>1, <1>2, <1>5, <2>1 DEF DriverInv, Received
<1> QED BY <1>3, <1>4, <1>5 DEF Arrive

\* driver_poll()
LEMMA PollKeeps ==
  SearchInv /\ DriverInv /\ Poll
    => SearchInv' /\ DriverInv' /\ (Promise!HandUp \/ UNCHANGED <<wire, up>>)
<1> SUFFICES ASSUME SearchInv, DriverInv, Poll
             PROVE  SearchInv' /\ DriverInv' /\ (Promise!HandUp \/ UNCHANGED <<wire, up>>)
  OBVIOUS
<1>1. mode' = mode /\ su' = su /\ mode # "setup" /\ Received
  BY DEF Poll, DriverInv, Received
<1>2. SearchInv'
  BY <1>1 DEF SearchInv, Searching, Usb!SetupTypeOK, Usb!SetupDone
<1>3. CASE mode = "asix" /\ Asix!Recv
  <2>1. Received' /\ AsixInv' /\ (Promise!HandUp \/ UNCHANGED <<wire, up>>)
    BY <1>1, <1>3, AsixReceives DEF DriverInv
  <2> QED BY <1>1, <1>2, <1>3, <2>1 DEF DriverInv, Received
<1>4. CASE mode = "picowifi" /\ Pico!Recv
  <2>1. Received' /\ PicoInv' /\ (Promise!HandUp \/ UNCHANGED <<wire, up>>)
    BY <1>1, <1>4, PicoReceives DEF DriverInv
  <2> QED BY <1>1, <1>2, <1>4, <2>1 DEF DriverInv, Received
<1>5. CASE mode = "rtl8019" /\ (Rtl!Begin \/ Rtl!Retrieve)
  <2>1. Received' /\ RtlInv' /\ (Promise!HandUp \/ UNCHANGED <<wire, up>>)
    BY <1>1, <1>5, RtlBegins, RtlRetrieves DEF DriverInv
  <2> QED BY <1>1, <1>2, <1>5, <2>1 DEF DriverInv, Received
<1> QED BY <1>3, <1>4, <1>5 DEF Poll

\* Steps that leave the driver alone: net_send(), and none.
LEMMA StutterKeeps ==
  SearchInv /\ DriverInv /\ UNCHANGED <<mode, su, wire, up, dev>> => SearchInv' /\ DriverInv'
<1> SUFFICES ASSUME SearchInv, DriverInv, UNCHANGED <<mode, su, wire, up, dev>>
             PROVE  SearchInv' /\ DriverInv'
  OBVIOUS
<1>1. SearchInv'
  BY DEF SearchInv, Searching, Usb!SetupTypeOK, Usb!SetupDone
<1>2. mode = "asix" => AsixInv'
  BY DEF DriverInv, AsixInv
<1>3. mode = "picowifi" => PicoInv'
  BY DEF DriverInv, PicoInv
<1>4. mode = "rtl8019" => RtlInv'
  BY DEF DriverInv, RtlInv, Rtl!TypeOK
<1> QED BY <1>1, <1>2, <1>3, <1>4 DEF DriverInv

-----------------------------------------------------------------------------
(* What net_send() puts on the wire.                                        *)

\* The second half of a segment, moved down to uip_appdata, is its bytes from the
\* middle on, and all of them.
LEMMA SecondHalfIs ==
  ASSUME NEW n \in Nat, NEW m \in 0..n, m = n \div 2
  PROVE  SecondHalf(n, m, Len2(n)) = From(m, n - m)
<1>0. m + Len2(n) = n
  BY DEF Len2
<1>1. From(0, n) \in Seq(Int) /\ Len(From(0, n)) = n
  BY DEF From
<1>2. /\ SecondHalf(n, m, Len2(n)) \in Seq(Int) /\ Len(SecondHalf(n, m, Len2(n))) = n - m
      /\ \A i \in 1..(n - m) : SecondHalf(n, m, Len2(n))[i] = From(0, n)[m + i]
  <2>1. SecondHalf(n, m, Len2(n)) = SubSeq(From(0, n), m + 1, n)
    BY <1>0 DEF SecondHalf
  <2>2. PICK q \in Seq(Int) : q = From(0, n) /\ Len(q) = n
    BY <1>1
  <2>3. m \in Nat /\ n \in Nat /\ m =< n
    OBVIOUS
  <2>4. SubSeq(q, m + 1, n) \in Seq(Int) /\ Len(SubSeq(q, m + 1, n)) = n - m
    BY ONLY <2>2, <2>3
  <2>5. \A i \in 1..(n - m) : SubSeq(q, m + 1, n)[i] = q[m + i]
    BY ONLY <2>2, <2>3
  <2> QED BY ONLY <2>1, <2>2, <2>4, <2>5
<1>3. From(m, n - m) \in Seq(Int) /\ Len(From(m, n - m)) = n - m
  BY DEF From
<1>4. \A i \in 1..(n - m) : From(0, n)[m + i] = m + i - 1 /\ From(m, n - m)[i] = m + i - 1
  BY DEF From
<1> QED BY <1>2, <1>3, <1>4

Beyond(f) == f.seq + Len(f.data)

\* The frame is no TCP segment, or carries the bytes its header says, and is the
\* whole segment or one of the two ends of a longer one.
Fits(f) ==
  f.kind = "tcp" =>
    /\ f.data = From(f.seq, Len(f.data))
    /\ f.seq = 0 \/ Beyond(f) = f.of
    /\ f.of =< SplitAbove => f.seq = 0 /\ Beyond(f) = f.of

\* The two frames follow each other and are all of the segment.
Meet(f, g) ==
  f.kind = "tcp" /\ g.kind = "tcp" =>
    f.seq = 0 /\ g.seq = Len(f.data) /\ Beyond(g) = g.of

LEMMA CutFits ==
  ASSUME NEW n \in Nat, NEW known \in BOOLEAN, NEW router \in BOOLEAN,
         NEW fs, fs = Output(n, known, router)
  PROVE  \/ \E f : fs = <<f>> /\ Fits(f)
         \/ \E f, g : fs = <<f, g>> /\ Fits(f) /\ Fits(g) /\ Meet(f, g)
<1>0. SplitAbove \in Nat \ {0}
  BY DriverAssumption DEF DriverAssumption
<1>1. Fits(Request) /\ Fits(Garbled)
  BY DEF Fits, Request, Garbled
<1>2. ASSUME NEW a \in Nat, NEW k \in Nat, NEW f, f = TcpFrame(a, From(a, k), n),
             a = 0 \/ a + k = n, n =< SplitAbove => a = 0 /\ k = n
      PROVE  Fits(f) /\ f.seq = a /\ Len(f.data) = k /\ Beyond(f) = a + k /\ f.of = n
  <2>1. Len(From(a, k)) = k
    BY DEF From
  <2>2. f.kind = "tcp" /\ f.seq = a /\ f.data = From(a, k) /\ f.of = n
    BY <1>2 DEF TcpFrame
  <2> QED BY <1>2, <2>1, <2>2 DEF Fits, Beyond
<1>3. PICK m \in 0..n : m = n \div 2 /\ m \in Nat /\ n - m \in Nat /\ 0 \in Nat
  <2>1. n \div 2 \in 0..n /\ n \div 2 \in Nat
    OBVIOUS
  <2>2. n - (n \div 2) \in Nat
    BY <2>1
  <2> QED BY <2>1, <2>2
<1>4. CASE ~(n > SplitAbove)
  <2>1. fs = <<TcpFrame(0, From(0, n), n)>> \/ fs = <<Request>>
    BY <1>4 DEF Output
  <2>2. Fits(TcpFrame(0, From(0, n), n))
    BY <1>2, <1>3
  <2> QED BY <1>1, <2>1, <2>2
<1>5. CASE n > SplitAbove
  <2>1. CASE known
    <3>1. fs = <<TcpFrame(0, From(0, m), n), TcpFrame(m, SecondHalf(n, m, Len2(n)), n)>>
      BY <1>3, <1>5, <2>1 DEF Output
    <3>2. SecondHalf(n, m, Len2(n)) = From(m, n - m)
      BY <1>3, SecondHalfIs
    <3>3. PICK f : f = TcpFrame(0, From(0, m), n)
      OBVIOUS
    <3>4. PICK g : g = TcpFrame(m, From(m, n - m), n)
      OBVIOUS
    <3>5. ~(n =< SplitAbove) /\ m + (n - m) = n
      BY <1>0, <1>3, <1>5
    <3>6. Fits(f) /\ f.seq = 0 /\ Len(f.data) = m
      BY <1>2, <1>3, <3>3, <3>5
    <3>7. Fits(g) /\ g.seq = m /\ Beyond(g) = n /\ g.of = n
      BY <1>2, <1>3, <3>4, <3>5
    <3>8. fs = <<f, g>> /\ Meet(f, g)
      BY <3>1, <3>2, <3>3, <3>4, <3>6, <3>7 DEF Meet
    <3> QED BY <3>6, <3>7, <3>8
  <2>2. CASE ~known
    <3>1. \E g : fs = <<Request, g>> /\ Fits(g)
      BY <1>1, <1>5, <2>2 DEF Output
    <3>2. \A g : Meet(Request, g)
      BY DEF Meet, Request
    <3> QED BY <1>1, <3>1, <3>2
  <2> QED BY <2>1, <2>2
<1> QED BY <1>4, <1>5

\* Every way the driver leaves frames out.
LEMMA SendFits == SearchInv /\ Send => HalvesFit'
<1> SUFFICES ASSUME SearchInv, Send PROVE HalvesFit'
  OBVIOUS
<1>1. PICK n \in Segs, known \in BOOLEAN, router \in BOOLEAN :
        frames' \in Transmitted(Output(n, known, router))
  BY DEF Send
<1>2. PICK fs : fs = Output(n, known, router)
  OBVIOUS
<1>3. n \in Nat
  BY DriverAssumption DEF DriverAssumption
<1>4. frames' \in {<<>>, fs} \union {<<fs[i]>> : i \in DOMAIN fs}
  <2>1. mode \in {"none", "asix", "picowifi", "rtl8019"}
    BY DEF SearchInv, Send
  <2>2. Transmitted(fs) \in {{<<>>}, {fs}, {<<>>, fs} \union {<<fs[i]>> : i \in DOMAIN fs}}
    BY <2>1 DEF Transmitted, AsixSent, PicoSent, RtlSent
  <2> QED BY <1>1, <1>2, <2>2
<1>5. \/ \E f : fs = <<f>> /\ Fits(f)
      \/ \E f, g : fs = <<f, g>> /\ Fits(f) /\ Fits(g) /\ Meet(f, g)
  BY <1>2, <1>3, CutFits
<1>6. \/ frames' = <<>>
      \/ \E f : frames' = <<f>> /\ Fits(f)
      \/ \E f, g : frames' = <<f, g>> /\ Fits(f) /\ Fits(g) /\ Meet(f, g)
  <2>1. CASE \E f : fs = <<f>> /\ Fits(f)
    BY <1>4, <2>1
  <2>2. CASE \E f, g : fs = <<f, g>> /\ Fits(f) /\ Fits(g) /\ Meet(f, g)
    BY <1>4, <2>2
  <2> QED BY <1>5, <2>1, <2>2
<1>7. CASE frames' = <<>>
  BY <1>7 DEF HalvesFit
<1>8. CASE \E f : frames' = <<f>> /\ Fits(f)
  BY <1>8 DEF HalvesFit, Fits, Beyond
<1>9. CASE \E f, g : frames' = <<f, g>> /\ Fits(f) /\ Fits(g) /\ Meet(f, g)
  <2>1. PICK f, g : frames' = <<f, g>> /\ Fits(f) /\ Fits(g) /\ Meet(f, g)
    BY <1>9
  <2>2. DOMAIN frames' = {1, 2} /\ frames'[1] = f /\ frames'[2] = g
    BY <2>1
  <2> QED BY <2>1, <2>2 DEF HalvesFit, Fits, Meet, Beyond
<1> QED BY <1>6, <1>7, <1>8, <1>9

-----------------------------------------------------------------------------
(* Nothing that fits is left out.                                           *)

\* Every packet of w after number u that fits the caller's buffer begins in q.
AllThere(q, n, w, u) ==
  \A p \in (u + 1)..Len(w) :
    w[p] =< Dest => \E k \in 0..(n - 1) : q[k].p = p /\ q[k].at = 0

Entire(q, n, w, u) == Unbroken(q, n) /\ AllThere(q, n, w, u)

HeldEntire(buf, e, l, burst, N, w, u) ==
  Entire(Held(buf, e, l, burst, N), l + Len(burst), w, u)

PicoEntire(d, w, u) ==
  d.faults = 0 /\ ~d.cut =>
    HeldEntire(d.buf, d.read, d.level, d.burst, Pico!FIFO_SIZE, w, u)

\* When a burst has ended there are whole packets in the buffer.
AsixEntire(d, w, u) ==
  d.faults = 0 /\ ~d.beyond =>
    /\ HeldEntire(d.buf, d.empty, d.left, d.burst, Asix!End, w, u)
    /\ d.end => BufferInv(d.buf, d.empty, d.left, <<>>, Asix!End, w, AsixSizes(w), u)

RingAllThere(d, w, u) ==
  LET n == RtlAhead(d.curr, d.bnry)
  IN AllThere(RtlRing(d.page, d.bnry, n), n, w, u)

RtlEntire(d, w, u) ==
  /\ d.ovw => d.lost
  /\ ~d.lost /\ d.bnry = -1 => w = <<>>
  /\ ~d.lost /\ d.bnry # -1 => RingAllThere(d, w, u)

EntireInv ==
  /\ mode = "asix" => AsixEntire(dev, wire, up)
  /\ mode = "picowifi" => PicoEntire(dev, wire, up)
  /\ mode = "rtl8019" => RtlEntire(dev, wire, up)

\* The same pieces elsewhere.
LEMMA EntireSame ==
  ASSUME NEW q, NEW r, NEW n \in Nat, NEW w, NEW u, Entire(q, n, w, u),
         SameHeld(q, r, n)
  PROVE  Entire(r, n, w, u)
<1>1. \A k \in 0..(n - 1) : r[k] = q[k] /\ (0 < k => k - 1 \in 0..(n - 1))
  BY DEF SameHeld
<1>2. Unbroken(r, n)
  <2> SUFFICES ASSUME NEW k \in 0..(n - 1)
               PROVE  r[k].at = 0 \/ (0 < k /\ r[k - 1].p = r[k].p)
    BY Zenon DEF Unbroken
  <2>1. q[k].at = 0 \/ (0 < k /\ q[k - 1].p = q[k].p)
    BY DEF Entire, Unbroken
  <2> QED BY <1>1, <2>1
<1>3. AllThere(r, n, w, u)
  BY <1>1 DEF Entire, AllThere
<1> QED BY <1>2, <1>3 DEF Entire

\* A packet that arrives comes behind all that is there.
LEMMA AllThereExtend ==
  ASSUME NEW q, NEW r, NEW n \in Nat, NEW s \in Nat \ {0}, NEW w \in Seq(Lens),
         NEW m \in Lens, NEW u, AllThere(q, n, w, u), u \in 0..Len(w),
         Longer(q, r, n, s, Len(w) + 1)
  PROVE  AllThere(r, n + s, Append(w, m), u)
<1> DEFINE v == Append(w, m)
<1>1. Len(w) \in Nat /\ Len(v) = Len(w) + 1 /\ \A p \in 1..Len(w) : v[p] = w[p]
  OBVIOUS
<1> HIDE DEF v
<1>2. SUFFICES ASSUME NEW p \in (u + 1)..(Len(w) + 1), v[p] =< Dest
               PROVE  \E k \in 0..(n + s - 1) : r[k].p = p /\ r[k].at = 0
  BY <1>1 DEF AllThere, v
<1>3. CASE p = Len(w) + 1
  <2>1. n \in n..(n + s - 1) /\ n \in 0..(n + s - 1) /\ n - n = 0
    OBVIOUS
  <2>2. r[n] = [p |-> Len(w) + 1, at |-> n - n]
    BY <2>1, Zenon DEF Longer
  <2>3. r[n].p = p /\ r[n].at = 0
    BY <1>3, <2>1, <2>2
  <2> QED BY <2>1, <2>3
<1>4. CASE p # Len(w) + 1
  <2>1. p \in (u + 1)..Len(w) /\ p \in 1..Len(w)
    BY <1>1, <1>4
  <2>2. w[p] =< Dest
    BY <1>1, <1>2, <2>1
  <2>3. PICK k \in 0..(n - 1) : q[k].p = p /\ q[k].at = 0
    BY <2>1, <2>2 DEF AllThere
  <2>4. k \in 0..(n + s - 1) /\ r[k] = q[k]
    BY DEF Longer
  <2> QED BY <2>3, <2>4
<1> QED BY <1>3, <1>4

LEMMA EntireExtend ==
  ASSUME NEW q, NEW r, NEW n \in Nat, NEW s \in Nat \ {0}, NEW w \in Seq(Lens),
         NEW m \in Lens, NEW u, Entire(q, n, w, u), u \in 0..Len(w),
         Longer(q, r, n, s, Len(w) + 1)
  PROVE  Entire(r, n + s, Append(w, m), u)
<1>1. AllThere(r, n + s, Append(w, m), u)
  <2>1. AllThere(q, n, w, u)
    BY DEF Entire
  <2> QED BY <2>1, AllThereExtend
<1>2. Unbroken(r, n + s)
  <2>1. /\ Unbroken(q, n)
        /\ \A k \in 0..(n - 1) : r[k] = q[k]
        /\ \A k \in n..(n + s - 1) : r[k] = [p |-> Len(w) + 1, at |-> k - n]
    BY DEF Entire, Longer
  <2> QED BY <2>1, UnbrokenExtend
<1> QED BY <1>1, <1>2 DEF Entire

\* What was left out when the packet p that comes after u is taken: nothing that fits.
NoneBetween(w, u, p) == \A k \in (u + 1)..(p - 1) : ~(w[k] =< Dest)

\* What is there when the packet p at the head is taken, handed up or too long.
TakenFrom(r, n, w, u, p) ==
  /\ AllThere(r, n, w, p)
  /\ ~(w[p] =< Dest) => AllThere(r, n, w, u)
  /\ NoneBetween(w, u, p)

LEMMA AllThereTake ==
  ASSUME NEW q, NEW r, NEW n \in Nat, NEW w \in Seq(Lens), NEW size \in [1..Len(w) -> Nat],
         NEW u \in Nat, Pieces(q, n, Len(w), size, u), AllThere(q, n, w, u), n > 0,
         q[0].at = 0, NEW p, p = q[0].p, NEW m \in 1..n, m = size[p], Without(q, r, n, m)
  PROVE  TakenFrom(r, n - m, w, u, p)
<1>1. /\ p \in 1..Len(w) /\ u < p /\ Len(w) \in Nat /\ Whole(q, p, m)
  <2>1. Len(w) \in Nat
    OBVIOUS
  <2>2. q[0].p \in 1..Len(w) /\ u < q[0].p /\ Whole(q, q[0].p, size[q[0].p])
    BY <2>1, PiecesHead
  <2> QED BY <2>1, <2>2
<1>2. ASSUME NEW k \in 0..(n - 1), k < m PROVE q[k].p = p
  <2>1. CASE k = 0
    BY <2>1
  <2>2. CASE k # 0
    <3>1. k \in 1..(m - 1)
      BY <1>2, <2>2
    <3>2. q[k] = [p |-> p, at |-> k]
      BY <1>1, <3>1, Zenon DEF Whole
    <3> QED BY <3>2
  <2> QED BY <2>1, <2>2
<1>3. ASSUME NEW k \in 0..(n - 1), ~(k < m) PROVE q[k].p \in 1..Len(w) /\ p < q[k].p
  <2>1. 0 \in 0..(n - 1) /\ 0 < k /\ q[0].at + (k - 0) = k /\ ~(k < size[q[0].p])
    BY <1>3
  <2>2. ~(q[0].at + (k - 0) < size[q[0].p])
    BY <2>1
  <2>3. q[0].p < q[k].p
    BY <2>1, <2>2, Zenon DEF Pieces
  <2> QED BY <2>3 DEF Pieces
<1>4. ASSUME NEW x \in (u + 1)..Len(w), w[x] =< Dest
      PROVE  x = p \/ (p < x /\ \E k \in 0..(n - m - 1) : r[k].p = x /\ r[k].at = 0)
  <2>1. PICK k \in 0..(n - 1) : q[k].p = x /\ q[k].at = 0
    BY <1>4 DEF AllThere
  <2>2. CASE k < m
    BY <1>2, <2>1, <2>2
  <2>3. CASE ~(k < m)
    <3>1. k - m \in 0..(n - m - 1) /\ (k - m) + m = k
      BY <2>3
    <3>2. r[k - m] = q[(k - m) + m]
      BY <3>1, Zenon DEF Without
    <3> QED BY <1>3, <2>1, <2>3, <3>1, <3>2
  <2> QED BY <2>2, <2>3
<1>5. AllThere(r, n - m, w, p)
  <2> SUFFICES ASSUME NEW x \in (p + 1)..Len(w), w[x] =< Dest
               PROVE  \E k \in 0..(n - m - 1) : r[k].p = x /\ r[k].at = 0
    BY DEF AllThere
  <2>1. x \in (u + 1)..Len(w) /\ x # p
    BY <1>1
  <2> QED BY <1>4, <2>1
<1>6. ~(w[p] =< Dest) => AllThere(r, n - m, w, u)
  BY <1>4 DEF AllThere
<1>7. NoneBetween(w, u, p)
  <2> SUFFICES ASSUME NEW x \in (u + 1)..(p - 1), w[x] =< Dest PROVE FALSE
    BY DEF NoneBetween
  <2>1. x \in (u + 1)..Len(w) /\ x < p /\ x # p /\ ~(p < x)
    BY <1>1
  <2> QED BY <1>4, <2>1
<1> QED BY <1>5, <1>6, <1>7 DEF TakenFrom


-----------------------------------------------------------------------------
(* Nothing that fits is left out of the RTL8019's ring.                     *)

\* A packet that is stored.
LEMMA RtlArrivesEntire ==
  ASSUME Received, RtlInv, RtlEntire(dev, wire, up), Rtl!Arrive
  PROVE  RtlEntire(dev', wire', up')
<1>1. PICK n \in Lens :
        /\ wire' = Append(wire, n)
        /\ dev' = IF ~dev.ovw /\ Rtl!PagesOf(n) =< Rtl!Room(dev)
                  THEN Rtl!Stored(dev, Len(wire) + 1, n)
                  ELSE [dev EXCEPT !.ovw = TRUE, !.lost = TRUE]
  BY DEF Rtl!Arrive
<1>2. up' = up
  BY DEF Rtl!Arrive
<1>3. PICK s \in 1..(Pages - 1) : s = Rtl!PagesOf(n) /\ s \in Nat \ {0}
  BY PagesOfType
<1>4. CASE ~dev.ovw /\ Rtl!PagesOf(n) =< Rtl!Room(dev)
  <2>1. /\ dev'.page = RtlStored(dev.page, dev.curr, s, Len(wire) + 1)
        /\ dev'.curr = (dev.curr + s) % Pages
        /\ dev'.bnry = dev.bnry /\ dev'.ovw = dev.ovw
        /\ dev'.lost = (dev.lost \/ dev.bnry = -1)
    <3>1. dev' = Rtl!Stored(dev, Len(wire) + 1, n)
      BY <1>1, <1>4
    <3> QED BY <3>1, <1>3 DEF RtlInv, Rtl!TypeOK, Rtl!Stored, RtlStored
  <2>2. SUFFICES ASSUME ~dev.lost, dev.bnry # -1
                 PROVE  RingAllThere(dev', wire', up')
    BY <1>4, <2>1 DEF RtlEntire
  <2>3. /\ dev.bnry \in 0..(Pages - 1) /\ dev.curr \in 0..(Pages - 1)
        /\ s =< (dev.bnry - dev.curr - 1) % Pages
    <3>1. dev.bnry \in 0..(Pages - 1) /\ dev.curr \in 0..(Pages - 1)
      BY <2>2 DEF RtlInv, RingInv
    <3> QED BY <1>3, <1>4, <2>2, <3>1 DEF Rtl!Room
  <2>4. PICK m \in Nat : m = RtlAhead(dev.curr, dev.bnry)
    <3>1. RtlAhead(dev.curr, dev.bnry) \in 0..(Pages - 1)
      BY ONLY <2>3, RtlAheadIs
    <3> QED BY <3>1, PagesNat
  <2>5. PICK q : q = RtlRing(dev.page, dev.bnry, m)
    OBVIOUS
  <2>6. PICK r : r = RtlRing(dev'.page, dev.bnry, m + s)
    OBVIOUS
  <2>7. RtlAhead(dev'.curr, dev.bnry) = m + s /\ Longer(q, r, m, s, Len(wire) + 1)
    <3>1. RingGrows(dev.page, dev.bnry, dev.curr, s, Len(wire) + 1)
      BY <2>3, RingLonger
    <3> QED BY <2>1, <2>4, <2>5, <2>6, <3>1 DEF RingGrows
  <2>8. AllThere(q, m, wire, up)
    BY <2>2, <2>4, <2>5 DEF RtlEntire, RingAllThere
  <2>9. AllThere(r, m + s, Append(wire, n), up)
    BY <1>3, <2>7, <2>8, AllThereExtend DEF Received
  <2> QED BY <1>1, <1>2, <2>1, <2>6, <2>7, <2>9 DEF RingAllThere
<1>5. CASE ~(~dev.ovw /\ Rtl!PagesOf(n) =< Rtl!Room(dev))
  <2>1. dev' = [dev EXCEPT !.ovw = TRUE, !.lost = TRUE]
    BY <1>1, <1>5
  <2>2. dev'.lost = TRUE
    BY <2>1 DEF RtlInv, Rtl!TypeOK
  <2> QED BY <2>2 DEF RtlEntire
<1> QED BY <1>4, <1>5

\* An overrun gives up what is in the ring, but then a packet is lost already.
LEMMA RtlBeginsEntire ==
  ASSUME RtlInv, RtlEntire(dev, wire, up), Rtl!Begin
  PROVE  RtlEntire(dev', wire', up')
<1>1. wire' = wire /\ up' = up
  BY DEF Rtl!Begin
<1>2. CASE dev.ovw
  <2>1. dev.lost
    BY <1>2 DEF RtlEntire
  <2>2. dev'.lost = TRUE
    BY <1>2, <2>1 DEF Rtl!Begin, Rtl!HandleOverrun, Rtl!Restart, RtlInv, Rtl!TypeOK
  <2> QED BY <2>2 DEF RtlEntire
<1>3. CASE ~dev.ovw
  <2>1. /\ dev'.page = dev.page /\ dev'.curr = dev.curr /\ dev'.bnry = dev.bnry
        /\ dev'.ovw = dev.ovw /\ dev'.lost = dev.lost
    BY <1>3 DEF Rtl!Begin, Rtl!HandleOverrun, RtlInv, Rtl!TypeOK
  <2> QED BY <1>1, <2>1 DEF RtlEntire, RingAllThere
<1> QED BY <1>2, <1>3

LEMMA RtlRetrievesEntire ==
  ASSUME Received, RtlInv, RtlEntire(dev, wire, up), Rtl!Retrieve
  PROVE  RtlEntire(dev', wire', up') /\ (dev.lost \/ NoneBetween(wire, up, up'))
<1>1. wire' = wire /\ dev.at = "curr"
  BY DEF Rtl!Retrieve
<1>2. up' = up => NoneBetween(wire, up, up')
  BY DEF NoneBetween, Received
<1>3. CASE dev' = Rtl!Idle(dev) /\ up' = up
  <2>1. /\ dev'.page = dev.page /\ dev'.curr = dev.curr /\ dev'.bnry = dev.bnry
        /\ dev'.ovw = dev.ovw /\ dev'.lost = dev.lost /\ up' = up
    BY <1>3 DEF Rtl!Idle, RtlInv, Rtl!TypeOK
  <2> QED BY <1>1, <1>2, <2>1 DEF RtlEntire, RingAllThere
<1>4. CASE dev.bnry # dev.i /\ dev.bnry = -1
  <2>1. /\ dev'.ovw = dev.ovw /\ dev'.lost = dev.lost /\ dev'.bnry = 0 /\ up' = up
    BY <1>1, <1>4 DEF Rtl!Retrieve, Rtl!Idle, Rtl!Restart, RtlInv, Rtl!TypeOK
  <2>2. ASSUME ~dev.lost PROVE RingAllThere(dev', wire', up')
    <3>1. wire' = <<>> /\ up' = 0
      BY <1>1, <1>4, <2>1, <2>2 DEF RtlEntire, RtlInv
    <3>2. (0 + 1)..Len(<<>>) = {}
      OBVIOUS
    <3> QED BY <3>1, <3>2 DEF RingAllThere, AllThere
  <2> QED BY <1>2, <2>1, <2>2 DEF RtlEntire
<1>5. CASE dev.bnry # dev.i /\ dev.bnry # -1 /\ ~(dev' = Rtl!Idle(dev) /\ up' = up)
  <2>1. PICK p : p = dev.page[dev.bnry].p
    OBVIOUS
  <2>2. PICK s : s = Rtl!PagesOf(wire[p])
    OBVIOUS
  <2>3. PICK b : b = dev.bnry
    OBVIOUS
  <2>4. /\ RingInv(dev.page, b, dev.curr, wire, up)
        /\ RtlAhead(dev.i, b) =< RtlAhead(dev.curr, b)
    BY <1>1, <1>5, <2>3 DEF RtlInv
  <2>5. b \in 0..(Pages - 1) /\ dev.curr \in 0..(Pages - 1) /\ b # dev.curr
    <3>1. b \in 0..(Pages - 1) /\ dev.i \in 0..(Pages - 1) /\ dev.curr \in 0..(Pages - 1)
      BY <2>4 DEF RingInv, RtlInv, Rtl!TypeOK
    <3>2. RtlAhead(dev.i, b) \in 0..(Pages - 1) /\ RtlAhead(dev.i, b) # 0
      BY <1>5, <2>3, <3>1, RtlAheadIs
    <3>3. dev.curr = b => RtlAhead(dev.curr, b) = 0
      BY <3>1, RtlAheadIs
    <3> QED BY <2>4, <3>1, <3>2, <3>3
  <2>6. /\ p \in 1..Len(wire) /\ up < p /\ dev.page[b].at = 0
        /\ \A k \in 1..(s - 1) : dev.page[(b + k) % Pages] = [p |-> p, at |-> k]
        /\ s \in 1..(Pages - 1) /\ s =< RtlAhead(dev.curr, b)
    BY <2>1, <2>2, <2>3, <2>4, <2>5, RingTaken
  <2>7. /\ dev' = [Rtl!Idle(dev) EXCEPT !.bnry = Rtl!NextPage(dev)]
        /\ up' = IF wire[p] > Dest THEN up ELSE Rtl!Copied(dev, wire[p])
    BY <1>5, <2>1 DEF Rtl!Retrieve
  <2>8. Rtl!NextPage(dev) = (b + s) % Pages
    BY <2>1, <2>2, <2>3 DEF Rtl!NextPage
  <2>9. /\ dev'.page = dev.page /\ dev'.curr = dev.curr
        /\ dev'.bnry = (b + s) % Pages
        /\ dev'.ovw = dev.ovw /\ dev'.lost = dev.lost
    BY <2>7, <2>8 DEF Rtl!Idle, RtlInv, Rtl!TypeOK
  <2>10. Rtl!Copied(dev, wire[p]) = p
    BY <2>1, <2>2, <2>3, <2>6, Zenon DEF Rtl!Copied
  <2>11. (b + s) % Pages \in 0..(Pages - 1) /\ dev'.bnry # -1
    <3>1. s \in 0..(Pages - 1)
      BY <2>6, PagesNat
    <3>2. (b + s) % Pages \in 0..(Pages - 1)
      BY <2>5, <3>1, RtlPlace
    <3> QED BY <2>9, <3>2
  <2>12. SUFFICES ASSUME ~dev.lost
                  PROVE  RingAllThere(dev', wire', up') /\ NoneBetween(wire, up, up')
    BY <2>9, <2>11 DEF RtlEntire
  <2>13. PICK m \in 0..(Pages - 1) : m = RtlAhead(dev.curr, b) /\ m \in Nat /\ m > 0
    <3>1. RtlAhead(dev.curr, b) \in 0..(Pages - 1) /\ RtlAhead(dev.curr, b) # 0
      BY <2>5, RtlAheadIs
    <3> QED BY <3>1
  <2>14. PICK q : q = RtlRing(dev.page, b, m)
    OBVIOUS
  <2>15. PICK r : r = RtlRing(dev.page, (b + s) % Pages, m - s)
    OBVIOUS
  <2>16. RtlAhead(dev.curr, (b + s) % Pages) = m - s
    <3>0. b \in 0..(Pages - 1) /\ dev.curr \in 0..(Pages - 1) /\ s \in 1..(Pages - 1)
      BY <2>5, <2>6
    <3>1. s =< RtlAhead(dev.curr, b)
           => RtlAhead(dev.curr, (b + s) % Pages) = RtlAhead(dev.curr, b) - s
      BY <3>0, RtlAheadMoved
    <3> QED BY <2>6, <2>13, <3>1
  <2>17. /\ Pieces(q, m, Len(wire), RtlSizes(wire), up) /\ Unbroken(q, m)
         /\ AllThere(q, m, wire, up)
    BY <1>5, <2>3, <2>4, <2>12, <2>13, <2>14 DEF RingInv, RtlEntire, RingAllThere
  <2>18. Without(q, r, m, s)
    BY <2>5, <2>6, <2>13, <2>14, <2>15, RingWithout
  <2>19. q[0] = dev.page[b] /\ q[0].at = 0
    <3>1. b + 0 < Pages /\ b + 0 = b /\ 0 \in 0..(Pages - 1) /\ 0 \in 0..(m - 1)
      BY <2>5, <2>13, PagesNat
    <3>2. (b + 0) % Pages = b
      BY <2>5, <3>1, RtlPlace
    <3> QED BY <2>6, <2>14, <3>1, <3>2 DEF RtlRing
  <2>20. TakenFrom(r, m - s, wire, up, p)
    <3>1. wire \in Seq(Lens) /\ RtlSizes(wire) \in [1..Len(wire) -> Nat] /\ up \in Nat
      <4>1. wire \in Seq(Lens) /\ up \in Nat /\ Len(wire) \in Nat
        BY DEF Received
      <4> QED BY RtlSizesAre, <4>1
    <3>2. s = RtlSizes(wire)[p] /\ s \in 1..m /\ p = q[0].p
      BY <2>1, <2>2, <2>3, <2>6, <2>13, <2>19 DEF RtlSizes
    <3> QED BY <2>13, <2>17, <2>18, <2>19, <3>1, <3>2, AllThereTake
  <2>21. CASE wire[p] > Dest
    <3>1. up' = up /\ ~(wire[p] =< Dest)
      <4>1. wire[p] \in Lens
        BY <2>6 DEF Received
      <4>2. wire[p] \in Nat
        BY <4>1, PicoNat
      <4>3. Dest \in Nat
        BY DriverAssumption DEF DriverAssumption
      <4> QED BY <2>7, <2>21, <4>2, <4>3
    <3>2. AllThere(r, m - s, wire, up)
      BY <2>20, <3>1 DEF TakenFrom
    <3> QED BY <1>1, <1>2, <2>9, <2>15, <2>16, <3>1, <3>2 DEF RingAllThere
  <2>22. CASE ~(wire[p] > Dest)
    <3>1. up' = p
      BY <2>7, <2>10, <2>22
    <3>2. AllThere(r, m - s, wire, p) /\ NoneBetween(wire, up, p)
      BY <2>20 DEF TakenFrom
    <3> QED BY <1>1, <2>9, <2>15, <2>16, <3>1, <3>2 DEF RingAllThere
  <2> QED BY <2>21, <2>22
<1> QED BY <1>3, <1>4, <1>5 DEF Rtl!Retrieve

-----------------------------------------------------------------------------
(* Nothing that fits is left out of a circular buffer.                      *)

\* What is held begins with a packet, which is taken as a whole.
LEMMA UnbrokenWithout ==
  ASSUME NEW q, NEW r, NEW n \in Nat, NEW last \in Nat, NEW size \in [1..last -> Nat],
         NEW u \in Nat, Pieces(q, n, last, size, u), Unbroken(q, n), n > 0,
         NEW m \in 1..n, m = size[q[0].p], Without(q, r, n, m)
  PROVE  q[0].at = 0 /\ Unbroken(r, n - m)
<1>1. q[0].at = 0
  <2>1. 0 \in 0..(n - 1) /\ ~(0 < 0)
    OBVIOUS
  <2> QED BY <2>1 DEF Unbroken
<1>2. Whole(q, q[0].p, m)
  BY <1>1, PiecesHead
<1>3. q[m - 1].p = q[0].p
  <2>1. CASE m = 1
    BY <2>1
  <2>2. CASE m # 1
    <3>1. m - 1 \in 1..(m - 1)
      BY <2>2
    <3>2. q[m - 1] = [p |-> q[0].p, at |-> m - 1]
      BY <1>2, <3>1, Zenon DEF Whole
    <3> QED BY <3>2
  <2> QED BY <2>1, <2>2
<1>4. size[q[0].p] =< m
  OBVIOUS
<1>5. \A k \in 0..(n - m - 1) : r[k] = q[k + m]
  BY DEF Without
<1>6. Unbroken(r, n - m)
  BY <1>3, <1>4, <1>5, UnbrokenTake
<1> QED BY <1>1, <1>6

LEMMA HeldArrives ==
  ASSUME NEW buf, NEW e, NEW l, NEW burst, NEW N, NEW w, NEW size, NEW u,
         BufferInv(buf, e, l, burst, N, w, size, u),
         HeldEntire(buf, e, l, burst, N, w, u),
         NEW n \in Lens, NEW s \in Nat \ {0}, NEW more,
         more = [i \in 1..s |-> [p |-> Len(w) + 1, at |-> i - 1]]
  PROVE  HeldEntire(buf, e, l, burst \o more, N, Append(w, n), u)
<1>1. l \in Nat /\ w \in Seq(Lens) /\ u \in 0..Len(w) /\ Len(burst) \in Nat
  BY DEF BufferInv
<1>2. HeldMoreOf(buf, e, l, burst, more, N, s, Len(w) + 1)
  BY HeldMore
<1>3. PICK q : q = Held(buf, e, l, burst, N)
  OBVIOUS
<1>4. PICK r : r = Held(buf, e, l, burst \o more, N)
  OBVIOUS
<1>5. PICK m \in Nat : m = l + Len(burst)
  BY <1>1
<1>6. Longer(q, r, m, s, Len(w) + 1) /\ m + s = l + Len(burst \o more)
  BY <1>1, <1>2, <1>3, <1>4, <1>5 DEF HeldMoreOf
<1>7. Entire(q, m, w, u)
  BY <1>3, <1>5 DEF HeldEntire
<1>8. Entire(r, m + s, Append(w, n), u)
  BY <1>1, <1>6, <1>7, EntireExtend
<1> QED BY <1>4, <1>6, <1>8 DEF HeldEntire

LEMMA HeldFills ==
  ASSUME NEW buf, NEW e, NEW l, NEW burst, NEW N, NEW w, NEW size, NEW u,
         BufferInv(buf, e, l, burst, N, w, size, u),
         HeldEntire(buf, e, l, burst, N, w, u),
         NEW n \in 0..Len(burst), l + n =< N,
         NEW f \in 0..N, (f - e - l) % N = 0,
         NEW buf2,
         \A g \in 0..(N - 1) :
           buf2[g] = IF (g - f) % N < n THEN burst[((g - f) % N) + 1] ELSE buf[g]
  PROVE  HeldEntire(buf2, e, l + n, SubSeq(burst, n + 1, Len(burst)), N, w, u)
<1>1. l \in Nat /\ Len(burst) \in Nat /\ n \in Nat
  BY DEF BufferInv
<1>2. HeldFillOf(buf, buf2, e, l, burst, n, N)
  BY HeldFill
<1>3. PICK rest : rest = SubSeq(burst, n + 1, Len(burst))
  OBVIOUS
<1>4. PICK q : q = Held(buf, e, l, burst, N)
  OBVIOUS
<1>5. PICK r : r = Held(buf2, e, l + n, rest, N)
  OBVIOUS
<1>6. PICK m \in Nat : m = l + Len(burst)
  BY <1>1
<1>7. SameHeld(q, r, m) /\ m = (l + n) + Len(rest)
  BY <1>1, <1>2, <1>3, <1>4, <1>5, <1>6 DEF HeldFillOf
<1>8. Entire(q, m, w, u)
  BY <1>4, <1>6 DEF HeldEntire
<1>9. Entire(r, m, w, u)
  BY <1>7, <1>8, EntireSame
<1> QED BY <1>3, <1>5, <1>7, <1>9 DEF HeldEntire

\* The buffer's first piece is the first of a packet.
LEMMA HeldHead ==
  ASSUME NEW buf, NEW e, NEW l, NEW burst, NEW N, NEW w, NEW size, NEW u,
         BufferInv(buf, e, l, burst, N, w, size, u),
         HeldEntire(buf, e, l, burst, N, w, u), 0 < l
  PROVE  buf[(e + 0) % N].at = 0
<1>1. l \in Nat /\ Len(burst) \in Nat
  BY DEF BufferInv
<1>2. PICK q : q = Held(buf, e, l, burst, N) /\ IsHeld(q, buf, e, l, burst, Len(burst), N)
  BY <1>1, HeldIs
<1>3. 0 \in 0..(l - 1) /\ 0 \in 0..((l + Len(burst)) - 1) /\ ~(0 < 0)
  BY <1>1
<1>4. q[0] = buf[(e + 0) % N]
  BY <1>2, <1>3, Zenon DEF IsHeld
<1>5. q[0].at = 0
  <2>1. Unbroken(q, l + Len(burst))
    BY <1>2 DEF HeldEntire, Entire
  <2>2. PICK z : z = 0 /\ z \in 0..((l + Len(burst)) - 1) /\ ~(0 < z)
    BY <1>3
  <2>3. q[z].at = 0
    BY <2>1, <2>2, Zenon DEF Unbroken
  <2> QED BY <2>2, <2>3
<1> QED BY <1>4, <1>5

\* What is held when packet p is taken.
HeldTakenFrom(buf, e, l, burst, N, w, u, p) ==
  /\ HeldEntire(buf, e, l, burst, N, w, p)
  /\ ~(w[p] =< Dest) => HeldEntire(buf, e, l, burst, N, w, u)
  /\ NoneBetween(w, u, p)

LEMMA HeldTakes ==
  ASSUME NEW buf, NEW e, NEW l, NEW burst, NEW N, NEW w, NEW size, NEW u,
         BufferInv(buf, e, l, burst, N, w, size, u),
         HeldEntire(buf, e, l, burst, N, w, u),
         NEW p, p = buf[(e + 0) % N].p, NEW m \in 1..l, m = size[p],
         NEW e2 \in 0..N, e2 = e + m \/ e2 = e + m - N
  PROVE  HeldTakenFrom(buf, e2, l - m, burst, N, w, u, p)
<1>1. /\ l \in Nat /\ w \in Seq(Lens) /\ Len(w) \in Nat /\ u \in Nat
      /\ size \in [1..Len(w) -> Nat] /\ Len(burst) \in Nat
  BY DEF BufferInv
<1>2. PICK b \in Nat : b = Len(burst)
  BY <1>1
<1>3. PICK q : q = Held(buf, e, l, burst, N)
  OBVIOUS
<1>4. PICK r : r = Held(buf, e2, l - m, burst, N)
  OBVIOUS
<1>5. PICK n \in Nat : n = l + b /\ n > 0 /\ m \in 1..n /\ n - m = (l - m) + b
  <2>1. l \in Nat /\ m \in 1..l /\ b \in Nat
    BY <1>1
  <2>2. l + b \in Nat /\ l + b > 0 /\ m \in 1..(l + b) /\ (l + b) - m = (l - m) + b
    BY <2>1
  <2> QED BY <2>2
<1>6. Without(q, r, n, m)
  <2>1. m \in 0..l
    BY <1>1
  <2>2. \A k \in 0..((l + Len(burst)) - m - 1) : r[k] = q[k + m]
    BY <1>3, <1>4, <2>1, HeldDrop
  <2> QED BY <1>2, <1>5, <2>2 DEF Without
<1>7. Pieces(q, n, Len(w), size, u) /\ Unbroken(q, n) /\ AllThere(q, n, w, u)
  BY <1>2, <1>3, <1>5 DEF BufferInv, HeldEntire, Entire
<1>8. q[0].p = p
  <2>1. IsHeld(q, buf, e, l, burst, Len(burst), N) /\ 0 \in 0..(l - 1)
    BY <1>1, <1>3, HeldIs
  <2>2. q[0] = buf[(e + 0) % N]
    BY <2>1, Zenon DEF IsHeld
  <2> QED BY <2>2
<1>9. m = size[q[0].p]
  BY <1>8
<1>10. q[0].at = 0 /\ Unbroken(r, n - m)
  BY <1>1, <1>5, <1>6, <1>7, <1>9, UnbrokenWithout
<1>11. TakenFrom(r, n - m, w, u, p)
  BY <1>1, <1>5, <1>6, <1>7, <1>8, <1>10, AllThereTake
<1> QED BY <1>2, <1>4, <1>5, <1>10, <1>11 DEF HeldTakenFrom, TakenFrom, HeldEntire, Entire

-----------------------------------------------------------------------------
(* Nothing that fits is left out of the PicoWifi's ring.                    *)

LEMMA NoneBetweenSame == ASSUME NEW w, NEW u \in Nat PROVE NoneBetween(w, u, u)
BY DEF NoneBetween

LEMMA PicoArrivesEntire ==
  ASSUME Received, PicoInv, PicoEntire(dev, wire, up), Pico!Arrive
  PROVE  PicoEntire(dev', wire', up')
<1>1. PICK n \in Lens :
        /\ wire' = Append(wire, n)
        /\ dev' = [dev EXCEPT !.burst = @ \o Pico!Cells(Len(wire) + 1, n)]
  BY DEF Pico!Arrive
<1>2. up' = up
  BY DEF Pico!Arrive
<1>3. PICK s \in Nat \ {0} : s = Pico!H + n
  BY PicoNat
<1>4. PICK more : more = [i \in 1..s |-> [p |-> Len(wire) + 1, at |-> i - 1]]
  OBVIOUS
<1>5. Pico!Cells(Len(wire) + 1, n) = more
  BY <1>3, <1>4 DEF Pico!Cells
<1>6. BufferInv(dev.buf, dev.read, dev.level, dev.burst, Pico!FIFO_SIZE, wire,
                PicoSizes(wire), up)
  BY DEF PicoInv, PicoOK
<1>7. /\ dev'.buf = dev.buf /\ dev'.read = dev.read /\ dev'.level = dev.level
      /\ dev'.burst = dev.burst \o more
      /\ dev'.faults = dev.faults /\ dev'.cut = dev.cut
  BY <1>1, <1>5 DEF PicoInv, PicoOK, PicoDevs
<1>8. SUFFICES ASSUME dev.faults = 0, ~dev.cut
               PROVE  HeldEntire(dev.buf, dev.read, dev.level, dev.burst \o more,
                                 Pico!FIFO_SIZE, Append(wire, n), up)
  BY <1>1, <1>2, <1>7 DEF PicoEntire
<1>9. HeldEntire(dev.buf, dev.read, dev.level, dev.burst, Pico!FIFO_SIZE, wire, up)
  BY <1>8 DEF PicoEntire
<1> QED BY <1>4, <1>6, <1>9, HeldArrives

\* A transfer that empties the device's FIFO.
LEMMA PicoEnqueuesEntire ==
  ASSUME NEW d, NEW w, NEW u, PicoOK(d, w, u), PicoEntire(d, w, u), Pico!HasRoom(d)
  PROVE  PicoEntire(Pico!Enqueue(d, Len(d.burst)), w, u)
<1> DEFINE F == Pico!FIFO_SIZE
<1>1. /\ d \in PicoDevs(Len(w)) /\ Len(d.burst) =< Fifo
      /\ (d.write - d.read - d.level) % F = 0
      /\ BufferInv(d.buf, d.read, d.level, d.burst, F, w, PicoSizes(w), u)
  BY DEF PicoOK
<1>2. PICK n \in Nat : n = Len(d.burst)
  BY <1>1 DEF PicoDevs
<1>3. PICK e : e = Pico!Enqueue(d, n)
  OBVIOUS
<1>4. d.write \in 0..F /\ d.level + n =< F /\ n \in 0..Len(d.burst)
  <2>1. d.level \in 0..F /\ d.write \in 0..F
    BY <1>1 DEF PicoDevs
  <2>2. PICK l \in 0..F : l = d.level
    BY <2>1
  <2>3. n =< Fifo /\ F - l >= Fifo /\ Fifo \in Nat /\ F \in Nat
    BY <1>1, <1>2, <2>2, PicoNat DEF Pico!HasRoom
  <2> QED BY <1>2, <2>1, <2>2, <2>3
<1>5. PICK buf2 : buf2 = [i \in 0..(F - 1) |->
                            IF (i - d.write) % F < n THEN d.burst[((i - d.write) % F) + 1]
                            ELSE d.buf[i]]
  OBVIOUS
<1>6. e = [d EXCEPT !.buf = buf2, !.burst = SubSeq(d.burst, n + 1, Len(d.burst)),
                    !.level = d.level + n, !.write = Pico!Moved(d.write, n)]
  BY <1>3, <1>5 DEF Pico!Enqueue
<1>7. /\ e.buf = buf2 /\ e.level = d.level + n /\ e.read = d.read
      /\ e.burst = SubSeq(d.burst, n + 1, Len(d.burst))
      /\ e.faults = d.faults /\ e.cut = d.cut
  BY <1>1, <1>6 DEF PicoDevs
<1>8. ASSUME d.faults = 0, ~d.cut
      PROVE  HeldEntire(buf2, d.read, d.level + n, SubSeq(d.burst, n + 1, Len(d.burst)),
                        F, w, u)
  <2>1. \A g \in 0..(F - 1) :
          buf2[g] = IF (g - d.write) % F < n THEN d.burst[((g - d.write) % F) + 1]
                    ELSE d.buf[g]
    BY <1>5
  <2>2. HeldEntire(d.buf, d.read, d.level, d.burst, F, w, u)
    BY <1>8 DEF PicoEntire
  <2> QED BY <1>1, <1>4, <2>1, <2>2, HeldFills
<1>9. PicoEntire(e, w, u)
  BY <1>7, <1>8 DEF PicoEntire
<1> QED BY <1>2, <1>3, <1>9

LEMMA PicoTransfersEntire ==
  ASSUME NEW d, NEW w, NEW u, PicoOK(d, w, u), PicoEntire(d, w, u),
         NEW t \in IF Pico!HasRoom(d) THEN Pico!Transfers(d) ELSE {d}
  PROVE  PicoEntire(t, w, u)
<1>1. CASE ~Pico!HasRoom(d)
  BY <1>1
<1>2. CASE Pico!HasRoom(d) /\ t = Pico!Enqueue(d, Len(d.burst))
  BY <1>2, PicoEnqueuesEntire
<1>3. CASE \/ t = [d EXCEPT !.faults = @ + 1]
           \/ t = [d EXCEPT !.faults = @ + 1, !.burst = <<>>]
  <2>1. d \in PicoDevs(Len(w)) /\ d.faults \in Nat
    <3>1. d \in PicoDevs(Len(w))
      BY DEF PicoOK
    <3>2. d.faults \in 0..MaxFaults
      BY <3>1 DEF PicoDevs
    <3> QED BY <3>1, <3>2, PicoNat
  <2>2. t.faults = d.faults + 1
    BY <1>3, <2>1 DEF PicoDevs
  <2> QED BY <2>1, <2>2 DEF PicoEntire
<1> QED BY <1>1, <1>2, <1>3 DEF Pico!Transfers

\* The magic word is at the head, and the packet behind it is there as a whole.
LEMMA PicoHeadEntire ==
  ASSUME NEW d, NEW w, NEW u, PicoOK(d, w, u), 4 < d.level,
         HeldEntire(d.buf, d.read, d.level, d.burst, Pico!FIFO_SIZE, w, u),
         NEW p, p = Pico!Cell(d, 0).p
  PROVE  /\ Pico!MagicAhead(d) /\ p \in 1..Len(w) /\ w[p] \in Lens
         /\ Pico!H + w[p] =< d.level /\ PicoSizes(w)[p] = Pico!H + w[p]
<1> DEFINE F == Pico!FIFO_SIZE
<1>1. /\ d \in PicoDevs(Len(w)) /\ w \in Seq(Lens) /\ Len(w) \in Nat
      /\ BufferInv(d.buf, d.read, d.level, d.burst, F, w, PicoSizes(w), u)
      /\ BufferInv(d.buf, d.read, d.level, <<>>, F, w, PicoSizes(w), u)
  BY DEF PicoOK, BufferInv
<1>2. PICK l \in Nat : l = d.level /\ 4 < l
  BY <1>1, PicoNat DEF PicoDevs
<1>3. 0 < d.level /\ 1 < d.level
  BY <1>2
<1>4. p = d.buf[(d.read + 0) % F].p
  BY DEF Pico!Cell
<1>5. d.buf[(d.read + 0) % F].at = 0
  BY <1>1, <1>3, HeldHead
<1>6. /\ p \in 1..Len(w) /\ PicoSizes(w)[p] =< d.level + Len(<<>>)
      /\ \A k \in 1..(PicoSizes(w)[p] - 1) :
           k < d.level => d.buf[(d.read + k) % F] = [p |-> p, at |-> k]
  BY <1>1, <1>3, <1>4, <1>5, BufferHead
<1>7. w[p] \in Lens
  BY <1>1, <1>6
<1>8. PicoSizes(w)[p] = Pico!H + w[p] /\ w[p] \in Nat
  BY <1>6, <1>7, PicoNat DEF PicoSizes
<1>9. Pico!H + w[p] =< d.level
  BY <1>2, <1>6, <1>8
<1>10. d.buf[(d.read + 1) % F] = [p |-> p, at |-> 1]
  <2>1. 1 \in 1..((Pico!H + w[p]) - 1)
    BY <1>8, PicoNat
  <2> QED BY <1>3, <1>6, <1>8, <2>1
<1>11. Pico!MagicAhead(d)
  <2>1. p # 0
    BY <1>6
  <2> QED BY <1>4, <1>5, <1>10, <2>1 DEF Pico!MagicAhead, Pico!Cell
<1> QED BY <1>6, <1>7, <1>8, <1>9, <1>11

\* The ring when a packet of n cells is out, c if a part of it is not.
PicoOut(d, n, c) ==
  LET d2 == Pico!Dequeue(Pico!Dequeue([d EXCEPT !.resync = 0], 4), n)
  IN [d2 EXCEPT !.cut = @ \/ c]

LEMMA PicoOutIs ==
  ASSUME NEW last, NEW d \in PicoDevs(last), NEW n, NEW c \in BOOLEAN,
         NEW e, e = PicoOut(d, n, c)
  PROVE  /\ e.buf = d.buf /\ e.burst = d.burst /\ e.faults = d.faults
         /\ e.cut = (d.cut \/ c)
         /\ e.level = d.level - 4 - n
         /\ e.read = Pico!Moved(Pico!Moved(d.read, 4), n)
<1>1. PICK d0 : d0 = [d EXCEPT !.resync = 0]
  OBVIOUS
<1>2. d0 = [buf |-> d.buf, level |-> d.level, read |-> d.read, write |-> d.write,
            resync |-> 0, burst |-> d.burst, faults |-> d.faults, cut |-> d.cut]
  BY <1>1 DEF PicoDevs
<1>3. PICK d1 : d1 = Pico!Dequeue(d0, 4)
  OBVIOUS
<1>4. d1 = [buf |-> d.buf, level |-> d.level - 4, read |-> Pico!Moved(d.read, 4),
            write |-> d.write, resync |-> 0, burst |-> d.burst, faults |-> d.faults,
            cut |-> d.cut]
  BY <1>2, <1>3 DEF Pico!Dequeue
<1>5. PICK d2 : d2 = Pico!Dequeue(d1, n)
  OBVIOUS
<1>6. d2 = [buf |-> d.buf, level |-> d.level - 4 - n,
            read |-> Pico!Moved(Pico!Moved(d.read, 4), n),
            write |-> d.write, resync |-> 0, burst |-> d.burst, faults |-> d.faults,
            cut |-> d.cut]
  BY <1>4, <1>5 DEF Pico!Dequeue
<1>7. e = [d2 EXCEPT !.cut = @ \/ c]
  BY <1>1, <1>3, <1>5 DEF PicoOut
<1> QED BY <1>6, <1>7

\* What a call leaves in the ring, and what it left out.
PicoLeaves(r) ==
  LET u == IF r.up = 0 THEN up ELSE r.up
  IN PicoEntire(r.st, wire, u)
     /\ (r.st.faults = 0 /\ ~r.st.cut => NoneBetween(wire, up, u))

LEMMA PicoExtractsEntire ==
  ASSUME NEW d, PicoOK(d, wire, up), PicoEntire(d, wire, up)
  PROVE  PicoLeaves(Pico!Extract(d))
<1> DEFINE F == Pico!FIFO_SIZE
           p == Pico!Cell(d, 0).p
           n == wire[p]
           size == IF Dest < n THEN Dest ELSE n
           d0 == [d EXCEPT !.resync = 0]
<1>1. /\ d \in PicoDevs(Len(wire)) /\ wire \in Seq(Lens) /\ Pico!H = 4 /\ up \in Nat
      /\ BufferInv(d.buf, d.read, d.level, d.burst, F, wire, PicoSizes(wire), up)
  BY PicoNat DEF PicoOK, BufferInv
<1>2. PICK l \in 0..F : l = d.level /\ l \in Nat
  BY <1>1, PicoNat DEF PicoDevs
<1>3. NoneBetween(wire, up, up)
  BY <1>1, NoneBetweenSame
<1>4. CASE l =< 4
  <2>1. Pico!Extract(d) = [st |-> d, up |-> 0]
    BY <1>1, <1>2, <1>4 DEF Pico!Extract
  <2> QED BY <1>3, <2>1 DEF PicoLeaves
<1>5. CASE 4 < l /\ (d.faults # 0 \/ d.cut)
  <2>1. PICK c \in BOOLEAN : c = (size < n)
    <3>1. (size < n) \in BOOLEAN
      OBVIOUS
    <3> QED BY <3>1, Zenon
  <2>2. \/ Pico!Extract(d).st = Pico!Resync(d)
        \/ Pico!Extract(d).st = d0
        \/ Pico!Extract(d).st = PicoOut(d, size, c)
    <3>1. \/ Pico!Extract(d).st = Pico!Resync(d)
          \/ Pico!Extract(d).st = d0
          \/ Pico!Extract(d).st = PicoOut(d, size, size < n)
      BY <1>1, <1>2, <1>5 DEF Pico!Extract, PicoOut
    <3> QED BY <2>1, <3>1, Zenon
  <2>3. PICK e : e = Pico!Extract(d).st
    OBVIOUS
  <2>4. e.faults # 0 \/ e.cut
    <3>1. CASE e = Pico!Resync(d)
      <4>1. e.faults = d.faults /\ e.cut = d.cut
        BY <1>1, <3>1 DEF PicoDevs, Pico!Resync, Pico!FifoReset, Pico!Dequeue
      <4> QED BY <1>5, <4>1
    <3>2. CASE e = d0
      <4>1. e.faults = d.faults /\ e.cut = d.cut
        BY <1>1, <3>2 DEF PicoDevs
      <4> QED BY <1>5, <4>1
    <3>3. CASE e = PicoOut(d, size, c)
      <4>1. e.faults = d.faults /\ e.cut = (d.cut \/ c)
        BY <1>1, <3>3, PicoOutIs
      <4> QED BY <1>5, <4>1
    <3> QED BY <2>2, <2>3, <3>1, <3>2, <3>3
  <2> QED BY <2>3, <2>4 DEF PicoLeaves, PicoEntire
<1>6. CASE 4 < l /\ d.faults = 0 /\ ~d.cut
  <2>1. HeldEntire(d.buf, d.read, d.level, d.burst, F, wire, up)
    BY <1>6 DEF PicoEntire
  <2>2. 4 < d.level
    BY <1>2, <1>6
  <2>3. /\ Pico!MagicAhead(d) /\ p \in 1..Len(wire) /\ n \in Lens
        /\ Pico!H + n =< d.level /\ PicoSizes(wire)[p] = Pico!H + n
    BY <2>1, <2>2, PicoHeadEntire
  <2>4. PICK m \in 1..l : m = 4 + n /\ m = PicoSizes(wire)[p] /\ n \in Nat /\ m =< Fifo
    <3>1. n \in Nat /\ 4 + n =< Fifo /\ 4 + n =< l
      BY <1>1, <1>2, <2>3, PicoNat
    <3>2. 4 + n \in 1..l
      BY <1>2, <3>1
    <3> QED BY <1>1, <2>3, <3>1, <3>2
  <2>5. PICK c \in BOOLEAN : c = (size < n)
    <3>1. (size < n) \in BOOLEAN
      OBVIOUS
    <3> QED BY <3>1, Zenon
  <2>6. Pico!Extract(d) = [st |-> PicoOut(d, size, c), up |-> Pico!Copied(d, size)]
    <3>1. ~(d.level =< 4) /\ ~(d.level < 4 + n)
      BY <1>2, <1>6, <2>4
    <3> QED BY <1>1, <2>3, <2>5, <3>1 DEF Pico!Extract, PicoOut
  <2>7. PICK e : e = PicoOut(d, size, c)
    OBVIOUS
  <2>8. Dest \in Nat
    BY DriverAssumption DEF DriverAssumption
  <2>9. /\ e.buf = d.buf /\ e.burst = d.burst /\ e.faults = d.faults
        /\ e.cut = (d.cut \/ c)
        /\ e.level = d.level - 4 - size
        /\ e.read = Pico!Moved(Pico!Moved(d.read, 4), size)
    BY <1>1, <2>7, PicoOutIs
  <2>10. CASE c
    <3>1. e.cut
      BY <2>9, <2>10, Zenon
    <3> QED BY <2>6, <2>7, <3>1 DEF PicoLeaves, PicoEntire
  <2>11. CASE ~c
    <3>1. size = n /\ n =< Dest
      <4>1. ~(size < n)
        BY <2>5, <2>11, Zenon
      <4> QED BY <2>4, <2>8, <4>1
    <3>2. Pico!Copied(d, size) = p /\ p # 0
      <4>1. \A k \in 0..wire[p] : Pico!H + k =< d.level => Pico!Copied(d, k) = p
        BY <2>2, <2>3, PicoHead
      <4>2. n \in 0..wire[p]
        BY <2>4
      <4> QED BY <2>3, <3>1, <4>1, <4>2
    <3>3. e.level = l - m
      BY <1>2, <2>4, <2>9, <3>1
    <3>4. e.read \in 0..F /\ (e.read = d.read + m \/ e.read = d.read + m - F)
      <4>1. PICK i \in 0..F : i = d.read
        BY <1>1 DEF PicoDevs
      <4>2. F = 2 * Fifo /\ Fifo \in Nat /\ 4 \in 0..F /\ n \in 0..F
        BY <2>4, PicoNat
      <4>3. PICK j \in 0..F : j = Pico!Moved(i, 4) /\ (j = i + 4 \/ j = i + 4 - F)
        <5>1. MovedTo(Pico!Moved(i, 4), i, 4)
          BY <4>2, PicoMovedTo, Zenon
        <5> QED BY <5>1 DEF MovedTo
      <4>4. PICK k \in 0..F : k = Pico!Moved(j, n) /\ (k = j + n \/ k = j + n - F)
        <5>1. MovedTo(Pico!Moved(j, n), j, n)
          BY <4>2, PicoMovedTo, Zenon
        <5> QED BY <5>1 DEF MovedTo
      <4>5. k = i + m \/ k = i + m - F
        BY <2>4, <4>2, <4>3, <4>4
      <4> QED BY <2>9, <3>1, <4>1, <4>3, <4>4, <4>5
    <3>5. HeldTakenFrom(d.buf, e.read, d.level - m, d.burst, F, wire, up, p)
      <4>1. p = d.buf[(d.read + 0) % F].p /\ m \in 1..d.level /\ m = PicoSizes(wire)[p]
        BY <1>2, <2>4 DEF Pico!Cell
      <4> QED BY <1>1, <2>1, <3>4, <4>1, HeldTakes
    <3>6. HeldEntire(e.buf, e.read, e.level, e.burst, F, wire, p) /\ NoneBetween(wire, up, p)
      BY <1>2, <2>9, <3>3, <3>5 DEF HeldTakenFrom
    <3> QED BY <2>6, <2>7, <3>2, <3>6 DEF PicoLeaves, PicoEntire
  <2> QED BY <2>10, <2>11
<1> QED BY <1>2, <1>4, <1>5, <1>6

LEMMA PicoReceivesEntire ==
  ASSUME Received, PicoInv, PicoEntire(dev, wire, up), Pico!Recv
  PROVE  /\ PicoEntire(dev', wire', up')
         /\ dev'.faults = 0 /\ ~dev'.cut => NoneBetween(wire, up, up')
<1>1. PICK t \in IF Pico!HasRoom(dev) THEN Pico!Transfers(dev) ELSE {dev} :
        /\ dev' = Pico!Extract(t).st
        /\ up' = IF Pico!Extract(t).up = 0 THEN up ELSE Pico!Extract(t).up
        /\ wire' = wire
  BY DEF Pico!Recv
<1>2. PicoOK(t, wire, up) /\ PicoEntire(t, wire, up)
  BY <1>1, PicoTransfers, PicoTransfersEntire DEF PicoInv
<1>3. PicoLeaves(Pico!Extract(t))
  BY <1>2, PicoExtractsEntire
<1> QED BY <1>1, <1>3 DEF PicoLeaves

-----------------------------------------------------------------------------
(* Nothing that fits is left out of the ASIX driver's buffer, unless a packet*)
(* ended where the buffer ends.                                             *)

LEMMA AsixArrivesEntire ==
  ASSUME Received, AsixInv, AsixEntire(dev, wire, up), Asix!Arrive
  PROVE  AsixEntire(dev', wire', up')
<1>1. PICK n \in Lens :
        /\ wire' = Append(wire, n)
        /\ dev' = [dev EXCEPT !.burst = @ \o Asix!Bytes(Len(wire) + 1, n)]
  BY DEF Asix!Arrive
<1>2. up' = up
  BY DEF Asix!Arrive
<1>3. PICK s \in Nat \ {0} : s = Asix!H + Asix!Padded(n)
  BY AsixPadded
<1>4. PICK more : more = [i \in 1..s |-> [p |-> Len(wire) + 1, at |-> i - 1]]
  OBVIOUS
<1>5. Asix!Bytes(Len(wire) + 1, n) = more
  BY <1>3, <1>4 DEF Asix!Bytes
<1>6. BufferInv(dev.buf, dev.empty, dev.left, dev.burst, Asix!End, wire,
                AsixSizes(wire), up)
  BY DEF AsixInv, AsixOK
<1>7. /\ dev'.buf = dev.buf /\ dev'.empty = dev.empty /\ dev'.left = dev.left
      /\ dev'.burst = dev.burst \o more /\ dev'.end = dev.end
      /\ dev'.faults = dev.faults /\ dev'.beyond = dev.beyond
  BY <1>1, <1>5 DEF AsixInv, AsixOK, AsixDevs
<1>8. SUFFICES ASSUME dev.faults = 0, ~dev.beyond
               PROVE  /\ HeldEntire(dev.buf, dev.empty, dev.left, dev.burst \o more,
                                    Asix!End, Append(wire, n), up)
                      /\ dev.end => BufferInv(dev.buf, dev.empty, dev.left, <<>>, Asix!End,
                                              Append(wire, n), AsixSizes(wire'), up)
  BY <1>1, <1>2, <1>7 DEF AsixEntire
<1>9. /\ HeldEntire(dev.buf, dev.empty, dev.left, dev.burst, Asix!End, wire, up)
      /\ dev.end => BufferInv(dev.buf, dev.empty, dev.left, <<>>, Asix!End, wire,
                              AsixSizes(wire), up)
  BY <1>8 DEF AsixEntire
<1>10. HeldEntire(dev.buf, dev.empty, dev.left, dev.burst \o more, Asix!End,
                  Append(wire, n), up)
  BY <1>4, <1>6, <1>9, HeldArrives
<1>11. /\ AsixSizes(wire') \in [1..(Len(wire) + 1) -> Nat]
       /\ \A p \in 1..Len(wire) : AsixSizes(wire')[p] = AsixSizes(wire)[p]
  BY <1>1, AsixSizesType DEF Received
<1>12. ASSUME dev.end
       PROVE  BufferInv(dev.buf, dev.empty, dev.left, <<>>, Asix!End, Append(wire, n),
                        AsixSizes(wire'), up)
  BY <1>9, <1>11, <1>12, BufferLost
<1> QED BY <1>10, <1>12

\* What usb_bulk_msg() changes when it delivers n bytes.
AsixFilledOf(d, n, t) ==
  /\ t.empty = d.empty /\ t.left = d.left + n /\ (t.end <=> n < Urb)
  /\ t.burst = SubSeq(d.burst, n + 1, Len(d.burst))
  /\ t.faults = d.faults /\ t.beyond = d.beyond
  /\ \A g \in 0..(Asix!End - 1) :
       t.buf[g] = IF (g - d.fill) % Asix!End < n
                  THEN d.burst[((g - d.fill) % Asix!End) + 1] ELSE d.buf[g]

LEMMA AsixFilledIs ==
  ASSUME NEW last, NEW d \in AsixDevs(last), NEW n \in 0..Urb,
         NEW t, t = Asix!Filled(d, n)
  PROVE  AsixFilledOf(d, n, t)
<1> DEFINE N == Asix!End
<1>1. PICK f \in {0, Urb} : f = d.fill
  BY DEF AsixDevs
<1>2. PICK buf2 : buf2 = [i \in 0..(N - 1) |->
                            IF i \in f..(f + n - 1) THEN d.burst[i - f + 1] ELSE d.buf[i]]
  OBVIOUS
<1>3. /\ t.buf = buf2 /\ t.empty = d.empty /\ t.left = d.left + n /\ t.end = (n < Urb)
      /\ t.burst = SubSeq(d.burst, n + 1, Len(d.burst))
      /\ t.faults = d.faults /\ t.beyond = d.beyond
  BY <1>1, <1>2 DEF AsixDevs, Asix!Filled
<1>4. ASSUME NEW g \in 0..(N - 1)
      PROVE  buf2[g] = IF (g - f) % N < n THEN d.burst[((g - f) % N) + 1] ELSE d.buf[g]
  <2>1. Urb \in Nat \ {0} /\ N \in Nat \ {0} /\ N = 2 * Urb
    BY AsixNat
  <2>2. OneOf(f, n, g, N)
    BY <2>1, HalfPlace
  <2> QED BY <1>2, <2>2 DEF OneOf
<1>5. t.end <=> n < Urb
  BY <1>3, Zenon
<1> QED BY <1>1, <1>3, <1>4, <1>5 DEF AsixFilledOf

\* A transfer in which nothing fails brings all, or a half of the buffer.
LEMMA AsixFillsEntire ==
  ASSUME NEW d, NEW w, NEW u, AsixOK(d, w, u), AsixEntire(d, w, u), Asix!NeedsRead(d),
         NEW n, n = IF Len(d.burst) < Urb THEN Len(d.burst) ELSE Urb,
         n % 2 = 0
  PROVE  /\ AsixEntire(Asix!Filled(d, n), w, u)
         /\ Asix!Filled(d, n).end \/ Urb =< Asix!Filled(d, n).left
<1> DEFINE N == Asix!End
<1>1. /\ d \in AsixDevs(Len(w)) /\ ~d.end
      /\ InStep(d.fill, d.empty, d.left, N)
      /\ BufferInv(d.buf, d.empty, d.left, d.burst, N, w, AsixSizes(w), u)
  BY DEF AsixOK, Asix!NeedsRead
<1>2. PICK b \in Nat : b = Len(d.burst)
  BY <1>1 DEF AsixDevs
<1>3. n \in 0..b /\ n \in 0..Urb /\ n \in Nat /\ (n < Urb => n = b)
  BY <1>2, AsixNat
<1>4. PICK l \in 0..Urb : l = d.left /\ l + n =< N /\ l \in Nat
  <2>1. d.left \in 0..N
    BY <1>1 DEF AsixDevs
  <2>2. PICK l \in 0..N : l = d.left
    BY <2>1
  <2>3. l =< Urb
    BY <2>2 DEF Asix!NeedsRead
  <2>4. l \in 0..Urb /\ l + n =< N /\ l \in Nat
    BY <1>3, <2>3, AsixNat
  <2> QED BY <2>2, <2>4
<1>5. PICK f \in 0..N : f = d.fill /\ (f - d.empty - l) % N = 0
  <2>1. d.fill \in {0, Urb} /\ 0 \in 0..N /\ Urb \in 0..N
    BY <1>1, AsixNat DEF AsixDevs
  <2> QED BY <1>1, <1>4, <2>1 DEF InStep
<1>6. PICK t : t = Asix!Filled(d, n)
  OBVIOUS
<1>7. /\ t.empty = d.empty /\ t.left = l + n /\ (t.end <=> n < Urb)
      /\ t.burst = SubSeq(d.burst, n + 1, Len(d.burst))
      /\ t.faults = d.faults /\ t.beyond = d.beyond
      /\ \A g \in 0..(N - 1) :
           t.buf[g] = IF (g - f) % N < n THEN d.burst[((g - f) % N) + 1] ELSE d.buf[g]
  <2>1. /\ t.empty = d.empty /\ t.left = d.left + n /\ (t.end <=> n < Urb)
        /\ t.burst = SubSeq(d.burst, n + 1, Len(d.burst))
        /\ t.faults = d.faults /\ t.beyond = d.beyond
        /\ \A g \in 0..(N - 1) :
             t.buf[g] = IF (g - d.fill) % N < n THEN d.burst[((g - d.fill) % N) + 1]
                        ELSE d.buf[g]
    <3>1. PICK last : last = Len(w)
      OBVIOUS
    <3>2. d \in AsixDevs(last)
      BY <1>1, <3>1
    <3>3. AsixFilledOf(d, n, t)
      BY <1>3, <1>6, <3>2, AsixFilledIs
    <3> QED BY <3>3 DEF AsixFilledOf
  <2> QED BY <1>4, <1>5, <2>1
<1>8. ASSUME d.faults = 0, ~d.beyond
      PROVE  HeldEntire(t.buf, d.empty, l + n, t.burst, N, w, u)
  <2>1. HeldEntire(d.buf, d.empty, l, d.burst, N, w, u)
    BY <1>4, <1>8 DEF AsixEntire
  <2>2. BufferInv(d.buf, d.empty, l, d.burst, N, w, AsixSizes(w), u)
    BY <1>1, <1>4
  <2>3. n \in 0..Len(d.burst)
    BY <1>2, <1>3
  <2>4. PICK buf2 : buf2 = t.buf
    OBVIOUS
  <2>5. \A g \in 0..(N - 1) :
          buf2[g] = IF (g - f) % N < n THEN d.burst[((g - f) % N) + 1] ELSE d.buf[g]
    BY <1>7, <2>4
  <2>6. l + n =< N /\ (f - d.empty - l) % N = 0
    BY <1>4, <1>5
  <2>7. HeldEntire(buf2, d.empty, l + n, SubSeq(d.burst, n + 1, Len(d.burst)), N, w, u)
    BY <2>1, <2>2, <2>3, <2>5, <2>6, HeldFills
  <2> QED BY <1>7, <2>4, <2>7
<1>9. ASSUME t.end
      PROVE  BufferInv(t.buf, t.empty, t.left, <<>>, N, w, AsixSizes(w), u)
  <2>1. AsixOK(t, w, u)
    <3>1. n \in 0..Len(d.burst) /\ n =< Urb
      BY <1>2, <1>3, AsixNat
    <3> QED BY <1>6, <3>1, AsixFills
  <2>2. n = b
    BY <1>3, <1>7, <1>9
  <2>3. t.burst = <<>>
    <3>1. Len(d.burst) < n + 1
      BY <1>2, <2>2
    <3>2. SubSeq(d.burst, n + 1, Len(d.burst)) = <<>>
      <4>1. PICK S : S = [p : 1..Len(w), at : 0..(Urb - 1)]
        OBVIOUS
      <4>2. PICK rest : rest = SubSeq(d.burst, n + 1, Len(d.burst))
        OBVIOUS
      <4>3. rest \in Seq(S) /\ Len(rest) = b - n
        <5>1. d.burst \in Seq(S)
          BY <1>1, <4>1 DEF AsixDevs
        <5> QED BY <1>2, <1>3, <4>2, <5>1, Rest
      <4>4. Len(rest) = 0
        BY <1>2, <2>2, <4>3
      <4>5. rest = <<>>
        BY <4>3, <4>4
      <4> QED BY <4>2, <4>5
    <3> QED BY <1>7, <3>2
  <2> QED BY <2>1, <2>3 DEF AsixOK
<1>10. t.end \/ Urb =< t.left
  <2>1. n < Urb \/ Urb =< l + n
    BY <1>3, <1>4, AsixNat
  <2> QED BY <1>7, <2>1
<1>11. AsixEntire(t, w, u)
  BY <1>7, <1>8, <1>9 DEF AsixEntire
<1> QED BY <1>6, <1>10, <1>11

\* Once the transfer is done: all is there, and the packet at the head is.
AsixReady(d, w, u) ==
  /\ AsixEntire(d, w, u)
  /\ d.faults = 0 /\ ~d.beyond => d.end \/ Urb =< d.left

LEMMA AsixTransfersEntire ==
  ASSUME NEW d, NEW w, NEW u, AsixOK(d, w, u), AsixEntire(d, w, u),
         NEW t \in IF Asix!NeedsRead(d) THEN Asix!Transfers(d)
                   ELSE {[st |-> d, ok |-> TRUE]}
  PROVE  IF t.ok THEN AsixReady(t.st, w, u) ELSE Asix!Reset(t.st).faults # 0
<1>1. d \in AsixDevs(Len(w)) /\ Len(d.burst) % 2 = 0
  BY DEF AsixOK
<1>2. PICK x \in Nat : x = d.faults /\ x + 1 # 0
  <2>1. d.faults \in 0..MaxFaults
    BY <1>1 DEF AsixDevs
  <2> QED BY <2>1, AsixNat
<1>3. PICK n : n = IF Len(d.burst) < Urb THEN Len(d.burst) ELSE Urb
  OBVIOUS
<1>4. CASE ~Asix!NeedsRead(d)
  <2>1. t = [st |-> d, ok |-> TRUE]
    BY <1>4
  <2>2. d.end \/ Urb =< d.left
    <3>1. d.left \in 0..Asix!End /\ Urb \in Nat
      BY <1>1, AsixNat DEF AsixDevs
    <3>2. PICK l \in Int : l = d.left
      BY <3>1
    <3> QED BY <1>4, <3>1, <3>2 DEF Asix!NeedsRead
  <2> QED BY <2>1, <2>2 DEF AsixReady
<1>5. CASE Asix!NeedsRead(d) /\ t = [st |-> Asix!Filled(d, n), ok |-> TRUE]
  <2>1. n % 2 = 0
    BY <1>1, <1>3, AsixNat
  <2>2. /\ AsixEntire(Asix!Filled(d, n), w, u)
        /\ Asix!Filled(d, n).end \/ Urb =< Asix!Filled(d, n).left
    BY <1>3, <1>5, <2>1, AsixFillsEntire
  <2> QED BY <1>5, <2>2 DEF AsixReady
<1>6. CASE t = [st |-> [Asix!Filled(d, 0) EXCEPT !.faults = @ + 1], ok |-> TRUE]
  <2>1. t.st.faults = x + 1
    BY <1>1, <1>2, <1>6 DEF AsixDevs, Asix!Filled
  <2> QED BY <1>2, <1>6, <2>1 DEF AsixReady, AsixEntire
<1>7. CASE \/ t = [st |-> [d EXCEPT !.faults = @ + 1], ok |-> FALSE]
           \/ t = [st |-> [d EXCEPT !.faults = @ + 1, !.burst = SubSeq(@, n + 1, Len(@))],
                   ok |-> FALSE]
  <2>1. PICK e : e = t.st
    OBVIOUS
  <2>2. PICK r : r = SubSeq(d.burst, n + 1, Len(d.burst))
    OBVIOUS
  <2>3. \/ e = [d EXCEPT !.faults = x + 1]
        \/ e = [d EXCEPT !.faults = x + 1, !.burst = r]
    BY <1>1, <1>2, <1>7, <2>1, <2>2 DEF AsixDevs
  <2>4. Asix!Reset(e).faults = x + 1
    BY <1>1, <2>3 DEF AsixDevs, Asix!Reset
  <2> QED BY <1>2, <1>7, <2>1, <2>4
<1> QED BY <1>3, <1>4, <1>5, <1>6, <1>7 DEF Asix!Transfers

\* A buffer that is empty holds what the adapter has, wherever it begins.
LEMMA HeldEmpty ==
  ASSUME NEW buf, NEW e, NEW burst, NEW N, NEW w, NEW u, Len(burst) \in Nat,
         HeldEntire(buf, e, 0, burst, N, w, u)
  PROVE  HeldEntire(buf, 0, 0, burst, N, w, u)
<1>1. PICK b \in Nat : b = Len(burst) /\ 0 + b = b
  OBVIOUS
<1>2. PICK q : q = Held(buf, e, 0, burst, N) /\ IsHeld(q, buf, e, 0, burst, b, N)
  BY <1>1, HeldIs
<1>3. PICK r : r = Held(buf, 0, 0, burst, N) /\ IsHeld(r, buf, 0, 0, burst, b, N)
  BY <1>1, HeldIs
<1>4. SameHeld(q, r, b)
  <2>1. ASSUME NEW k \in 0..(b - 1) PROVE r[k] = q[k]
    <3>1. k \in 0..((0 + b) - 1) /\ ~(k < 0)
      BY <1>1
    <3>2. q[k] = burst[k - 0 + 1]
      BY <1>2, <3>1, Zenon DEF IsHeld
    <3>3. r[k] = burst[k - 0 + 1]
      BY <1>3, <3>1, Zenon DEF IsHeld
    <3> QED BY <3>2, <3>3
  <2> QED BY <2>1 DEF SameHeld
<1>5. Entire(q, b, w, u)
  BY <1>1, <1>2 DEF HeldEntire
<1>6. Entire(r, b, w, u)
  BY <1>4, <1>5, EntireSame
<1> QED BY <1>1, <1>3, <1>6 DEF HeldEntire

\* The packet at the head is in the buffer as a whole once the transfer is done.
\* The size of a packet as the adapter sends it: header, packet and padding.
AsixSizeOf(x, n) ==
  /\ n \in Lens /\ x = 4 + Asix!Padded(n)
  /\ x \in Nat /\ x =< Urb /\ 3 < x

LEMMA AsixSizeIs ==
  ASSUME NEW w \in Seq(Lens), NEW p \in 1..Len(w)
  PROVE  AsixSizeOf(AsixSizes(w)[p], w[p])
<1>1. PICK n \in Lens : n = w[p]
  OBVIOUS
<1>2. /\ n \in Nat /\ n % 2 \in {0, 1} /\ Asix!Padded(n) = n + (n % 2)
      /\ 4 + Asix!Padded(n) =< Urb
  BY AsixPadded, AsixNat
<1>3. PICK h \in {0, 1} : h = n % 2
  BY <1>2
<1>4. 4 + (n + h) \in Nat /\ 3 < 4 + (n + h)
  BY <1>2
<1>5. AsixSizes(w)[p] = 4 + Asix!Padded(n)
  BY <1>1, AsixNat DEF AsixSizes
<1> QED BY <1>1, <1>2, <1>3, <1>4, <1>5 DEF AsixSizeOf

\* The packet whose first byte is at e is all there, and its header is at e.
HeadThere(buf, e, l, N, w, p) ==
  /\ p \in 1..Len(w) /\ w[p] \in Lens
  /\ AsixSizes(w)[p] = 4 + Asix!Padded(w[p]) /\ 4 + Asix!Padded(w[p]) =< l
  /\ buf[(e + 0) % N].at = 0
  /\ \A k \in 1..3 : buf[(e + k) % N] = [p |-> p, at |-> k]

LEMMA HeadIsThere ==
  ASSUME NEW buf, NEW e, NEW l \in Nat, NEW burst, NEW N, NEW w \in Seq(Lens), NEW u,
         NEW end, BufferInv(buf, e, l, burst, N, w, AsixSizes(w), u),
         HeldEntire(buf, e, l, burst, N, w, u),
         end => BufferInv(buf, e, l, <<>>, N, w, AsixSizes(w), u),
         end \/ Urb =< l, 0 < l
  PROVE  HeadThere(buf, e, l, N, w, buf[(e + 0) % N].p)
<1>1. PICK p : p = buf[(e + 0) % N].p
  OBVIOUS
<1>2. buf[(e + 0) % N].at = 0
  BY HeldHead, Zenon
<1>3. /\ p \in 1..Len(w)
      /\ \A k \in 1..(AsixSizes(w)[p] - 1) :
           k < l => buf[(e + k) % N] = [p |-> p, at |-> k]
  BY <1>1, <1>2, BufferHead
<1>4. AsixSizeOf(AsixSizes(w)[p], w[p])
  BY <1>3, AsixSizeIs, Zenon
<1>5. PICK m \in Nat : /\ m = AsixSizes(w)[p] /\ m = 4 + Asix!Padded(w[p])
                       /\ w[p] \in Lens /\ m =< Urb /\ 3 < m
  BY <1>4, Zenon DEF AsixSizeOf
<1>6. m =< l
  <2>1. CASE end
    <3>1. AsixSizes(w)[p] =< l + Len(<<>>)
      BY <1>1, <1>2, <2>1, BufferHead
    <3> QED BY <1>5, <3>1
  <2>2. CASE Urb =< l
    BY <1>5, <2>2, AsixNat
  <2> QED BY <2>1, <2>2
<1>7. \A k \in 1..3 : k \in 1..(m - 1) /\ k < l
  BY <1>5, <1>6
<1>8. \A k \in 1..3 : buf[(e + k) % N] = [p |-> p, at |-> k]
  BY <1>3, <1>5, <1>7, Zenon
<1> QED BY <1>1, <1>2, <1>3, <1>5, <1>6, <1>8, Zenon DEF HeadThere

LEMMA AsixHeadEntire ==
  ASSUME NEW d, NEW w, NEW u, AsixOK(d, w, u), AsixReady(d, w, u),
         d.faults = 0, ~d.beyond, 0 < d.left,
         NEW p, p = d.buf[(d.empty + 0) % Asix!End].p
  PROVE  HeadThere(d.buf, d.empty, d.left, Asix!End, w, p)
<1>1. /\ w \in Seq(Lens) /\ d.left \in Nat
      /\ BufferInv(d.buf, d.empty, d.left, d.burst, Asix!End, w, AsixSizes(w), u)
  BY AsixNat DEF AsixOK, AsixDevs, BufferInv
<1>2. /\ HeldEntire(d.buf, d.empty, d.left, d.burst, Asix!End, w, u)
      /\ d.end => BufferInv(d.buf, d.empty, d.left, <<>>, Asix!End, w, AsixSizes(w), u)
      /\ d.end \/ Urb =< d.left
  BY Zenon DEF AsixReady, AsixEntire
<1> QED BY <1>1, <1>2, HeadIsThere, Zenon

\* What a call leaves in the buffer, and what it left out.
AsixLeaves(r) ==
  LET u == IF r.up = 0 THEN up ELSE r.up
  IN AsixEntire(r.st, wire, u)
     /\ (r.st.faults = 0 /\ ~r.st.beyond => NoneBetween(wire, up, u))

\* What has been disturbed once remains so.
LEMMA AsixStaysDisturbed ==
  ASSUME NEW last, NEW d \in AsixDevs(last), d.faults # 0 \/ d.beyond
  PROVE  Asix!Extract(d).st.faults # 0 \/ Asix!Extract(d).st.beyond
<1> DEFINE n == wire[Asix!HeaderByte(d, 0).p]
<1>1. PICK e : e = Asix!Extract(d).st
  OBVIOUS
<1>2. PICK b \in BOOLEAN : b = (d.beyond \/ (d.left >= Asix!H /\ d.empty = Asix!End))
  <2>1. d.beyond \in BOOLEAN
    BY DEF AsixDevs
  <2>2. (d.beyond \/ (d.left >= Asix!H /\ d.empty = Asix!End)) \in BOOLEAN
    BY <2>1
  <2> QED BY <2>2, Zenon
<1>3. PICK r : r = Asix!Reset(d)
  OBVIOUS
<1>4. /\ r = [d EXCEPT !.end = FALSE, !.left = 0, !.fill = 0, !.empty = 0]
      /\ r.faults = d.faults /\ r.beyond = d.beyond
  BY <1>3 DEF AsixDevs, Asix!Reset
<1>5. PICK t : t = Asix!Taken(d, n)
  OBVIOUS
<1>6. t.faults = d.faults /\ t.beyond = d.beyond
  <2>1. PICK y, z : t = [d EXCEPT !.empty = y, !.left = z]
    BY <1>5 DEF Asix!Taken
  <2> QED BY <2>1 DEF AsixDevs
<1>7. e = [r EXCEPT !.beyond = b] \/ e = r \/ e = t
  <2>1. \/ e = [r EXCEPT !.beyond = r.beyond \/ (d.left >= Asix!H /\ d.empty = Asix!End)]
        \/ e = r \/ e = t
    BY <1>1, <1>3, <1>5 DEF Asix!Extract
  <2> QED BY <1>2, <1>4, <2>1, Zenon
<1>8. CASE e = [r EXCEPT !.beyond = b]
  <2>1. e.faults = d.faults /\ e.beyond = b
    BY <1>4, <1>8 DEF AsixDevs
  <2>2. d.beyond => b
    BY <1>2, Zenon
  <2> QED BY <1>1, <2>1, <2>2
<1>9. CASE e = r
  BY <1>1, <1>4, <1>9
<1>10. CASE e = t
  BY <1>1, <1>6, <1>10
<1> QED BY <1>7, <1>8, <1>9, <1>10

\* asix_recv() once the transfer is done.
LEMMA AsixExtractsEntire ==
  ASSUME NEW d, AsixOK(d, wire, up), AsixReady(d, wire, up)
  PROVE  AsixLeaves(Asix!Extract(d))
<1> DEFINE N == Asix!End
<1>1. /\ d \in AsixDevs(Len(wire)) /\ wire \in Seq(Lens) /\ Asix!H = 4 /\ up \in Nat
      /\ BufferInv(d.buf, d.empty, d.left, d.burst, N, wire, AsixSizes(wire), up)
  BY AsixNat DEF AsixOK, BufferInv
<1>2. PICK l \in Nat : l = d.left
  BY <1>1, AsixNat DEF AsixDevs
<1>3. NoneBetween(wire, up, up)
  BY <1>1, NoneBetweenSame
<1>4. CASE d.faults # 0 \/ d.beyond
  <2>1. PICK last : last = Len(wire)
    OBVIOUS
  <2>2. Asix!Extract(d).st.faults # 0 \/ Asix!Extract(d).st.beyond
    BY <1>1, <1>4, <2>1, AsixStaysDisturbed
  <2> QED BY <2>2 DEF AsixLeaves, AsixEntire
<1>5. CASE d.faults = 0 /\ ~d.beyond
  <2>1. /\ HeldEntire(d.buf, d.empty, d.left, d.burst, N, wire, up)
        /\ d.end => BufferInv(d.buf, d.empty, d.left, <<>>, N, wire, AsixSizes(wire), up)
    BY <1>5 DEF AsixReady, AsixEntire
  <2>2. CASE l = 0
    <3>1. PICK b \in BOOLEAN : b = (Asix!Reset(d).beyond \/ (d.left >= 4 /\ d.empty = N))
      <4>1. Asix!Reset(d).beyond \in BOOLEAN
        BY <1>1 DEF AsixDevs, Asix!Reset
      <4>2. (Asix!Reset(d).beyond \/ (d.left >= 4 /\ d.empty = N)) \in BOOLEAN
        BY <4>1
      <4> QED BY <4>2, Zenon
    <3>2. PICK e : e = [Asix!Reset(d) EXCEPT !.beyond = b]
      OBVIOUS
    <3>3. Asix!Extract(d) = [st |-> e, up |-> 0]
      <4>1. d.left < 4
        BY <1>2, <2>2
      <4> QED BY <1>1, <3>1, <3>2, <4>1 DEF Asix!Extract
    <3>4. e.buf = d.buf /\ e.empty = 0 /\ e.left = 0 /\ e.burst = d.burst /\ ~e.end
      BY <1>1, <3>2 DEF AsixDevs, Asix!Reset
    <3>5. HeldEntire(d.buf, 0, 0, d.burst, N, wire, up)
      <4>1. Len(d.burst) \in Nat
        BY <1>1 DEF AsixDevs
      <4>2. HeldEntire(d.buf, d.empty, 0, d.burst, N, wire, up)
        BY <1>2, <2>1, <2>2
      <4> QED BY <4>1, <4>2, HeldEmpty
    <3>6. AsixEntire(e, wire, up)
      BY <3>4, <3>5 DEF AsixEntire
    <3> QED BY <1>3, <3>3, <3>6 DEF AsixLeaves
  <2>3. CASE l # 0
    <3>1. PICK p : p = d.buf[(d.empty + 0) % N].p
      OBVIOUS
    <3>2. 0 < d.left
      BY <1>2, <2>3
    <3>3. /\ p \in 1..Len(wire) /\ wire[p] \in Lens
          /\ AsixSizes(wire)[p] = 4 + Asix!Padded(wire[p])
          /\ 4 + Asix!Padded(wire[p]) =< d.left
          /\ d.buf[(d.empty + 0) % N].at = 0
          /\ \A k \in 1..3 : d.buf[(d.empty + k) % N] = [p |-> p, at |-> k]
      <4>1. HeadThere(d.buf, d.empty, d.left, N, wire, p)
        BY <1>5, <3>1, <3>2, AsixHeadEntire, Zenon
      <4> QED BY <4>1, Zenon DEF HeadThere
    <3>4. PICK n \in Nat : n = wire[p] /\ n =< d.left - 4 /\ 4 =< d.left
      <4>1. /\ wire[p] \in Nat /\ wire[p] % 2 \in {0, 1}
            /\ Asix!Padded(wire[p]) = wire[p] + (wire[p] % 2)
        BY <3>3, AsixPadded
      <4>2. PICK n \in Nat, h \in {0, 1} : n = wire[p] /\ h = wire[p] % 2
        BY <4>1
      <4>3. 4 + (n + h) =< l
        BY <1>2, <3>3, <4>1, <4>2
      <4>4. n =< l - 4 /\ 4 =< l
        BY <4>3
      <4> QED BY <1>2, <4>2, <4>4
    <3>5. CASE d.empty = N
      <4>1. ~Asix!WellFormed(d)
        <5>1. 0 \in 0..(Asix!H - 1)
          BY AsixNat
        <5>2. Asix!HeaderByte(d, 0).p = 0
          BY <3>5 DEF Asix!HeaderByte, Asix!Nobyte
        <5> QED BY <5>1, <5>2 DEF Asix!WellFormed
      <4>2. d.left >= Asix!H
        BY <1>1, <1>2, <3>4
      <4>3. PICK r : r = Asix!Reset(d) /\ "beyond" \in DOMAIN r
        <5>1. "beyond" \in DOMAIN d
          BY <1>1 DEF AsixDevs
        <5>2. DOMAIN Asix!Reset(d) = DOMAIN d
          BY DEF Asix!Reset
        <5> QED BY <5>1, <5>2, Zenon
      <4>4. Asix!Extract(d).st = [r EXCEPT !.beyond = r.beyond \/ (d.left >= Asix!H /\ d.empty = N)]
        BY <4>1, <4>3 DEF Asix!Extract
      <4>5. Asix!Extract(d).st.beyond = (r.beyond \/ (d.left >= Asix!H /\ d.empty = N))
        BY <4>3, <4>4, Zenon
      <4>6. Asix!Extract(d).st.beyond
        BY <3>5, <4>2, <4>5, Zenon
      <4> QED BY <4>6 DEF AsixLeaves, AsixEntire
    <3>6. CASE d.empty # N
      <4>1. ASSUME NEW k \in 0..(Asix!H - 1)
            PROVE  Asix!HeaderByte(d, k) = [p |-> p, at |-> k]
        <5>1. Asix!HeaderByte(d, k) = d.buf[(d.empty + k) % N]
          BY <3>6 DEF Asix!HeaderByte
        <5>2. CASE k = 0
          <6>1. d.empty \in 0..N /\ N \in Nat \ {0}
            BY <1>1, AsixNat DEF AsixDevs
          <6>2. PICK i \in 0..(N - 1) : i = (d.empty + 0) % N
            BY <6>1
          <6>3. d.buf[i] \in [p : 0..Len(wire), at : 0..(Urb - 1)]
            BY <1>1 DEF AsixDevs
          <6>4. d.buf[i] = [p |-> p, at |-> 0]
            BY <3>1, <3>3, <6>2, <6>3
          <6> QED BY <5>1, <5>2, <6>2, <6>4
        <5>3. CASE k # 0
          <6>1. k \in 1..3
            BY <1>1, <5>3
          <6> QED BY <3>3, <5>1, <6>1
        <5> QED BY <5>2, <5>3
      <4>2. Asix!HeaderByte(d, 0).p = p
        <5>1. 0 \in 0..(Asix!H - 1)
          BY <1>1
        <5> QED BY <4>1, <5>1
      <4>3. Asix!WellFormed(d)
        <5>1. p # 0
          BY <3>3
        <5> QED BY <4>1, <4>2, <5>1 DEF Asix!WellFormed
      <4>4. AsixAhead(d, wire, up, p)
        BY <3>2, <4>2, <4>3, AsixHead
      <4>5. PICK t : t = Asix!Taken(d, n)
        OBVIOUS
      <4>6. /\ AsixLess(d, t, 4 + Asix!Padded(n)) /\ Asix!Copied(d, n) = p
        BY <3>4, <4>4, <4>5, AsixBehind, AsixTakes
      <4>7. PICK m \in 1..l : /\ m = 4 + Asix!Padded(n) /\ m = AsixSizes(wire)[p]
                              /\ AsixLess(d, t, m)
        <5>1. 4 + Asix!Padded(n) \in 1..l
          BY <1>2, <4>6 DEF AsixLess
        <5> QED BY <3>3, <3>4, <4>6, <5>1
      <4>8. /\ t.buf = d.buf /\ t.burst = d.burst /\ t.end = d.end /\ t.left = l - m
            /\ t.empty \in 0..N /\ (t.empty = d.empty + m \/ t.empty = d.empty + m - N)
        BY <1>2, <4>7 DEF AsixLess
      <4>9. HeldTakenFrom(d.buf, t.empty, l - m, d.burst, N, wire, up, p)
        <5>1. /\ BufferInv(d.buf, d.empty, l, d.burst, N, wire, AsixSizes(wire), up)
              /\ HeldEntire(d.buf, d.empty, l, d.burst, N, wire, up)
          BY <1>1, <1>2, <2>1
        <5> QED BY <3>1, <4>7, <4>8, <5>1, HeldTakes
      <4>10. ASSUME d.end
             PROVE  /\ BufferInv(d.buf, t.empty, l - m, <<>>, N, wire, AsixSizes(wire), up)
                    /\ BufferInv(d.buf, t.empty, l - m, <<>>, N, wire, AsixSizes(wire), p)
        <5>1. BufferInv(d.buf, d.empty, l, <<>>, N, wire, AsixSizes(wire), up)
          BY <1>2, <2>1, <4>10
        <5>2. m \in 0..l
          OBVIOUS
        <5>3. BufferInv(d.buf, t.empty, l - m, <<>>, N, wire, AsixSizes(wire), up)
          BY <4>8, <5>1, <5>2, BufferDrop
        <5>4. /\ d.buf[(d.empty + 0) % N].at = 0 /\ d.buf[(d.empty + 0) % N].p \in 0..Len(wire)
          <6>1. p \in 0..Len(wire)
            BY <3>3
          <6> QED BY <3>1, <3>3, <6>1
        <5>5. BufferInv(d.buf, t.empty, l - m, <<>>, N, wire, AsixSizes(wire),
                        d.buf[(d.empty + 0) % N].p)
          BY <4>8, <5>1, <5>4, BufferTake
        <5> QED BY <3>1, <5>3, <5>5
      <4>11. AsixEntire(t, wire, p) /\ NoneBetween(wire, up, p)
        BY <4>8, <4>9, <4>10 DEF AsixEntire, HeldTakenFrom
      <4>12. CASE n > Dest
        <5>1. Asix!Extract(d) = [st |-> t, up |-> 0]
          <6>1. ~(d.left < 4) /\ ~(n > d.left - 4)
            BY <1>2, <3>4
          <6> QED BY <1>1, <3>4, <4>2, <4>3, <4>5, <4>12, <6>1 DEF Asix!Extract
        <5>2. ~(wire[p] =< Dest)
          BY <3>4, <4>12, DriverAssumption DEF DriverAssumption
        <5>3. AsixEntire(t, wire, up)
          BY <4>8, <4>9, <4>10, <5>2 DEF AsixEntire, HeldTakenFrom
        <5> QED BY <1>3, <5>1, <5>3 DEF AsixLeaves
      <4>13. CASE ~(n > Dest)
        <5>1. Asix!Extract(d) = [st |-> t, up |-> p]
          <6>1. ~(d.left < 4) /\ ~(n > d.left - 4)
            BY <1>2, <3>4
          <6> QED BY <1>1, <3>4, <4>2, <4>3, <4>5, <4>6, <4>13, <6>1 DEF Asix!Extract
        <5>2. p # 0
          BY <3>3
        <5> QED BY <4>11, <5>1, <5>2 DEF AsixLeaves
      <4> QED BY <4>12, <4>13
    <3> QED BY <3>5, <3>6
  <2> QED BY <2>2, <2>3
<1> QED BY <1>4, <1>5

\* asix_recv()
LEMMA AsixReceivesEntire ==
  ASSUME Received, AsixInv, AsixEntire(dev, wire, up), Asix!Recv
  PROVE  /\ AsixEntire(dev', wire', up')
         /\ dev'.faults = 0 /\ ~dev'.beyond => NoneBetween(wire, up, up')
<1>1. PICK t \in IF Asix!NeedsRead(dev) THEN Asix!Transfers(dev)
                 ELSE {[st |-> dev, ok |-> TRUE]} :
        /\ dev' = (IF t.ok THEN Asix!Extract(t.st)
                   ELSE [st |-> Asix!Reset(t.st), up |-> 0]).st
        /\ up' = LET r == IF t.ok THEN Asix!Extract(t.st)
                          ELSE [st |-> Asix!Reset(t.st), up |-> 0]
                 IN IF r.up = 0 THEN up ELSE r.up
        /\ wire' = wire
  BY DEF Asix!Recv
<1>2. IF t.ok THEN AsixReady(t.st, wire, up) ELSE Asix!Reset(t.st).faults # 0
  BY <1>1, AsixTransfersEntire DEF AsixInv
<1>3. AsixOK(IF t.ok THEN t.st ELSE Asix!Reset(t.st), wire, up)
  <2>1. CASE Asix!NeedsRead(dev)
    BY <1>1, <2>1, AsixTransfers DEF AsixInv
  <2>2. CASE ~Asix!NeedsRead(dev)
    BY <1>1, <2>2 DEF AsixInv
  <2> QED BY <2>1, <2>2
<1>4. CASE t.ok
  <2>1. AsixLeaves(Asix!Extract(t.st))
    BY <1>2, <1>3, <1>4, AsixExtractsEntire
  <2> QED BY <1>1, <1>4, <2>1 DEF AsixLeaves
<1>5. CASE ~t.ok
  <2>1. dev'.faults # 0
    BY <1>1, <1>2, <1>5
  <2> QED BY <2>1 DEF AsixEntire
<1> QED BY <1>4, <1>5

-----------------------------------------------------------------------------
(* Nothing that fits is left out, whichever driver is in use.               *)

LEMMA HeldNone == ASSUME NEW buf, NEW N PROVE HeldEntire(buf, 0, 0, <<>>, N, <<>>, 0)
<1>1. Len(<<>>) = 0 /\ 0 + 0 = 0 /\ 0..(0 - 1) = {} /\ (0 + 1)..0 = {}
  OBVIOUS
<1> QED BY <1>1 DEF HeldEntire, Entire, Unbroken, AllThere

LEMMA EntireStarts == Init => EntireInv
<1> SUFFICES ASSUME Init PROVE EntireInv
  OBVIOUS
<1>1. /\ wire = <<>> /\ up = 0 /\ mode # "asix" /\ mode # "picowifi"
      /\ mode = "rtl8019" => dev = Rtl!Start
  BY DEF Init
<1>2. mode = "rtl8019" => RtlEntire(dev, wire, up)
  BY <1>1 DEF RtlEntire, Rtl!Start
<1> QED BY <1>1, <1>2 DEF EntireInv

LEMMA EntireReady == SearchInv /\ DriverInv /\ Ready => EntireInv'
<1> SUFFICES ASSUME SearchInv, DriverInv, Ready PROVE EntireInv'
  OBVIOUS
<1>1. /\ mode' \in {"over", "none", "asix", "picowifi"}
      /\ mode' \in {"asix", "picowifi"} => su.result = mode'
  BY DEF Ready, SearchInv
<1>2. wire' = <<>> /\ up' = 0
  BY DEF Ready, DriverInv
<1>3. CASE mode' = "asix"
  <2>1. dev' = Asix!Start
    BY <1>1, <1>3 DEF Ready
  <2>2. /\ dev'.empty = 0 /\ dev'.left = 0 /\ dev'.burst = <<>> /\ ~dev'.end
    BY <2>1 DEF Asix!Start
  <2>3. HeldEntire(dev'.buf, 0, 0, <<>>, Asix!End, <<>>, 0)
    BY HeldNone
  <2>4. AsixEntire(dev', wire', up')
    BY <1>2, <2>2, <2>3 DEF AsixEntire
  <2> QED BY <1>3, <2>4 DEF EntireInv
<1>4. CASE mode' = "picowifi"
  <2>1. dev' = Pico!Start
    BY <1>1, <1>4 DEF Ready
  <2>2. dev'.read = 0 /\ dev'.level = 0 /\ dev'.burst = <<>>
    BY <2>1 DEF Pico!Start
  <2>3. HeldEntire(dev'.buf, 0, 0, <<>>, Pico!FIFO_SIZE, <<>>, 0)
    BY HeldNone
  <2>4. PicoEntire(dev', wire', up')
    BY <1>2, <2>2, <2>3 DEF PicoEntire
  <2> QED BY <1>4, <2>4 DEF EntireInv
<1>5. CASE mode' \in {"over", "none"}
  BY <1>5 DEF EntireInv
<1> QED BY <1>1, <1>3, <1>4, <1>5

LEMMA EntireArrives == DriverInv /\ EntireInv /\ Arrive => EntireInv'
<1> SUFFICES ASSUME DriverInv, EntireInv, Arrive PROVE EntireInv'
  OBVIOUS
<1>1. mode' = mode /\ Received
  BY DEF Arrive, DriverInv, Received
<1>2. CASE mode = "asix" /\ Asix!Arrive
  <2>1. AsixEntire(dev', wire', up')
    BY <1>1, <1>2, AsixArrivesEntire DEF DriverInv, EntireInv
  <2> QED BY <1>1, <1>2, <2>1 DEF EntireInv
<1>3. CASE mode = "picowifi" /\ Pico!Arrive
  <2>1. PicoEntire(dev', wire', up')
    BY <1>1, <1>3, PicoArrivesEntire DEF DriverInv, EntireInv
  <2> QED BY <1>1, <1>3, <2>1 DEF EntireInv
<1>4. CASE mode = "rtl8019" /\ Rtl!Arrive
  <2>1. RtlEntire(dev', wire', up')
    BY <1>1, <1>4, RtlArrivesEntire DEF DriverInv, EntireInv
  <2> QED BY <1>1, <1>4, <2>1 DEF EntireInv
<1> QED BY <1>2, <1>3, <1>4 DEF Arrive

LEMMA EntirePolls ==
  DriverInv /\ EntireInv /\ Poll
    => EntireInv' /\ (Disturbed \/ Disturbed' \/ NoneBetween(wire, up, up'))
<1> SUFFICES ASSUME DriverInv, EntireInv, Poll
             PROVE  EntireInv' /\ (Disturbed \/ Disturbed' \/ NoneBetween(wire, up, up'))
  OBVIOUS
<1>1. mode' = mode /\ Received
  BY DEF Poll, DriverInv, Received
<1>2. CASE mode = "asix" /\ Asix!Recv
  <2>1. /\ AsixEntire(dev', wire', up')
        /\ dev'.faults = 0 /\ ~dev'.beyond => NoneBetween(wire, up, up')
    BY <1>1, <1>2, AsixReceivesEntire DEF DriverInv, EntireInv
  <2>2. dev'.faults \in Nat
    <3>1. AsixInv'
      BY <1>1, <1>2, AsixReceives DEF DriverInv
    <3>2. dev'.faults \in 0..MaxFaults
      BY <3>1 DEF AsixInv, AsixOK, AsixDevs
    <3> QED BY <3>2, AsixNat
  <2>3. dev'.faults = 0 \/ dev'.faults > 0
    BY <2>2
  <2>4. (dev'.faults > 0 \/ dev'.beyond) => Disturbed'
    BY <1>1, <1>2 DEF Disturbed, Asix!Disturbed
  <2> QED BY <1>1, <1>2, <2>1, <2>3, <2>4 DEF EntireInv
<1>3. CASE mode = "picowifi" /\ Pico!Recv
  <2>1. /\ PicoEntire(dev', wire', up')
        /\ dev'.faults = 0 /\ ~dev'.cut => NoneBetween(wire, up, up')
    BY <1>1, <1>3, PicoReceivesEntire DEF DriverInv, EntireInv
  <2>2. dev'.faults \in Nat
    <3>1. PicoInv'
      BY <1>1, <1>3, PicoReceives DEF DriverInv
    <3>2. dev'.faults \in 0..MaxFaults
      BY <3>1 DEF PicoInv, PicoOK, PicoDevs
    <3> QED BY <3>2, PicoNat
  <2>3. dev'.faults = 0 \/ dev'.faults > 0
    BY <2>2
  <2>4. (dev'.faults > 0 \/ dev'.cut) => Disturbed'
    BY <1>1, <1>3 DEF Disturbed, Pico!Disturbed
  <2> QED BY <1>1, <1>3, <2>1, <2>3, <2>4 DEF EntireInv
<1>4. CASE mode = "rtl8019" /\ Rtl!Begin
  <2>1. RtlEntire(dev', wire', up')
    BY <1>4, RtlBeginsEntire DEF DriverInv, EntireInv
  <2>2. up' = up
    BY <1>4 DEF Rtl!Begin
  <2>3. NoneBetween(wire, up, up')
    BY <1>1, <2>2 DEF NoneBetween, Received
  <2> QED BY <1>1, <1>4, <2>1, <2>3 DEF EntireInv
<1>5. CASE mode = "rtl8019" /\ Rtl!Retrieve
  <2>1. RtlEntire(dev', wire', up') /\ (dev.lost \/ NoneBetween(wire, up, up'))
    BY <1>1, <1>5, RtlRetrievesEntire DEF DriverInv, EntireInv
  <2>2. dev.lost => Disturbed
    BY <1>5 DEF Disturbed, Rtl!Disturbed
  <2> QED BY <1>1, <1>5, <2>1, <2>2 DEF EntireInv
<1> QED BY <1>2, <1>3, <1>4, <1>5 DEF Poll

LEMMA EntireKeeps == SearchInv /\ DriverInv /\ EntireInv /\ [Next]_vars => EntireInv'
<1> SUFFICES ASSUME SearchInv, DriverInv, EntireInv, [Next]_vars PROVE EntireInv'
  OBVIOUS
<1>1. CASE Ready
  BY <1>1, EntireReady
<1>2. CASE Arrive
  BY <1>2, EntireArrives
<1>3. CASE Poll
  BY <1>3, EntirePolls
<1>4. CASE Setup \/ Send \/ UNCHANGED vars
  <2>1. mode' = mode /\ wire' = wire /\ up' = up /\ dev' = dev
    BY <1>4 DEF Setup, Send, vars
  <2> QED BY <2>1 DEF EntireInv
<1> QED BY <1>1, <1>2, <1>3, <1>4 DEF Next

-----------------------------------------------------------------------------
(* The theorems.                                                            *)

\* However transfers fail and wherever packets lie in the buffers, what a driver
\* holds is the rest of one packet at most and then whole packets in the order they
\* came, none handed up already: recv_buf of asix_recv(), the ring of
\* picowifi_recv(), the pages RTL8019dev_poll() reads.
THEOREM DriverInvariant == Spec => [](SearchInv /\ DriverInv)
<1>1. Init => SearchInv /\ DriverInv
  BY DriverStarts
<1>2. SearchInv /\ DriverInv /\ [Next]_vars => SearchInv' /\ DriverInv'
  <2> SUFFICES ASSUME SearchInv, DriverInv, [Next]_vars PROVE SearchInv' /\ DriverInv'
    OBVIOUS
  <2>1. CASE Setup
    BY <2>1, SetupKeeps
  <2>2. CASE Ready
    BY <2>2, ReadyKeeps
  <2>3. CASE Arrive
    BY <2>3, ArriveKeeps
  <2>4. CASE Poll
    BY <2>4, PollKeeps
  <2>5. CASE Send
    BY <2>5, StutterKeeps DEF Send
  <2>6. CASE UNCHANGED vars
    BY <2>6, StutterKeeps DEF vars
  <2> QED BY <2>1, <2>2, <2>3, <2>4, <2>5, <2>6 DEF Next
<1> QED BY <1>1, <1>2, PTL DEF Spec

\* The indexes of the rings and buffers stay inside them, and the fill counts inside
\* their sizes, in all three drivers and while the adapter is looked for.
THEOREM DriverTypeOK == Spec => []TypeOK
<1>1. SearchInv /\ DriverInv => TypeOK
  BY AsixTypeOK, PicoTypeOK DEF SearchInv, DriverInv, RtlInv, TypeOK
<1> QED BY <1>1, DriverInvariant, PTL

\* The driver implements PacketStream: driver_poll() hands up packets that arrived,
\* each at most once and in their order, whichever adapter is found and whatever
\* fails.
THEOREM DriverKeepsPromise == Spec => KeepsPromise
<1>1. Init => Promise!Init
  BY DEF Init, Promise!Init
<1>2. SearchInv /\ DriverInv /\ [Next]_vars => [Promise!Next]_<<wire, up>>
  <2> SUFFICES ASSUME SearchInv, DriverInv, [Next]_vars
               PROVE  [Promise!Next]_<<wire, up>>
    OBVIOUS
  <2>1. CASE Arrive
    BY <2>1, ArriveKeeps DEF Promise!Next
  <2>2. CASE Poll
    BY <2>2, PollKeeps DEF Promise!Next
  <2>3. CASE Setup \/ Ready \/ Send \/ UNCHANGED vars
    BY <2>3 DEF Setup, Ready, Send, vars
  <2> QED BY <2>1, <2>2, <2>3 DEF Next
<1> QED BY <1>1, <1>2, DriverInvariant, PTL DEF Spec, KeepsPromise, Promise!Spec

\* asix_read_mac() and what USBETHdev_init() copies: no adapter is in use with a
\* part of its address, whichever commands failed.
THEOREM AddressWholeHolds == Spec => []AddressWhole
<1>1. SearchInv => AddressWhole
  BY DEF SearchInv, AddressWhole
<1> QED BY <1>1, DriverInvariant, PTL

\* uip_split_output(): each half of a segment of any length carries the bytes its
\* sequence number says, it begins where the segment begins or ends where it ends,
\* and both together are all of it.
THEOREM HalvesFitHolds == Spec => []HalvesFit
<1>1. Init => HalvesFit
  BY DEF Init, HalvesFit
<1>2. SearchInv /\ HalvesFit /\ [Next]_vars => HalvesFit'
  <2> SUFFICES ASSUME SearchInv, HalvesFit, [Next]_vars PROVE HalvesFit'
    OBVIOUS
  <2>1. CASE Send
    BY <2>1, SendFits
  <2>2. CASE Arrive
    BY <2>2 DEF Arrive, HalvesFit
  <2>3. CASE frames' = frames
    BY <2>3 DEF HalvesFit
  <2>4. CASE Setup \/ Ready \/ Poll \/ UNCHANGED vars
    BY <2>3, <2>4 DEF Setup, Ready, Poll, vars
  <2> QED BY <2>1, <2>2, <2>4 DEF Next
<1> QED BY <1>1, <1>2, DriverInvariant, PTL DEF Spec

\* As long as no transfer fails, the ring does not run full and no packet ends where
\* the ASIX driver's buffer ends, every packet that fits is still in the adapter or
\* in the driver's buffer as a whole when one behind it is handed up: driver_poll()
\* leaves none out.
THEOREM NoneSkippedHolds == Spec => NoneSkipped
<1> DEFINE Kept == \A k \in (up + 1)..(up' - 1) : TooLong(k) \/ Disturbed \/ Disturbed'
<1>1. Init => EntireInv
  BY EntireStarts
<1>2. SearchInv /\ DriverInv /\ EntireInv /\ [Next]_vars => EntireInv'
  BY EntireKeeps
<1>3. SearchInv /\ DriverInv /\ EntireInv /\ [Next]_vars => [Kept]_vars
  <2> SUFFICES ASSUME SearchInv, DriverInv, EntireInv, [Next]_vars PROVE [Kept]_vars
    OBVIOUS
  <2>1. up \in 0..Len(wire) /\ wire \in Seq(Lens) /\ Len(wire) \in Nat
    BY DEF DriverInv
  <2>2. CASE Poll
    <3>1. Disturbed \/ Disturbed' \/ NoneBetween(wire, up, up')
      BY <2>2, EntirePolls
    <3>2. CASE NoneBetween(wire, up, up')
      <4>1. up' \in 0..Len(wire)
        BY <2>1, <2>2, PollKeeps DEF DriverInv, Promise!HandUp
      <4>2. ASSUME NEW k \in (up + 1)..(up' - 1) PROVE TooLong(k)
        <5>1. k \in 1..Len(wire) /\ ~(wire[k] =< Dest)
          <6>1. PICK a \in Nat, b \in 0..Len(wire) : a = up /\ b = up'
            BY <2>1, <4>1
          <6>2. k \in (a + 1)..(b - 1)
            BY <6>1
          <6>3. k \in 1..Len(wire)
            BY <2>1, <6>2
          <6> QED BY <3>2, <6>3 DEF NoneBetween
        <5>2. wire[k] \in Nat /\ Dest \in Nat
          <6>1. wire[k] \in Lens
            BY <2>1, <5>1
          <6> QED BY <6>1, PicoNat, DriverAssumption DEF DriverAssumption
        <5> QED BY <5>1, <5>2 DEF TooLong
      <4> QED BY <4>2
    <3> QED BY <3>1, <3>2
  <2>3. CASE Setup \/ Ready \/ Arrive \/ Send \/ UNCHANGED vars
    <3>1. up' = up
      BY <2>3 DEF Setup, Ready, Arrive, Send, vars, Asix!Arrive, Pico!Arrive, Rtl!Arrive
    <3>2. (up + 1)..(up' - 1) = {}
      BY <2>1, <3>1
    <3> QED BY <3>2
  <2> QED BY <2>2, <2>3 DEF Next
<1> QED BY <1>1, <1>2, <1>3, DriverInvariant, PTL DEF Spec, NoneSkipped
=============================================================================
