------------------------------- MODULE Console -------------------------------
(***************************************************************************)
(* The console of a program that httpd has started (ioredirect.c), and     *)
(* uip-run.py at the other end: what the program prints goes out in UDP    *)
(* packets, and what is typed there comes in as codes of CodeLen bytes,    *)
(* through a ring of RingSize bytes.  UDP packets may be lost.             *)
(***************************************************************************)
EXTENDS Integers, Sequences, SequencesExt

CONSTANTS
  CodeLen,       \* bytes in the code of a key
  RingSize,      \* sizeof buffer: the pointers are bytes and wrap of themselves
  MaxKeys,       \* keys typed
  MaxPrints,     \* calls of the program that print
  MaxLosses      \* packets lost

ASSUME ConsoleAssumption ==
  /\ CodeLen \in Nat \ {0} /\ RingSize \in Nat \ {0} /\ RingSize % CodeLen = 0
  /\ MaxKeys \in Nat /\ MaxPrints \in Nat /\ MaxLosses \in Nat

VARIABLES
  runs,          \* the program runs, with the traps installed
  ring,          \* buffer, buffer_read_ptr and buffer_write_ptr
  pend,          \* ioredirect_out_buff up to ioredirect_out_len: not yet sent
  keys,          \* packets on the way to the program
  shows,         \* packets on the way to the script
  script,        \* "runs", "left" with Control-C, or "ended" by the done packet
  typed, got,    \* codes the user typed, and what the program read
  printed, seen, \* what the program printed, and what the script showed
  upset,         \* what cannot be made up for: "lost", "escape", "byte"
  losses

cvars == <<runs, ring, pend, keys, shows, script, typed, got, printed, seen, upset, losses>>
input == <<ring, keys, typed, got>>
output == <<pend, shows, printed, seen>>

Esc == "ESC"
Done == "0xff"

-----------------------------------------------------------------------------
(* The ring.                                                                *)

\* Wrong on purpose: a byte that would fill the ring is dropped, not the code.
AddByteTight(r, b) ==
  IF (r.write + 1) % RingSize # r.read
  THEN [r EXCEPT !.buf[r.write] = b, !.write = (@ + 1) % RingSize]
  ELSE r

\* buffer_add_byte(): below the read pointer the test for room, done in int, is
\* never true, and everything is dropped until the read pointer wraps as well;
\* at and above it there is always room, and the pointers may meet.
AddByte(r, b) ==
  IF r.write >= r.read
  THEN [r EXCEPT !.buf[r.write] = b, !.write = (@ + 1) % RingSize]
  ELSE r

CanRead(r) == r.read # r.write

\* buffer_get_byte(): an empty ring yields 0.
GetByte(r) == IF CanRead(r) THEN [r EXCEPT !.read = (@ + 1) % RingSize] ELSE r

\* buffer_get_scancode().  C leaves the order of its calls of buffer_get_byte() open;
\* they are taken from left to right.
After(r) == FoldLeftDomain(LAMBDA q, i : GetByte(q), r, [i \in 1..CodeLen |-> i])
ScanCode(r) ==
  [i \in 1..CodeLen |->
     LET q == FoldLeftDomain(LAMBDA x, k : GetByte(x), r, [j \in 1..(i - 1) |-> j])
     IN  IF CanRead(q) THEN q.buf[q.read] ELSE <<0, 0>>]

\* The bytes of the code of the n-th key.
Code(n) == [i \in 1..CodeLen |-> <<n, i>>]

\* receive_udp_data() and ioredirect_appcall(): every packet that is there.
Receive(r) == FoldLeft(LAMBDA q, p : FoldLeft(AddByte, q, p), r, keys)

-----------------------------------------------------------------------------
(* The program's calls.                                                     *)

\* ioredirect_Bconin(): waits for a remote key, or for a local one.
Bconin ==
  /\ runs
  /\ keys' = <<>>
  /\ LET r == Receive(ring)
     IN  IF CanRead(r)
         THEN ring' = After(r) /\ got' = Append(got, ScanCode(r))
         ELSE ring' = r /\ UNCHANGED got
  /\ UNCHANGED <<runs, output, script, typed, upset, losses>>

\* ioredirect_Bconstat()
Bconstat ==
  /\ runs /\ keys # <<>>
  /\ keys' = <<>> /\ ring' = Receive(ring)
  /\ UNCHANGED <<runs, output, script, typed, got, upset, losses>>

\* uip_udp_periodic_conn() and the polled ioredirect_appcall(): what is pending
\* goes out as one packet.
Sent(p) == shows' = Append(shows, p) /\ pend' = <<>>

\* Wrong on purpose: what follows the escape takes its place.
BconoutAnew(c) ==
  IF c = Esc THEN pend' = <<c>> /\ UNCHANGED shows ELSE Sent(<<c>>)

\* ioredirect_Bconout(): an escape code is held back until it is whole, with the
\* two parameters of ESC Y.
Bconout(c) ==
  IF Len(pend) = 3 \/ (Len(pend) = 1 /\ c # "Y") THEN Sent(Append(pend, c))
  ELSE IF Len(pend) \in {1, 2} THEN pend' = Append(pend, c) /\ UNCHANGED shows
  ELSE IF c = Esc THEN pend' = <<c>> /\ UNCHANGED shows
  ELSE Sent(<<c>>)

Cconout(c) ==
  /\ runs /\ Len(printed) < MaxPrints /\ typed = <<>>
  /\ printed' = Append(printed, c)
  /\ Bconout(c)
  /\ upset' = IF c = Done /\ pend = <<>> THEN upset \cup {"byte"} ELSE upset
  /\ UNCHANGED <<runs, input, seen, script, losses>>

\* ioredirect_cconws(): the string goes out at once, and takes the place of an
\* escape code that is not whole.
Cconws(str) ==
  /\ runs /\ Len(printed) + Len(str) <= MaxPrints /\ typed = <<>>
  /\ printed' = printed \o str
  /\ Sent(str)
  /\ upset' = IF pend # <<>> THEN upset \cup {"escape"} ELSE upset
  /\ UNCHANGED <<runs, input, seen, script, losses>>

\* ioredirect_stop(): the done packet is a byte like any other.
Exit ==
  /\ runs
  /\ runs' = FALSE
  /\ Sent(<<Done>>)
  /\ upset' = IF pend # <<>> THEN upset \cup {"escape"} ELSE upset
  /\ UNCHANGED <<input, printed, seen, script, losses>>

-----------------------------------------------------------------------------
(* uip-run.py and the network.                                              *)

\* Bound: a run types or prints; keys and output share nothing.
Type ==
  /\ script = "runs" /\ Len(typed) < MaxKeys /\ printed = <<>>
  /\ typed' = Append(typed, Len(typed) + 1)
  /\ keys' = Append(keys, Code(Len(typed) + 1))
  /\ UNCHANGED <<runs, ring, got, output, script, upset, losses>>

\* Control-C sends a blank, one byte where the program expects a whole code.
Interrupt ==
  /\ script = "runs"
  /\ script' = "left"
  /\ keys' = Append(keys, <<<<0, 0>>>>)
  /\ UNCHANGED <<runs, ring, typed, got, output, upset, losses>>

\* A packet of the one byte 0xff ends the script.
Show ==
  /\ script = "runs" /\ shows # <<>>
  /\ shows' = Tail(shows)
  /\ IF Head(shows) = <<Done>>
     THEN script' = "ended" /\ UNCHANGED seen
     ELSE seen' = seen \o Head(shows) /\ UNCHANGED script
  /\ UNCHANGED <<runs, input, pend, printed, upset, losses>>

Lose ==
  /\ losses < MaxLosses /\ losses' = losses + 1
  /\ \/ \E i \in DOMAIN keys : keys' = RemoveAt(keys, i) /\ UNCHANGED <<shows, upset>>
     \/ \E i \in DOMAIN shows :
          /\ shows' = RemoveAt(shows, i) /\ upset' = upset \cup {"lost"}
          /\ UNCHANGED keys
  /\ UNCHANGED <<runs, ring, pend, script, typed, got, printed, seen>>

-----------------------------------------------------------------------------
CInit ==
  /\ runs = TRUE
  /\ ring = [buf |-> [i \in 0..(RingSize - 1) |-> <<0, 0>>], read |-> 0, write |-> 0]
  /\ pend = <<>> /\ keys = <<>> /\ shows = <<>> /\ script = "runs"
  /\ typed = <<>> /\ got = <<>> /\ printed = <<>> /\ seen = <<>>
  /\ upset = {} /\ losses = 0

Chars == {"a", "Y", Esc, Done}

CNext ==
  \/ Bconin \/ Bconstat \/ Exit
  \/ \E c \in Chars : Cconout(c)
  \/ Cconws(<<"b", "c">>)
  \/ Type \/ Interrupt \/ Show \/ Lose

-----------------------------------------------------------------------------
(* Properties.                                                              *)

CTypeOK ==
  /\ ring.read \in 0..(RingSize - 1) /\ ring.write \in 0..(RingSize - 1)
  /\ Len(pend) <= 3 /\ (pend # <<>> => pend[1] = Esc)
  /\ script \in {"runs", "left", "ended"}

\* A key the program reads is a key that was typed, whole, once and in order,
\* however full the ring ran, as long as the user has not left with Control-C.
KeysWhole ==
  script # "left" =>
    \E f \in [DOMAIN got -> DOMAIN typed] :
      /\ \A i \in DOMAIN got : got[i] = Code(typed[f[i]])
      /\ \A i, j \in DOMAIN got : i < j => f[i] < f[j]

InFlight == FoldLeft(LAMBDA a, p : IF p = <<Done>> THEN a ELSE a \o p, <<>>, shows)

\* What the script shows, what is on the way and what is held back together are
\* what the program printed.  It ends when the program has ended, and only then.
\* (A lost packet, a string printed in the middle of an escape code, and a 0xff
\* that the program prints itself are not made up for.)
OutputWhole ==
  upset = {} =>
    /\ script # "left" => seen \o InFlight \o pend = printed
    /\ script = "ended" => ~runs
=============================================================================
