--------------------------- MODULE PsockTcpProofs ---------------------------
(***************************************************************************)
(* That PSOCK_SEND is an application as module UipTcp assumes it, and that *)
(* every byte goes out at its place, for data of any length and any number *)
(* of lost, repeated and overtaking segments.  psock_send() computes again *)
(* from uip_mss() what it handed over before; it comes to the same only    *)
(* while the window does not change the segment size.  That is the         *)
(* hypothesis of the theorems; run psock_window shows what happens without *)
(* it.                                                                     *)
(***************************************************************************)
EXTENDS PsockTcp, UipTcpStreamProofs

\* The remote host advertises a whole segment or nothing.
FullWindows == \A w \in Windows : w = 0 \/ UIP_TCP_MSS =< w

-----------------------------------------------------------------------------
(* The invariant.                                                           *)

\* So the segment size remains what the SYN allowed.
SizeInv ==
  /\ mss = initialmss
  /\ \A seg \in toUip : seg.wnd = 0 \/ UIP_TCP_MSS =< seg.wnd

Opening == {"SYN_SENT", "SYN_RCVD"}

\* Where the handler is in its data: never ahead of what is acknowledged, and
\* while the connection is open exactly there.
PointerInv ==
  /\ sendptr \in Nat /\ sendptr =< AppBytes /\ sendlen \in Nat
  /\ sendptr > 0 => sendptr < snd_nxt
  /\ ~used \/ tcpstate \in Opening => sendptr = 0 /\ sendlen = 0
  /\ tcpstate \in Opening => len = 1
  /\ tcpstate = "ESTABLISHED" =>
       /\ snd_nxt = sendptr + 1
       /\ sendptr + sendlen =< AppBytes
       /\ len > 0 => sendlen > 0 /\ len = Smaller(sendlen, mss)

HandlerInv == SizeInv /\ PointerInv /\ StreamIntact

-----------------------------------------------------------------------------
(* One call of the handler.                                                 *)

\* What a callback finds: ln is len after the acknowledgement, and snd_nxt' has
\* moved with it.
CalledRight(ln) ==
  /\ sendptr \in Nat /\ sendlen \in Nat
  /\ sendptr + sendlen =< AppBytes
  /\ IF "ACKDATA" \in called'
     THEN ln = 0 /\ snd_nxt' = sendptr + Stepped + 1
     ELSE /\ snd_nxt' = sendptr + 1
          /\ ln > 0 => sendlen > 0 /\ ln = Smaller(sendlen, mss')

\* What it answers: nothing new while a segment is outstanding, and otherwise
\* the bytes at snd_nxt', or the end when there are no more.
AnsweredRight(ln, r) ==
  /\ sendptr' \in Nat /\ sendlen' \in Nat
  /\ sendptr' + sendlen' =< AppBytes
  /\ snd_nxt' = sendptr' + 1
  /\ ln > 0 => /\ r.act = "send" /\ (r.slen > 0 => r.slen = ln)
               /\ sendlen' > 0 /\ ln = Smaller(sendlen', mss')
  /\ ln = 0 => \/ r.act \in {"send", "close"} /\ r.slen = 0
               \/ /\ r.act = "send" /\ sendlen' > 0
                  /\ r.slen = Smaller(sendlen', mss')

\* Arithmetic that the prover finds only for unprimed terms.
LEMMA RoomLeft ==
  \A p, a \in Nat : p =< a =>
    \A n \in 1..(a - p) : n \in Nat /\ n > 0 /\ p + n =< a
OBVIOUS

LEMMA NoneLeft ==
  \A p, n, a \in Nat : p =< a /\ n = 0 => p + n =< a
OBVIOUS

LEMMA PlaceIs ==
  \A p, s, n \in Nat : s = p + 1 => s - 1 + n = p + n
OBVIOUS

LEMMA PartSent ==
  \A p, n, m, a \in Nat : p + n =< a /\ m =< n =>
    n - m \in Nat /\ p + m =< a /\ p + m + (n - m) =< a
OBVIOUS

LEMMA SmallerIs ==
  \A n, m \in Nat : /\ Smaller(n, m) \in Nat
                     /\ Smaller(n, m) =< n /\ Smaller(n, m) =< m
BY DEF Smaller

LEMMA ContinueRight ==
  ASSUME NEW r, mss' \in Nat, snd_nxt' \in Nat, AppBytes \in Nat,
         sendptr' \in Nat, sendptr' =< AppBytes, snd_nxt' = sendptr' + 1, Continue(r)
  PROVE  AnsweredRight(0, r)
<1>0. ~(0 > 0)
  OBVIOUS
<1>1. CASE (r = Nothing \/ r = Close) /\ sendlen' = 0
  <2>1. r.act \in {"send", "close"} /\ r.slen = 0
    BY <1>1 DEF Nothing, Close
  <2>2. sendlen' \in Nat /\ sendptr' + sendlen' =< AppBytes
    BY <1>1, NoneLeft
  <2> QED BY <1>0, <2>1, <2>2, Zenon DEF AnsweredRight
<1>2. CASE \E n \in 1..(AppBytes - sendptr') : SendUpToMss(n, r)
  <2>1. PICK n \in 1..(AppBytes - sendptr') : SendUpToMss(n, r)
    BY <1>2
  <2>2. n \in Nat /\ n > 0 /\ sendptr' + n =< AppBytes
    BY RoomLeft
  <2>3. r.act = "send" /\ r.slen = Smaller(n, mss') /\ sendlen' = n
    BY <2>1 DEF SendUpToMss
  <2>4. sendlen' \in Nat /\ sendlen' > 0 /\ sendptr' + sendlen' =< AppBytes
    BY <2>2, <2>3
  <2> QED BY <1>0, <2>3, <2>4, Zenon DEF AnsweredRight
<1> QED BY <1>1, <1>2 DEF Continue

LEMMA PsockSendRight ==
  ASSUME NEW ln \in Nat, NEW r, mss' \in Nat, snd_nxt' \in Nat, AppBytes \in Nat,
         CalledRight(ln), PsockSend(r),
         "REXMIT" \in called' => "ACKDATA" \notin called'
  PROVE  AnsweredRight(ln, r)
<1> USE DEF CalledRight
<1>1. CASE sendlen > 0 /\ SendAgain(r)
  BY <1>1 DEF SendAgain, SendUpToMss, AnsweredRight, Smaller
<1>2. CASE sendlen > 0 /\ StepOver(r)
  <2>1. "ACKDATA" \in called' /\ ln = 0
    BY <1>2 DEF StepOver
  <2>2. Stepped \in Nat /\ Stepped =< sendlen
    BY SmallerIs DEF Stepped
  <2>3. sendptr' = sendptr + Stepped /\ snd_nxt' = sendptr' + 1
    BY <1>2, <2>1, <2>2 DEF StepOver
  <2>4. sendptr' \in Nat /\ sendptr' =< AppBytes
    BY <2>2, <2>3
  <2>5. CASE sendlen > Stepped
    <3>1. SendUpToMss(sendlen - Stepped, r)
      BY <1>2, <2>5 DEF StepOver
    <3>2. /\ r.act = "send" /\ r.slen = Smaller(sendlen', mss')
          /\ sendlen' = sendlen - Stepped
      BY <3>1 DEF SendUpToMss
    <3>3. sendlen' \in Nat /\ sendlen' > 0 /\ sendptr' + sendlen' =< AppBytes
      BY <2>2, <2>3, <2>5, <3>2, PartSent
    <3> QED BY <2>1, <2>3, <2>4, <3>2, <3>3 DEF AnsweredRight
  <2>6. CASE ~(sendlen > Stepped)
    <3>1. Continue(r)
      BY <1>2, <2>6 DEF StepOver
    <3> QED BY <2>1, <2>3, <2>4, <3>1, ContinueRight
  <2> QED BY <2>5, <2>6
<1>3. CASE sendlen > 0 /\ KeepWaiting(r)
  <2>1. "ACKDATA" \notin called' /\ r = Nothing /\ UNCHANGED <<sendptr, sendlen>>
    BY <1>3 DEF KeepWaiting, psock
  <2>2. r.act = "send" /\ r.act \in {"send", "close"} /\ r.slen = 0 /\ ~(r.slen > 0)
    BY <2>1 DEF Nothing
  <2>3. sendptr' + sendlen' =< AppBytes /\ sendptr' \in Nat /\ sendlen' \in Nat
    BY <2>1, Zenon
  <2>4. snd_nxt' = sendptr' + 1
    BY <2>1
  <2>5. ln > 0 => sendlen' > 0 /\ ln = Smaller(sendlen', mss')
    BY <2>1
  <2> QED BY <2>2, <2>3, <2>4, <2>5, Zenon DEF AnsweredRight
<1>4. CASE sendlen = 0 /\ UNCHANGED sendptr /\ Continue(r)
  <2>1. Stepped = 0 /\ sendptr + 0 = sendptr
    BY <1>4 DEF Stepped, Smaller
  <2>2. ln = 0
    BY <1>4
  <2>3. snd_nxt' = sendptr' + 1
    BY <1>4, <2>1
  <2>4. sendptr' \in Nat /\ sendptr' =< AppBytes
    BY <1>4
  <2> QED BY <1>4, <2>2, <2>3, <2>4, ContinueRight
<1> QED BY <1>1, <1>2, <1>3, <1>4 DEF PsockSend

\* Such an answer is what UipTcp expects of an application.
LEMMA ContractFollows ==
  ASSUME NEW ln \in Nat, NEW r, mss' \in Nat, snd_nxt' \in Nat, AppBytes \in Nat,
         AnsweredRight(ln, r)
  PROVE  AppContract(r, snd_nxt', ln)
<1>1. r.act = "close" => ln = 0
  BY DEF AnsweredRight
<1>2. ASSUME ln = 0, r.act = "send"
      PROVE  snd_nxt' - 1 + r.slen =< AppBytes
  <2>1. Smaller(sendlen', mss') \in Nat /\ Smaller(sendlen', mss') =< sendlen'
    BY SmallerIs DEF AnsweredRight
  <2>2. r.slen \in Nat /\ r.slen =< sendlen'
    BY <1>2, <2>1 DEF AnsweredRight
  <2>3. snd_nxt' - 1 + r.slen = sendptr' + r.slen
    BY <2>2, PlaceIs DEF AnsweredRight
  <2>4. sendptr' + r.slen =< AppBytes
    BY <2>2, PartSent DEF AnsweredRight
  <2> QED BY <2>3, <2>4
<1> QED BY <1>1, <1>2 DEF AppContract

-----------------------------------------------------------------------------
(* What the answer leaves behind.                                           *)

\* A segment of bytes from the handler's place, at that place in the stream.
LEMMA WireKeeps ==
  ASSUME NEW r, StreamIntact, OnTheWire(r),
         len' \in Nat, r.slen \in Nat, sendptr' \in Nat,
         r.act = "send" /\ r.slen > 0 /\ len' > 0
           => len' =< r.slen /\ snd_nxt' = sendptr' + 1
  PROVE  StreamIntact'
<1>1. CASE r.act = "send" /\ r.slen > 0 /\ len' > 0
  <2>1. PICK n \in Nat, p \in Nat, s \in Nat :
          n = len' /\ p = sendptr' /\ s = r.slen
    OBVIOUS
  <2>2. n =< s /\ snd_nxt' = p + 1
    BY <1>1, <2>1
  <2>3. wire' = wire \union
          {<<(p + 1) + i, IF i < s THEN p + 1 + i ELSE 0>> : i \in 0..n - 1}
    BY <1>1, <2>1, <2>2 DEF OnTheWire
  <2>4. \A i \in 0..n - 1 : (p + 1) + i = (IF i < s THEN p + 1 + i ELSE 0)
    BY <2>2
  <2>5. \A x \in wire' : x[1] = x[2]
    BY <2>3, <2>4 DEF StreamIntact
  <2> QED BY <2>5 DEF StreamIntact
<1>2. CASE ~(r.act = "send" /\ r.slen > 0 /\ len' > 0)
  BY <1>2 DEF OnTheWire, StreamIntact
<1> QED BY <1>1, <1>2

LEMMA SmallerTwice ==
  \A n, m \in Nat : Smaller(Smaller(n, m), m) = Smaller(n, m)
BY DEF Smaller

LEMMA Ahead ==
  \A p, n, s, a \in Nat : p + n =< a /\ s = p + 1 => p =< a /\ p < s
OBVIOUS

LEMMA AppSendKeeps ==
  ASSUME NEW ln \in Nat, NEW r \in Answers, AppBytes \in Nat,
         len' \in Nat, mss' \in Nat, snd_nxt' \in Nat, used' = TRUE,
         StreamIntact, AnsweredRight(ln, r), OnTheWire(r),
         AppSend(called', snd_nxt', ln, rcv_nxt', mss', r)
  PROVE  PointerInv' /\ StreamIntact'
<1>0. /\ sendptr' \in Nat /\ sendlen' \in Nat
      /\ sendptr' + sendlen' =< AppBytes /\ snd_nxt' = sendptr' + 1
      /\ r.act \in {"send", "close"} /\ r.slen \in Nat
  <2>1. r.slen \in Nat
    BY DEF Answers
  <2>2. ln > 0 \/ ln = 0
    OBVIOUS
  <2>3. r.act \in {"send", "close"}
    BY <2>2 DEF AnsweredRight
  <2> QED BY <2>1, <2>3, Zenon DEF AnsweredRight
<1>1. sendptr' =< AppBytes /\ sendptr' < snd_nxt'
  BY <1>0, Ahead
<1>2. CASE r.act = "send"
  <2>1. /\ tcpstate' = "ESTABLISHED"
        /\ len' = IF r.slen > 0 /\ ln = 0 THEN Smaller(r.slen, mss') ELSE ln
    BY <1>2 DEF AppSend
  <2>2. len' > 0 => sendlen' > 0 /\ len' = Smaller(sendlen', mss')
    <3>1. CASE ln > 0
      BY <2>1, <3>1 DEF AnsweredRight
    <3>2. CASE ln = 0 /\ r.slen > 0
      BY <1>0, <2>1, <3>2, SmallerTwice DEF AnsweredRight
    <3>3. CASE ln = 0 /\ ~(r.slen > 0)
      BY <2>1, <3>3
    <3> QED BY <3>1, <3>2, <3>3
  <2>3. r.slen > 0 /\ len' > 0 => len' =< r.slen
    <3>1. CASE ln > 0
      BY <2>1, <3>1 DEF AnsweredRight
    <3>2. CASE ln = 0
      BY <1>0, <2>1, <3>2, SmallerIs
    <3> QED BY <3>1, <3>2
  <2>4. StreamIntact'
    BY <1>0, <2>3, WireKeeps
  <2>5. PointerInv'
    BY <1>0, <1>1, <2>1, <2>2, Zenon DEF PointerInv, Opening
  <2> QED BY <2>4, <2>5
<1>3. CASE r.act = "close"
  <2>1. tcpstate' = "FIN_WAIT_1" /\ r.act # "send"
    BY <1>3 DEF AppSend
  <2>2. StreamIntact'
    BY <1>0, <2>1, WireKeeps
  <2>3. PointerInv'
    BY <1>0, <1>1, <2>1 DEF PointerInv, Opening
  <2> QED BY <2>2, <2>3
<1> QED BY <1>0, <1>2, <1>3

-----------------------------------------------------------------------------
(* The steps.                                                               *)

\* Steps without a callback leave the handler where it is.
QuietStep ==
  /\ UNCHANGED <<psock, wire>>
  /\ snd_nxt =< snd_nxt'
  /\ used => used'
  /\ tcpstate' = "ESTABLISHED" =>
       tcpstate = "ESTABLISHED" /\ UNCHANGED <<snd_nxt, len, mss>>
  /\ tcpstate' \in Opening =>
       /\ len' = 1
       /\ tcpstate \in Opening \/ ~used

LEMMA LessThan ==
  \A a, b, c \in Nat : a < b /\ b =< c => a < c
OBVIOUS

LEMMA QuietKeeps ==
  ASSUME TypeOK, TypeOK', PointerInv, StreamIntact, QuietStep
  PROVE  PointerInv' /\ StreamIntact'
<1> USE DEF QuietStep, psock
<1>1. StreamIntact'
  BY DEF StreamIntact
<1>2. snd_nxt \in Nat /\ snd_nxt' \in Nat /\ used \in BOOLEAN /\ used' \in BOOLEAN
  BY DEF TypeOK
<1>3. sendptr' > 0 => sendptr' < snd_nxt'
  BY <1>2, LessThan DEF PointerInv
<1>4. ~used' \/ tcpstate' \in Opening => sendptr' = 0 /\ sendlen' = 0
  BY <1>2 DEF PointerInv
<1>5. tcpstate' = "ESTABLISHED" =>
        /\ snd_nxt' = sendptr' + 1
        /\ sendptr' + sendlen' =< AppBytes
        /\ len' > 0 => sendlen' > 0 /\ len' = Smaller(sendlen', mss')
  BY DEF PointerInv
<1> QED BY <1>1, <1>3, <1>4, <1>5 DEF PointerInv

LEMMA ConnectQuiet ==
  ASSUME TypeOK, OpeningInv, Connect, UNCHANGED <<psock, wire>>
  PROVE  QuietStep /\ (SizeInv => SizeInv')
<1>1. QuietStep
  BY DEF TypeOK, OpeningInv, Connect, QuietStep, Opening
<1> QED BY <1>1 DEF Connect, SizeInv

LEMMA TimerQuiet ==
  ASSUME TypeOK, PointerInv, TimerWait \/ TimerCount \/ TimerGiveUp,
         UNCHANGED <<psock, wire>>
  PROVE  QuietStep /\ (SizeInv => SizeInv')
<1>1. QuietStep
  BY DEF TypeOK, PointerInv, TimerWait, TimerCount, TimerGiveUp, QuietStep, Opening
<1> QED BY <1>1 DEF TimerWait, TimerCount, TimerGiveUp, SizeInv

LEMMA PeerQuiet ==
  ASSUME TypeOK, PointerInv, Peer, UNCHANGED <<psock, wire>>
  PROVE  QuietStep
<1>1. UNCHANGED <<conn, used>>
  BY DEF Peer, PeerOpen, PeerAck, PeerAbort, PeerAnswerSyn, PeerSynAck, PeerRecv,
         PeerReset, PeerSend, PeerStays
<1> QED BY <1>1 DEF TypeOK, PointerInv, conn, QuietStep, Opening

\* Every segment of the remote host advertises a window of Windows; a reset
\* advertises none.
LEMMA PeerWindows ==
  ASSUME Peer
  PROVE  \A seg \in toUip' \ toUip : seg.wnd \in Windows \/ seg.wnd = 0
<1>1. \/ UNCHANGED toUip
      \/ \E flags, seq, ackno, n, opt : \E w \in Windows \union {0} :
           Send(flags, seq, ackno, n, w, opt)
  BY DEF Peer, PeerOpen, PeerAck, PeerAbort, PeerAnswerSyn, PeerSynAck, PeerRecv,
         PeerReset, PeerSend
<1> QED BY <1>1, SendNew

LEMMA PeerSize ==
  ASSUME FullWindows, Peer, SizeInv
  PROVE  SizeInv'
<1>1. UNCHANGED <<mss, initialmss>>
  BY DEF Peer, PeerOpen, PeerAck, PeerAbort, PeerAnswerSyn, PeerSynAck, PeerRecv,
         PeerReset, PeerSend, PeerStays, conn
<1>2. \A seg \in toUip' : seg.wnd = 0 \/ UIP_TCP_MSS =< seg.wnd
  BY PeerWindows DEF FullWindows, SizeInv
<1> QED BY <1>1, <1>2 DEF SizeInv

LEMMA HandleQuiet ==
  ASSUME TypeOK, OpeningInv, PointerInv, NEW seg \in toUip, Handle(seg),
         UNCHANGED <<psock, wire>>
  PROVE  QuietStep
<1>n. snd_nxt \in Nat /\ len \in Nat /\ tcpstate \in States
  BY DEF TypeOK
<1>a. snd_nxt =< SndAfter(seg)
  BY <1>n DEF SndAfter
<1>u. tcpstate # "CLOSED" => used
  BY DEF OpeningInv
<1> USE DEF QuietStep, Opening
<1>1. CASE Listen(seg)
  BY <1>1, <1>n DEF OpeningInv, Listen
<1>2. CASE InReset(seg)
  BY <1>2, <1>n DEF InReset, conn, PointerInv
<1>3. CASE InRst(seg)
  BY <1>3, <1>n DEF InRst
<1>4. CASE InMisplaced(seg)
  BY <1>4, <1>n DEF InMisplaced, conn, PointerInv
<1>5. CASE InSynSentRefused(seg)
  BY <1>5, <1>n, <1>a DEF InSynSentRefused
<1>6. CASE InFin(seg)
  BY <1>6, <1>n, <1>a DEF InFin
<1>7. CASE InLastAck(seg)
  BY <1>7, <1>n, <1>a DEF InLastAck
<1>8. CASE InFinWait1(seg)
  BY <1>8, <1>n, <1>a DEF InFinWait1
<1>9. CASE InFinWait2(seg)
  BY <1>9, <1>n DEF InFinWait2
<1>10. CASE InTimeWait(seg)
  BY <1>10, <1>n DEF InTimeWait, conn, PointerInv
<1>11. CASE InClosing(seg)
  BY <1>11, <1>n, <1>a DEF InClosing
<1> QED BY <1>1, <1>2, <1>3, <1>4, <1>5, <1>6, <1>7, <1>8, <1>9, <1>10, <1>11 DEF Handle

LEMMA HandleSize ==
  ASSUME NEW seg \in toUip, Handle(seg), SizeInv
  PROVE  SizeInv'
BY DEF SizeInv, Handle, Listen, InReset, InRst, InMisplaced, InSynSentRefused, InFin,
       InLastAck, InFinWait1, InFinWait2, InTimeWait, InClosing, conn

LEMMA HandleAndSendSize ==
  ASSUME TypeOK, NEW seg \in toUip, NEW r, HandleAndSend(seg, r), SizeInv
  PROVE  SizeInv'
<1>0. /\ seg.wnd \in Nat /\ initialmss \in Nat /\ initialmss =< UIP_TCP_MSS
      /\ UIP_TCP_MSS \in Nat
  BY SizeAssumption DEF TypeOK, InSegment
<1>1. SizeFor(seg.wnd) = initialmss
  BY <1>0 DEF SizeInv, SizeFor
<1>2. UNCHANGED toUip
  BY DEF HandleAndSend, InSynRcvd, InSynSent, InEstablished
<1>3. mss' = initialmss'
  BY <1>1 DEF SizeInv, HandleAndSend, InSynRcvd, InSynSent, InEstablished
<1> QED BY <1>2, <1>3 DEF SizeInv

-----------------------------------------------------------------------------
(* The steps with a callback: the handler answers, and keeps the contract.   *)

LEMMA PollKeeps ==
  ASSUME TypeOK, TypeOK', OpeningInv, PointerInv, StreamIntact,
         NEW r \in Answers, Poll(r), Handler(r)
  PROVE  AppContract(r, snd_nxt, len) /\ PointerInv' /\ StreamIntact'
<1>0. /\ tcpstate = "ESTABLISHED" /\ len = 0 /\ called' = {"POLL"}
      /\ AppSend({"POLL"}, snd_nxt, len, rcv_nxt, mss, r)
      /\ UNCHANGED <<snd_nxt, rcv_nxt, mss, used>>
  BY DEF Poll
<1>1. CalledRight(0) /\ used' = TRUE
  BY <1>0 DEF TypeOK, PointerInv, OpeningInv, CalledRight
<1>2. PsockSend(r) /\ OnTheWire(r)
  BY <1>0 DEF Handler
<1>3. AnsweredRight(0, r)
  BY <1>0, <1>1, <1>2, PsockSendRight, SizeAssumption DEF TypeOK
<1>4. AppContract(r, snd_nxt', 0)
  BY <1>3, ContractFollows, SizeAssumption DEF TypeOK
<1>5. PointerInv' /\ StreamIntact'
  BY <1>0, <1>1, <1>2, <1>3, AppSendKeeps, SizeAssumption DEF TypeOK
<1> QED BY <1>0, <1>4, <1>5

LEMMA RexmitKeeps ==
  ASSUME TypeOK, TypeOK', PointerInv, StreamIntact, OpeningInv,
         NEW r \in Answers, TimerRexmit(r), Handler(r)
  PROVE  PointerInv' /\ StreamIntact'
<1>0. /\ UNCHANGED <<tcpstate, snd_nxt, len, mss, used>>
      /\ tcpstate # "CLOSED" /\ len > 0
  BY DEF TimerRexmit, Retransmitting
<1>1. CASE called' = {}
  <2>1. tcpstate # "ESTABLISHED"
    BY <1>1 DEF TimerRexmit
  <2>2. UNCHANGED <<psock, wire>>
    BY <1>1 DEF Handler
  <2>3. QuietStep
    BY <1>0, <2>1, <2>2 DEF TypeOK, PointerInv, QuietStep
  <2> QED BY <2>3, QuietKeeps
<1>2. CASE called' # {}
  <2>1. tcpstate = "ESTABLISHED" /\ called' = {"REXMIT"}
    BY <1>2 DEF TimerRexmit
  <2>2. CalledRight(len)
    BY <1>0, <2>1 DEF PointerInv, CalledRight
  <2>3. PsockSend(r) /\ OnTheWire(r)
    BY <1>2 DEF Handler
  <2>4. AnsweredRight(len, r)
    BY <2>1, <2>2, <2>3, PsockSendRight, SizeAssumption DEF TypeOK
  <2>5. /\ sendptr' \in Nat /\ sendlen' \in Nat /\ sendptr' + sendlen' =< AppBytes
        /\ snd_nxt' = sendptr' + 1 /\ snd_nxt' \in Nat
        /\ sendlen' > 0 /\ len = Smaller(sendlen', mss') /\ r.act = "send"
        /\ r.slen > 0 => r.slen = len
        /\ r.slen \in Nat /\ len \in Nat
    <3>1. r.slen \in Nat /\ len \in Nat /\ snd_nxt' \in Nat
      BY DEF Answers, TypeOK
    <3> QED BY <1>0, <2>4, <3>1, Zenon DEF AnsweredRight
  <2>6. sendptr' =< AppBytes /\ sendptr' < snd_nxt'
    BY <2>5, Ahead, SizeAssumption
  <2>7. used' = TRUE
    BY <1>0 DEF TypeOK, OpeningInv
  <2>8. len' = len /\ len =< len
    BY <1>0, <2>5
  <2>9. r.slen > 0 => len' =< r.slen
    BY <2>5, <2>8
  <2>10. StreamIntact'
    BY <2>3, <2>5, <2>8, <2>9, WireKeeps
  <2>11. PointerInv'
    BY <1>0, <2>1, <2>5, <2>6, <2>7, <2>8, Zenon DEF PointerInv, Opening
  <2> QED BY <2>10, <2>11
<1> QED BY <1>1, <1>2

\* What an acknowledgement makes of the handler's place, when the segment it
\* acknowledges is the one the handler would compute now.
LEMMA PlaceAfterAck ==
  \A p, l, n, m, s \in Nat : s = p + 1 /\ n = Smaller(l, m)
    => s + n = p + Smaller(l, m) + 1
BY SmallerIs

LEMMA OpenedKeeps ==
  ASSUME TypeOK, TypeOK', OpeningInv, PointerInv, StreamIntact,
         NEW seg \in toUip, NEW r \in Answers,
         InSynRcvd(seg, r) \/ InSynSent(seg, r), Handler(r)
  PROVE  /\ AppContract(r, SndAfter(seg), LenAfter(seg))
         /\ PointerInv' /\ StreamIntact'
<1>0. /\ tcpstate \in Opening /\ Acks(seg) /\ snd_nxt' = SndAfter(seg)
      /\ called' # {} /\ "ACKDATA" \notin called' /\ "REXMIT" \notin called'
      /\ AppSend(called', snd_nxt', 0, rcv_nxt', mss', r)
      /\ UNCHANGED used
  BY DEF InSynRcvd, InSynSent, NewFlag, Opening
<1>1. snd_nxt = 0 /\ len = 1 /\ sendptr = 0 /\ sendlen = 0 /\ used' = TRUE
  BY <1>0 DEF TypeOK, OpeningInv, PointerInv, Opening
<1>2. SndAfter(seg) = 1 /\ LenAfter(seg) = 0
  BY <1>0, <1>1 DEF SndAfter, LenAfter
<1>3. CalledRight(0)
  BY <1>0, <1>1, <1>2, SizeAssumption DEF CalledRight
<1>4. PsockSend(r) /\ OnTheWire(r)
  BY <1>0 DEF Handler
<1>5. AnsweredRight(0, r)
  BY <1>0, <1>3, <1>4, PsockSendRight, SizeAssumption DEF TypeOK
<1>6. AppContract(r, snd_nxt', 0)
  BY <1>5, ContractFollows, SizeAssumption DEF TypeOK
<1>7. PointerInv' /\ StreamIntact'
  BY <1>0, <1>1, <1>4, <1>5, AppSendKeeps, SizeAssumption DEF TypeOK
<1> QED BY <1>0, <1>2, <1>6, <1>7

LEMMA EstablishedKeeps ==
  ASSUME TypeOK, TypeOK', OpeningInv, SizeInv, SizeInv', PointerInv, StreamIntact,
         NEW seg \in toUip, NEW r \in Answers, InEstablished(seg, r), Handler(r)
  PROVE  /\ \E q \in Answers : /\ AppContract(q, SndAfter(seg), LenAfter(seg))
                               /\ InEstablished(seg, q)
         /\ PointerInv' /\ StreamIntact'
<1>0. /\ tcpstate = "ESTABLISHED" /\ snd_nxt' = SndAfter(seg)
      /\ called' = AckFlag(seg) \union NewFlag(seg) /\ UNCHANGED <<used, initialmss>>
  BY DEF InEstablished
<1>1. mss' = mss
  BY <1>0 DEF SizeInv
<1>2. /\ sendptr \in Nat /\ sendlen \in Nat /\ sendptr =< AppBytes
      /\ snd_nxt = sendptr + 1 /\ snd_nxt \in Nat /\ len \in Nat /\ mss \in Nat
      /\ sendptr + sendlen =< AppBytes
      /\ len > 0 => sendlen > 0 /\ len = Smaller(sendlen, mss)
      /\ initialmss \in Nat /\ used = TRUE
  BY <1>0 DEF TypeOK, PointerInv, OpeningInv
<1>3. CASE called' = {}
  <2>1. ~Acks(seg)
    BY <1>0, <1>3 DEF AckFlag
  <2>2. SndAfter(seg) = snd_nxt /\ LenAfter(seg) = len
    BY <2>1 DEF SndAfter, LenAfter
  <2>3. UNCHANGED <<tcpstate, len, snd_nxt>>
    BY <1>0, <1>3, <2>2 DEF InEstablished
  <2>4. QuietStep
    BY <1>0, <1>1, <1>2, <1>3, <2>3 DEF Handler, QuietStep, Opening
  <2>5. Nothing \in Answers /\ Nothing.act = "send" /\ Nothing.slen = 0
    BY SizeAssumption DEF Nothing, Answers
  <2>6. AppContract(Nothing, SndAfter(seg), LenAfter(seg))
    BY <1>2, <2>2, <2>5 DEF AppContract
  <2>7. InEstablished(seg, Nothing)
    BY <1>3 DEF InEstablished
  <2> QED BY <2>4, <2>5, <2>6, <2>7, QuietKeeps
<1>4. CASE called' # {}
  <2>1. LenAfter(seg) \in Nat
    BY <1>2 DEF LenAfter
  <2>2. CalledRight(LenAfter(seg)) /\ "REXMIT" \notin called'
    <3>1. CASE Acks(seg)
      <4>1. "ACKDATA" \in called' /\ LenAfter(seg) = 0 /\ snd_nxt' = snd_nxt + len
        BY <1>0, <3>1 DEF AckFlag, LenAfter, SndAfter
      <4>2. len > 0
        BY <3>1 DEF Acks
      <4>3. snd_nxt + len = sendptr + Smaller(sendlen, mss) + 1
        BY <1>2, <4>2, PlaceAfterAck
      <4>4. snd_nxt' = sendptr + Stepped + 1
        BY <1>1, <4>1, <4>3 DEF Stepped
      <4>5. "REXMIT" \notin called'
        BY <1>0 DEF AckFlag, NewFlag
      <4> QED BY <1>2, <4>1, <4>4, <4>5, Zenon DEF CalledRight
    <3>2. CASE ~Acks(seg)
      <4>1. "ACKDATA" \notin called' /\ LenAfter(seg) = len /\ snd_nxt' = snd_nxt
        BY <1>0, <3>2 DEF AckFlag, NewFlag, LenAfter, SndAfter
      <4>2. "REXMIT" \notin called'
        BY <1>0 DEF AckFlag, NewFlag
      <4> QED BY <1>1, <1>2, <4>1, <4>2, Zenon DEF CalledRight
    <3> QED BY <3>1, <3>2
  <2>3. PsockSend(r) /\ OnTheWire(r)
    BY <1>4 DEF Handler
  <2>4. AnsweredRight(LenAfter(seg), r)
    BY <2>1, <2>2, <2>3, PsockSendRight, SizeAssumption DEF TypeOK
  <2>5. AppContract(r, snd_nxt', LenAfter(seg))
    BY <2>1, <2>4, ContractFollows, SizeAssumption DEF TypeOK
  <2>6. AppSend(called', snd_nxt', LenAfter(seg), rcv_nxt', mss', r)
    BY <1>4 DEF InEstablished
  <2>7. PointerInv' /\ StreamIntact'
    <3>1. len' \in Nat /\ mss' \in Nat /\ snd_nxt' \in Nat /\ AppBytes \in Nat
      BY SizeAssumption DEF TypeOK
    <3>2. used' = TRUE
      BY <1>0, <1>2
    <3> QED BY <2>1, <2>3, <2>4, <2>6, <3>1, <3>2, AppSendKeeps
  <2> QED BY <1>0, <2>5, <2>7
<1> QED BY <1>3, <1>4

-----------------------------------------------------------------------------
(* The invariant, and what follows from it.                                 *)

HandlerStep ==
  HandlerInv' /\ [Next]_vars

LEMMA HandlerInit ==
  ASSUME PInit
  PROVE  HandlerInv
BY SizeAssumption
   DEF PInit, Init, HandlerInv, SizeInv, PointerInv, StreamIntact, Opening

LEMMA HandlerNext ==
  ASSUME FullWindows, TypeOK, StreamInv, HandlerInv, [PNext]_pvars
  PROVE  HandlerStep
<1> USE DEF HandlerInv, HandlerStep
<1>o. OpeningInv
  BY DEF StreamInv, SendInv
<1>1. CASE PTimer
  <2>1. CASE (TimerWait \/ TimerCount \/ TimerGiveUp) /\ UNCHANGED <<psock, wire>>
    <3>1. Next
      BY <2>1 DEF Next, Timer
    <3> QED BY <2>1, <3>1, NextType, TimerQuiet, QuietKeeps
  <2>2. ASSUME NEW r \in Answers, TimerRexmit(r), Handler(r)
        PROVE  HandlerStep
    <3>1. Next
      BY <2>2 DEF Next, Timer
    <3>2. SizeInv'
      BY <2>2 DEF TimerRexmit, SizeInv
    <3> QED BY <1>o, <2>2, <3>1, <3>2, NextType, RexmitKeeps
  <2>3. ASSUME NEW r \in Answers, Poll(r), Handler(r)
        PROVE  HandlerStep
    <3>1. TypeOK'
      BY <2>3, PollType
    <3>2. AppContract(r, snd_nxt, len) /\ PointerInv' /\ StreamIntact'
      BY <1>o, <2>3, <3>1, PollKeeps
    <3>3. SizeInv'
      BY <2>3 DEF Poll, SizeInv
    <3> QED BY <2>3, <3>2, <3>3 DEF Next
  <2> QED BY <1>1, <2>1, <2>2, <2>3 DEF PTimer
<1>2. CASE PInput
  <2>1. ASSUME NEW seg \in toUip, Handle(seg), UNCHANGED <<psock, wire>>
        PROVE  HandlerStep
    <3>1. Next
      BY <2>1 DEF Next
    <3> QED BY <1>o, <2>1, <3>1, NextType, HandleQuiet, HandleSize, QuietKeeps
  <2>2. ASSUME NEW seg \in toUip, NEW r \in Answers, HandleAndSend(seg, r), Handler(r)
        PROVE  HandlerStep
    <3>1. TypeOK' /\ SizeInv'
      BY <2>2, HandleAndSendType, HandleAndSendSize
    <3>2. CASE InSynRcvd(seg, r) \/ InSynSent(seg, r)
      <4>1. /\ AppContract(r, SndAfter(seg), LenAfter(seg))
            /\ PointerInv' /\ StreamIntact'
        BY <1>o, <2>2, <3>1, <3>2, OpenedKeeps
      <4> QED BY <2>2, <3>1, <4>1 DEF Next
    <3>3. CASE InEstablished(seg, r)
      <4>1. /\ \E q \in Answers : /\ AppContract(q, SndAfter(seg), LenAfter(seg))
                                  /\ InEstablished(seg, q)
            /\ PointerInv' /\ StreamIntact'
        BY <1>o, <2>2, <3>1, <3>3, EstablishedKeeps
      <4>2. Next
        BY <4>1 DEF Next, HandleAndSend
      <4> QED BY <3>1, <4>1, <4>2
    <3> QED BY <2>2, <3>2, <3>3 DEF HandleAndSend
  <2> QED BY <1>2, <2>1, <2>2 DEF PInput
<1>3. CASE Connect /\ UNCHANGED <<psock, wire>>
  <2>1. Next
    BY <1>3 DEF Next
  <2> QED BY <1>o, <1>3, <2>1, NextType, ConnectQuiet, QuietKeeps
<1>4. CASE Peer /\ UNCHANGED <<psock, wire>>
  <2>1. Next
    BY <1>4 DEF Next
  <2> QED BY <1>4, <2>1, NextType, PeerQuiet, PeerSize, QuietKeeps
<1>5. CASE UNCHANGED pvars
  BY <1>5 DEF pvars, psock, vars, conn, SizeInv, PointerInv, StreamIntact, Opening
<1> QED BY <1>1, <1>2, <1>3, <1>4, <1>5 DEF PNext

\* The invariant of the protosocket, together with that of both streams.
THEOREM HandlerInvariant ==
  ASSUME FullWindows
  PROVE  PSpec => [](TypeOK /\ StreamInv /\ HandlerInv)
<1>1. PInit => TypeOK /\ StreamInv /\ HandlerInv
  BY InitType, StreamInit, HandlerInit DEF PInit
<1>2. TypeOK /\ StreamInv /\ HandlerInv /\ [PNext]_pvars
        => (TypeOK /\ StreamInv /\ HandlerInv)'
  BY HandlerNext, NextType, StreamNext DEF HandlerStep
<1> QED BY <1>1, <1>2, PTL DEF PSpec

\* psock_send() implements the application that UipTcp assumes: every step of
\* the protosocket's connection is a step of UipTcp with an answer that keeps
\* AppContract.
THEOREM HandlerKeepsContract ==
  ASSUME FullWindows
  PROVE  PSpec => KeepsContract
<1>1. PInit => Init
  BY DEF PInit
<1>2. TypeOK /\ StreamInv /\ HandlerInv /\ [PNext]_pvars => [Next]_vars
  BY HandlerNext DEF HandlerStep
<1> QED BY <1>1, <1>2, HandlerInvariant, PTL DEF PSpec, KeepsContract, Spec

\* Every byte of the handler's data is at its own place in the stream in each
\* segment that carries it, resent ones included.
THEOREM StreamIntactHolds ==
  ASSUME FullWindows
  PROVE  PSpec => []StreamIntact
<1>1. HandlerInv => StreamIntact
  BY DEF HandlerInv
<1> QED BY <1>1, HandlerInvariant, PTL

\* PSOCK_SEND never steps over a byte the remote host does not have.
THEOREM ReturnsWhenReceivedHolds ==
  ASSUME FullWindows
  PROVE  PSpec => []ReturnsWhenReceived
<1>1. TypeOK /\ StreamInv /\ HandlerInv => ReturnsWhenReceived
  <2> SUFFICES ASSUME TypeOK, StreamInv, HandlerInv, sendptr > 0
               PROVE  sendptr < prcv
    BY DEF ReturnsWhenReceived
  <2>1. sendptr \in Nat /\ sendptr < snd_nxt /\ snd_nxt \in Nat /\ prcv \in Nat
    BY DEF HandlerInv, PointerInv, TypeOK
  <2>2. snd_nxt =< prcv
    BY DEF StreamInv, SendInv, StopAndWait
  <2> QED BY <2>1, <2>2
<1> QED BY <1>1, HandlerInvariant, PTL

\* What UipTcp promises to any application holds for the protosocket.
THEOREM HandlerStreams ==
  ASSUME FullWindows
  PROVE  PSpec => [](StopAndWait /\ DeliveredInOrder /\ CleanClose)
BY HandlerKeepsContract, StopAndWaitHolds, DeliveredInOrderHolds, CleanCloseHolds, PTL
DEF KeepsContract
=============================================================================
