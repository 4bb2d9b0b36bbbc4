---------------------------- MODULE UipTcpProofs ----------------------------
(* Proofs about module UipTcp, for every value of its constants.            *)
EXTENDS UipTcp, TLAPS

-----------------------------------------------------------------------------
(* The network and the answer to a callback.                                *)

\* The network holds nothing but what it held before and what was sent.
LEMMA IntoBounds ==
  \A net, m, limit : \A S \in Into(net, m, limit) : S \subseteq net \union {m}
BY DEF Into

\* A segment of the right type keeps the network to the remote host typed.
LEMMA EmitType ==
  ASSUME toPeer \subseteq OutSegment,
         NEW flags \in SUBSET Flags, NEW seq \in Nat, NEW ackno \in Nat,
         NEW n \in Nat, Emit(flags, seq, ackno, n)
  PROVE  toPeer' \subseteq OutSegment
<1>1. [flags |-> flags, seq |-> seq, ackno |-> ackno, len |-> n] \in OutSegment
  BY DEF OutSegment
<1> QED BY <1>1, IntoBounds DEF Emit

LEMMA SendType ==
  ASSUME toUip \subseteq InSegment,
         NEW flags \in SUBSET Flags, NEW seq \in Nat, NEW ackno \in Nat,
         NEW n \in Nat, NEW wnd \in Nat, NEW opt \in Nat,
         Send(flags, seq, ackno, n, wnd, opt)
  PROVE  toUip' \subseteq InSegment
<1>1. [flags |-> flags, seq |-> seq, ackno |-> ackno, len |-> n, wnd |-> wnd,
       mss |-> opt] \in InSegment
  BY DEF InSegment
<1> QED BY <1>1, IntoBounds DEF Send

\* What label appsend leaves behind, whatever the application answers.
LEMMA AppSendType ==
  ASSUME toPeer \subseteq OutSegment, nrtx \in 0..UIP_MAXRTX,
         UIP_MAXRTX \in Nat, AppBytes \in Nat,
         NEW flags, NEW sn \in Nat, NEW ln \in Nat, NEW rn \in Nat,
         NEW m \in Nat, NEW r \in Answers, AppSend(flags, sn, ln, rn, m, r)
  PROVE  /\ tcpstate' \in States /\ len' \in Nat /\ nrtx' \in 0..UIP_MAXRTX
         /\ toPeer' \subseteq OutSegment
<1>0. r.slen \in Nat
  BY DEF Answers
<1>1. CASE r.act = "abort"
  <2>1. Emit({"RST", "ACK"}, sn, rn, 0) /\ tcpstate' = "CLOSED" /\ len' = ln /\ nrtx' = nrtx
    BY <1>1 DEF AppSend
  <2>2. {"RST", "ACK"} \in SUBSET Flags
    BY DEF Flags
  <2> QED BY <2>1, <2>2, EmitType DEF States
<1>2. CASE r.act = "close"
  <2>1. Emit({"FIN", "ACK"}, sn, rn, 0) /\ tcpstate' = "FIN_WAIT_1" /\ len' = 1 /\ nrtx' = 0
    BY <1>2 DEF AppSend
  <2>2. {"FIN", "ACK"} \in SUBSET Flags
    BY DEF Flags
  <2> QED BY <2>1, <2>2, EmitType DEF States
<1>3. CASE r.act = "send"
  <2>1. tcpstate' = "ESTABLISHED" /\ nrtx' = 0
    BY <1>3 DEF AppSend
  <2>2. len' \in Nat
    BY <1>0, <1>3 DEF AppSend, Smaller
  <2>3. \/ Emit({"ACK"}, sn, rn, len') \/ Emit({"ACK"}, sn, rn, 0) \/ toPeer' = toPeer
    BY <1>3 DEF AppSend
  <2>4. {"ACK"} \in SUBSET Flags
    BY DEF Flags
  <2>5. toPeer' \subseteq OutSegment
    BY <2>2, <2>3, <2>4, EmitType
  <2> QED BY <2>1, <2>2, <2>5 DEF States
<1> QED BY <1>1, <1>2, <1>3 DEF AppSend

-----------------------------------------------------------------------------
(* Types.                                                                   *)

LEMMA FlagSets ==
  /\ {"RST", "ACK"} \in SUBSET Flags /\ {"SYN", "ACK"} \in SUBSET Flags
  /\ {"FIN", "ACK"} \in SUBSET Flags /\ {"ACK", "FIN"} \in SUBSET Flags
  /\ {"SYN"} \in SUBSET Flags /\ {"ACK"} \in SUBSET Flags
BY DEF Flags

\* What the acknowledgement part of uip_process() computes.
LEMMA AckType ==
  ASSUME TypeOK, NEW seg \in toUip, EstimateRto(seg)
  PROVE  /\ rto' \in 0..255 /\ TimerAfter(seg) \in 0..255
         /\ SndAfter(seg) \in Nat /\ LenAfter(seg) \in Nat
         /\ AckFlag(seg) \subseteq Events /\ NewFlag(seg) \subseteq Events
<1>1. rto' \in 0..255
  BY TimerAssumption DEF TypeOK, EstimateRto
<1> QED BY <1>1 DEF TypeOK, TimerAfter, SndAfter, LenAfter, AckFlag, NewFlag, Events

\* The timer's steps.
LEMMA TimerType ==
  ASSUME TypeOK, Timer
  PROVE  TypeOK'
<1> USE TimerAssumption, SizeAssumption, FlagSets DEF conn, given, peer
<1>1. CASE TimerWait
  BY <1>1 DEF TypeOK, TimerWait, States
<1>2. CASE TimerCount
  BY <1>2 DEF TypeOK, TimerCount, Retransmitting
<1>3. CASE TimerGiveUp
  <2>1. toPeer' \subseteq OutSegment
    BY <1>3, EmitType DEF TypeOK, TimerGiveUp
  <2> QED BY <1>3, <2>1 DEF TypeOK, TimerGiveUp, States, Events
<1>4. CASE \E r \in Answers : TimerRexmit(r)
  <2> PICK r \in Answers : TimerRexmit(r)
    BY <1>4
  <2>1. timer' \in 0..255
    BY DEF TimerRexmit, Backoff
  <2>2. nrtx' \in 0..UIP_MAXRTX
    BY DEF TypeOK, TimerRexmit, OutOfRetries
  <2>3. toPeer' \subseteq OutSegment /\ called' \subseteq Events
    <3>1. \/ \E f \in SUBSET Flags, n \in Nat : Emit(f, snd_nxt, rcv_nxt, n)
          \/ toPeer' = toPeer
      BY DEF TypeOK, TimerRexmit
    <3>2. called' \subseteq Events
      BY DEF TimerRexmit, Events
    <3> QED BY <3>1, <3>2, EmitType DEF TypeOK
  <2> QED BY <2>1, <2>2, <2>3 DEF TypeOK, TimerRexmit
<1> QED BY <1>1, <1>2, <1>3, <1>4 DEF Timer

\* Segments whose handler makes no call that the application answers.
LEMMA HandleType ==
  ASSUME TypeOK, NEW seg \in toUip, Handle(seg)
  PROVE  TypeOK'
<1> USE TimerAssumption, SizeAssumption, FlagSets DEF conn, given, peer
<1>0. /\ seg \in InSegment /\ seg.flags \in SUBSET Flags
      /\ seg.seq \in Nat /\ seg.ackno \in Nat /\ seg.len \in Nat
      /\ seg.wnd \in Nat /\ seg.mss \in Nat
  BY DEF TypeOK, InSegment
<1>1. CASE Listen(seg)
  <2>1. toPeer' \subseteq OutSegment
    BY <1>0, <1>1, EmitType DEF TypeOK, Listen
  <2>2. initialmss' \in 0..UIP_TCP_MSS /\ mss' \in 0..initialmss'
    BY <1>0, <1>1 DEF TypeOK, Listen, Smaller
  <2> QED BY <1>0, <1>1, <2>1, <2>2 DEF TypeOK, Listen, States
<1>2. CASE InReset(seg)
  <2>1. toPeer' \subseteq OutSegment
    BY <1>0, <1>2, EmitType DEF TypeOK, InReset, ResetReply
  <2> QED BY <1>2, <2>1 DEF TypeOK, InReset
<1>3. CASE InRst(seg)
  BY <1>3 DEF TypeOK, InRst, States, Events
<1>4. CASE InMisplaced(seg)
  <2>1. toPeer' \subseteq OutSegment
    BY <1>4, EmitType DEF TypeOK, InMisplaced
  <2> QED BY <1>4, <2>1 DEF TypeOK, InMisplaced
<1>5. CASE InSynSentRefused(seg)
  <2>1. toPeer' \subseteq OutSegment
    BY <1>0, <1>5, EmitType DEF TypeOK, InSynSentRefused, ResetReply
  <2> QED BY <1>5, <2>1, AckType DEF TypeOK, InSynSentRefused, States, Events
<1>6. CASE InFin(seg)
  <2>1. snd_nxt' \in Nat /\ rcv_nxt' \in Nat
    BY <1>0, <1>6, AckType DEF TypeOK, InFin
  <2>2. toPeer' \subseteq OutSegment
    BY <1>6, <2>1, EmitType DEF TypeOK, InFin
  <2>3. appGot' \in Nat /\ garbled' \in BOOLEAN
    BY <1>0, <1>6 DEF TypeOK, InFin, Deliver
  <2>4. called' \subseteq Events
    BY <1>6, AckType DEF InFin, Events
  <2> QED BY <1>6, <2>1, <2>2, <2>3, <2>4, AckType DEF TypeOK, InFin, States
<1>7. CASE InLastAck(seg)
  BY <1>7, AckType DEF TypeOK, InLastAck, States, Events
<1>8. CASE InFinWait1(seg)
  <2>0. /\ snd_nxt' = SndAfter(seg) /\ EstimateRto(seg)
        /\ rcv_nxt' = rcv_nxt + seg.len + 1 \/ rcv_nxt' = rcv_nxt + seg.len
        /\ timer' = 0 \/ timer' = timer \/ timer' = TimerAfter(seg)
    BY <1>8, Zenon DEF InFinWait1
  <2>1. snd_nxt' \in Nat /\ rcv_nxt' \in Nat /\ timer' \in 0..255
    <3>1. SndAfter(seg) \in Nat /\ TimerAfter(seg) \in 0..255
      BY <2>0, AckType
    <3> QED BY <1>0, <2>0, <3>1 DEF TypeOK
  <2>2. toPeer' \subseteq OutSegment
    BY <1>8, <2>1, EmitType DEF TypeOK, InFinWait1
  <2> QED BY <1>8, <2>1, <2>2, AckType DEF TypeOK, InFinWait1, States, Events
<1>9. CASE InFinWait2(seg)
  <2>1. rcv_nxt' \in Nat
    BY <1>0, <1>9 DEF TypeOK, InFinWait2
  <2>2. toPeer' \subseteq OutSegment
    BY <1>9, <2>1, EmitType DEF TypeOK, InFinWait2
  <2> QED BY <1>9, <2>1, <2>2 DEF TypeOK, InFinWait2, States, Events
<1>10. CASE InTimeWait(seg)
  <2>1. toPeer' \subseteq OutSegment
    BY <1>10, EmitType DEF TypeOK, InTimeWait
  <2> QED BY <1>10, <2>1 DEF TypeOK, InTimeWait
<1>11. CASE InClosing(seg)
  BY <1>11, AckType DEF TypeOK, InClosing, States
<1> QED
  BY <1>1, <1>2, <1>3, <1>4, <1>5, <1>6, <1>7, <1>8, <1>9, <1>10, <1>11 DEF Handle

\* Segments whose handler ends in label appsend.
LEMMA HandleAndSendType ==
  ASSUME TypeOK, NEW seg \in toUip, NEW r \in Answers, HandleAndSend(seg, r)
  PROVE  TypeOK'
<1> USE TimerAssumption, SizeAssumption DEF given, peer
<1>0. seg.seq \in Nat /\ seg.len \in Nat /\ seg.wnd \in Nat /\ seg.mss \in Nat
  BY DEF TypeOK, InSegment
<1>1. CASE InSynRcvd(seg, r)
  <2>1. snd_nxt' \in Nat /\ rcv_nxt' \in Nat
    BY <1>0, <1>1, AckType DEF TypeOK, InSynRcvd
  <2>2. /\ tcpstate' \in States /\ len' \in Nat /\ nrtx' \in 0..UIP_MAXRTX
        /\ toPeer' \subseteq OutSegment
    BY <1>1, <2>1, AppSendType DEF TypeOK, InSynRcvd
  <2>3. appGot' \in Nat /\ garbled' \in BOOLEAN
    BY <1>0, <1>1 DEF TypeOK, InSynRcvd, Deliver
  <2>4. called' \subseteq Events
    BY <1>1, AckType DEF InSynRcvd, Events
  <2> QED BY <1>1, <2>1, <2>2, <2>3, <2>4, AckType DEF TypeOK, InSynRcvd
<1>2. CASE InSynSent(seg, r)
  <2>1. snd_nxt' \in Nat /\ rcv_nxt' \in Nat
    BY <1>0, <1>2, AckType DEF TypeOK, InSynSent
  <2>2. initialmss' \in 0..UIP_TCP_MSS /\ mss' \in 0..initialmss'
    BY <1>0, <1>2 DEF TypeOK, InSynSent, Smaller
  <2>3. /\ tcpstate' \in States /\ len' \in Nat /\ nrtx' \in 0..UIP_MAXRTX
        /\ toPeer' \subseteq OutSegment
    BY <1>2, <2>1, <2>2, AppSendType DEF TypeOK, InSynSent
  <2>4. called' \subseteq Events
    BY <1>2 DEF InSynSent, Events
  <2> QED BY <1>2, <2>1, <2>2, <2>3, <2>4, AckType DEF TypeOK, InSynSent
<1>3. CASE InEstablished(seg, r)
  <2>1. snd_nxt' \in Nat /\ rcv_nxt' \in Nat /\ LenAfter(seg) \in Nat
    BY <1>0, <1>3, AckType DEF TypeOK, InEstablished
  <2>2. mss' \in 0..initialmss
    BY <1>0, <1>3 DEF TypeOK, InEstablished, SizeFor
  <2>3. /\ tcpstate' \in States /\ len' \in Nat /\ nrtx' \in 0..UIP_MAXRTX
        /\ toPeer' \subseteq OutSegment
    <3>1. CASE called' = {}
      BY <1>3, <3>1 DEF TypeOK, InEstablished
    <3>2. CASE called' # {}
      <4>1. AppSend(called', snd_nxt', LenAfter(seg), rcv_nxt', mss', r) /\ mss' \in Nat
        BY <1>3, <2>2, <3>2 DEF TypeOK, InEstablished
      <4> QED BY <2>1, <4>1, AppSendType DEF TypeOK
    <3> QED BY <3>1, <3>2
  <2>4. appGot' \in Nat /\ garbled' \in BOOLEAN
    BY <1>0, <1>3 DEF TypeOK, InEstablished, Deliver
  <2>5. called' \subseteq Events
    BY <1>3, AckType DEF InEstablished
  <2> QED BY <1>3, <2>1, <2>2, <2>3, <2>4, <2>5, AckType DEF TypeOK, InEstablished
<1> QED BY <1>1, <1>2, <1>3 DEF HandleAndSend

\* The remote host's steps.
LEMMA PeerType ==
  ASSUME TypeOK, Peer
  PROVE  TypeOK'
<1> USE TimerAssumption, SizeAssumption, FlagSets DEF conn, given, peer, PeerStays
<1>1. CASE PeerOpen
  <2>1. toUip' \subseteq InSegment
    BY <1>1, SendType DEF TypeOK, PeerOpen
  <2> QED BY <1>1, <2>1 DEF TypeOK, PeerOpen
<1>2. CASE PeerAck
  <2>1. toUip' \subseteq InSegment
    BY <1>2, SendType DEF TypeOK, PeerAck
  <2> QED BY <1>2, <2>1 DEF TypeOK, PeerAck
<1>3. CASE PeerAbort
  <2>1. toUip' \subseteq InSegment
    BY <1>3, SendType DEF TypeOK, PeerAbort
  <2> QED BY <1>3, <2>1 DEF TypeOK, PeerAbort
<1>4. ASSUME NEW m \in toPeer,
             PeerAnswerSyn(m) \/ PeerSynAck(m) \/ PeerRecv(m) \/ PeerReset(m)
      PROVE  TypeOK'
  <2>0. m.seq \in Nat /\ m.ackno \in Nat /\ m.len \in Nat
    BY DEF TypeOK, OutSegment
  <2>1. CASE PeerAnswerSyn(m)
    <3>1. toUip' \subseteq InSegment
      BY <2>1, SendType DEF TypeOK, PeerAnswerSyn
    <3> QED BY <2>1, <3>1 DEF TypeOK, PeerAnswerSyn
  <2>2. CASE PeerSynAck(m)
    <3>1. prcv' \in Nat
      BY <2>0, <2>2 DEF PeerSynAck
    <3>2. toUip' \subseteq InSegment
      BY <2>2, <3>1, SendType DEF TypeOK, PeerSynAck
    <3> QED BY <2>2, <3>1, <3>2 DEF TypeOK, PeerSynAck
  <2>3. CASE PeerRecv(m)
    <3>1. prcv' \in Nat
      BY <2>0, <2>3 DEF TypeOK, PeerRecv, Taken, Fin
    <3>2. toUip' \subseteq InSegment
      BY <2>3, <3>1, SendType DEF TypeOK, PeerRecv
    <3> QED BY <2>0, <2>3, <3>1, <3>2 DEF TypeOK, PeerRecv
  <2>4. CASE PeerReset(m)
    <3>1. toUip' \subseteq InSegment
      BY <2>0, <2>4, SendType DEF TypeOK, PeerReset
    <3> QED BY <2>4, <3>1 DEF TypeOK, PeerReset
  <2> QED BY <1>4, <2>1, <2>2, <2>3, <2>4
<1>5. ASSUME NEW s \in 1..PeerBytes + 1, NEW n \in 0..PeerBytes, NEW fin \in BOOLEAN,
             PeerSend(s, n, fin)
      PROVE  TypeOK'
  <2>1. toUip' \subseteq InSegment
    BY <1>5, SendType DEF TypeOK, PeerSend
  <2> QED BY <1>5, <2>1 DEF TypeOK, PeerSend
<1> QED BY <1>1, <1>2, <1>3, <1>4, <1>5 DEF Peer

LEMMA PollType ==
  ASSUME TypeOK, NEW r \in Answers, Poll(r)
  PROVE  TypeOK'
<1> USE SizeAssumption, TimerAssumption DEF given, peer
<1>1. /\ tcpstate' \in States /\ len' \in Nat /\ nrtx' \in 0..UIP_MAXRTX
      /\ toPeer' \subseteq OutSegment
  BY AppSendType DEF TypeOK, Poll
<1> QED BY <1>1 DEF TypeOK, Poll, Events

LEMMA ConnectType ==
  ASSUME TypeOK, Connect
  PROVE  TypeOK'
BY TimerAssumption, SizeAssumption DEF TypeOK, Connect, given, peer, States

LEMMA NextType == TypeOK /\ [Next]_vars => TypeOK'
<1> SUFFICES ASSUME TypeOK, [Next]_vars PROVE TypeOK'
  OBVIOUS
<1>1. CASE Next
  BY <1>1, ConnectType, PollType, TimerType, HandleType, HandleAndSendType, PeerType
  DEF Next
<1>2. CASE UNCHANGED vars
  BY <1>2 DEF TypeOK, vars, conn, given, peer
<1> QED BY <1>1, <1>2

LEMMA InitType == Init => TypeOK
<1> SUFFICES ASSUME Init PROVE TypeOK
  OBVIOUS
<1>1. used \in BOOLEAN /\ garbled \in BOOLEAN /\ pfin \in BOOLEAN
  BY Zenon DEF Init
<1>2. toUip \subseteq InSegment /\ toPeer \subseteq OutSegment /\ called \subseteq Events
  BY DEF Init
<1>3. /\ tcpstate \in States
      /\ rcv_nxt \in Nat /\ snd_nxt \in Nat /\ len \in Nat
      /\ nrtx \in 0..UIP_MAXRTX /\ timer \in 0..255 /\ rto \in 0..255
      /\ initialmss \in 0..UIP_TCP_MSS /\ mss \in 0..initialmss /\ appGot \in Nat
      /\ pstate \in {"idle", "syn_sent", "open", "gone"}
      /\ psnd \in Nat /\ puna \in Nat /\ prcv \in Nat
  BY TimerAssumption, SizeAssumption DEF Init, States
<1> QED BY <1>1, <1>2, <1>3 DEF TypeOK

\* Type correctness of the connection, with the bounds of its 8-bit fields.
THEOREM TypeCorrect == Spec => []TypeOK
BY InitType, NextType, PTL DEF Spec
=============================================================================
