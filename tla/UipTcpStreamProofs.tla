------------------------- MODULE UipTcpStreamProofs -------------------------
(***************************************************************************)
(* That both directions of a connection keep their promises, for every     *)
(* value of the constants and any number of lost, repeated and overtaking  *)
(* segments.  Neither property is inductive: what a late segment may do    *)
(* depends on what the network can still hold.                             *)
(***************************************************************************)
EXTENDS UipTcpProofs

Syn(m) == IF "SYN" \in m.flags THEN 1 ELSE 0

\* The number after the last one a segment takes up.
End(m) == m.seq + m.len + Fin(m) + Syn(m)

Plain(net) == {m \in net : "RST" \notin m.flags}

-----------------------------------------------------------------------------
(* From uIP to the remote host.                                             *)

\* Nothing on its way goes beyond the one outstanding segment ...
SentInv ==
  \A m \in Plain(toPeer) :
    /\ End(m) =< snd_nxt + len
    /\ "SYN" \in m.flags => m.seq = 0

\* ... and no acknowledgement beyond what the remote host has.
AckedInv ==
  \A seg \in Plain(toUip) : "ACK" \in seg.flags => seg.ackno =< prcv

OpeningInv ==
  /\ pstate \in {"idle", "syn_sent"} => prcv = 0
  /\ ~used => tcpstate = "CLOSED" /\ snd_nxt = 0 /\ len = 0
  /\ tcpstate \in {"SYN_SENT", "SYN_RCVD"} => snd_nxt = 0

SendInv == StopAndWait /\ SentInv /\ AckedInv /\ OpeningInv

-----------------------------------------------------------------------------
(* From the remote host to uIP.                                             *)

\* Everything on its way was sent; a FIN is the last thing that is ever sent.
OfferedInv ==
  \A seg \in Plain(toUip) :
    /\ End(seg) =< psnd
    /\ "SYN" \in seg.flags => seg.seq = 0 /\ seg.len = 0 /\ "FIN" \notin seg.flags
    /\ "FIN" \in seg.flags => pfin /\ End(seg) = psnd

\* No acknowledgement goes beyond what uIP has taken.
TakenInv ==
  /\ \A m \in Plain(toPeer) : m.ackno =< rcv_nxt
  /\ puna =< rcv_nxt
  /\ rcv_nxt =< psnd

\* Where the application is in the stream, by state.
PlaceInv ==
  /\ ~garbled
  /\ ~used => rcv_nxt = 0 /\ appGot = 0
  /\ tcpstate = "SYN_SENT" => rcv_nxt = 0 /\ appGot = 0
  /\ tcpstate = "SYN_RCVD" => rcv_nxt = 1 /\ appGot = 0
  /\ tcpstate = "ESTABLISHED" => rcv_nxt = appGot + 1
  /\ tcpstate = "LAST_ACK" => rcv_nxt = appGot + 2

\* After the remote FIN was taken nothing can follow.
EndInv ==
  /\ pstate \in {"idle", "syn_sent"} => ~pfin /\ psnd =< 1
  /\ tcpstate \in {"CLOSING", "LAST_ACK", "TIME_WAIT"} => pfin /\ rcv_nxt = psnd
  /\ tcpstate \in {"FIN_WAIT_2", "TIME_WAIT"} => len = 0
  /\ tcpstate = "CLOSED" /\ called = {"CLOSE"} => pfin /\ rcv_nxt = psnd /\ len = 0

ReadInv == OfferedInv /\ TakenInv /\ PlaceInv /\ EndInv

-----------------------------------------------------------------------------
(* What is sent.                                                            *)

\* Arithmetic that the prover finds only when it is stated by itself.
LEMMA SumBound ==
  \A w, x, y, z, e \in Nat : e =< w + x /\ w + x =< y + z => e =< y + z
OBVIOUS

LEMMA SumGrows ==
  \A x, y, z \in Nat : y =< z => x + y =< x + z
OBVIOUS

LEMMA EmitNew ==
  ASSUME NEW flags, NEW seq, NEW ackno, NEW n, Emit(flags, seq, ackno, n)
  PROVE  toPeer' \subseteq toPeer \union {[flags |-> flags, seq |-> seq,
                                           ackno |-> ackno, len |-> n]}
BY IntoBounds DEF Emit

LEMMA SendNew ==
  ASSUME NEW flags, NEW seq, NEW ackno, NEW n, NEW wnd, NEW opt,
         Send(flags, seq, ackno, n, wnd, opt)
  PROVE  toUip' \subseteq toUip \union {[flags |-> flags, seq |-> seq,
                       ackno |-> ackno, len |-> n, wnd |-> wnd, mss |-> opt]}
BY IntoBounds DEF Send

\* Segments from uIP: a new one stays within what is outstanding and
\* acknowledges no more than what was taken.
NewOk == \A m \in Plain(toPeer') \ toPeer :
  /\ End(m) =< snd_nxt' + len'
  /\ "SYN" \in m.flags => m.seq = 0
  /\ m.ackno =< rcv_nxt'

LEMMA EmitReset ==
  ASSUME NEW flags, NEW seq, NEW ackno, NEW n, "RST" \in flags,
         Emit(flags, seq, ackno, n)
  PROVE  NewOk
BY EmitNew DEF NewOk, Plain

LEMMA EmitPlain ==
  ASSUME NEW flags, NEW seq, NEW ackno, NEW n, Emit(flags, seq, ackno, n),
         "SYN" \in flags => seq = 0,
         ackno =< rcv_nxt',
         seq + n + (IF "FIN" \in flags THEN 1 ELSE 0)
                 + (IF "SYN" \in flags THEN 1 ELSE 0) =< snd_nxt' + len'
  PROVE  NewOk
<1> SUFFICES ASSUME NEW m \in Plain(toPeer') \ toPeer
             PROVE  /\ End(m) =< snd_nxt' + len'
                    /\ "SYN" \in m.flags => m.seq = 0
                    /\ m.ackno =< rcv_nxt'
  BY DEF NewOk
<1>1. m = [flags |-> flags, seq |-> seq, ackno |-> ackno, len |-> n]
  BY EmitNew DEF Plain
<1> QED BY <1>1 DEF End, Fin, Syn

LEMMA EmitNothing ==
  ASSUME UNCHANGED toPeer
  PROVE  NewOk
BY DEF NewOk, Plain

\* Label appsend, for an application that keeps its contract.
LEMMA AppSendNew ==
  ASSUME NEW flags, NEW ln \in Nat, NEW r \in Answers, AppBytes \in Nat,
         snd_nxt' \in Nat, rcv_nxt' \in Nat, mss' \in Nat,
         AppContract(r, snd_nxt', ln),
         AppSend(flags, snd_nxt', ln, rcv_nxt', mss', r)
  PROVE  /\ NewOk
         /\ ln =< len'
         /\ tcpstate' \in {"CLOSED", "FIN_WAIT_1", "ESTABLISHED"}
<1>0. r.slen \in Nat
  BY DEF Answers
<1>1. CASE r.act = "abort"
  <2>1. Emit({"RST", "ACK"}, snd_nxt', rcv_nxt', 0) /\ tcpstate' = "CLOSED" /\ len' = ln
    BY <1>1 DEF AppSend
  <2> QED BY <2>1, EmitReset
<1>2. CASE r.act = "close"
  <2>1. Emit({"FIN", "ACK"}, snd_nxt', rcv_nxt', 0) /\ tcpstate' = "FIN_WAIT_1" /\ len' = 1
    BY <1>2 DEF AppSend
  <2>2. ln = 0
    BY <1>2 DEF AppContract
  <2> QED BY <2>1, <2>2, EmitPlain
<1>3. CASE r.act = "send"
  <2>1. tcpstate' = "ESTABLISHED"
    BY <1>3 DEF AppSend
  <2>2. len' \in Nat /\ ln =< len'
    BY <1>0, <1>3 DEF AppSend, Smaller
  <2>3. \/ Emit({"ACK"}, snd_nxt', rcv_nxt', len')
        \/ Emit({"ACK"}, snd_nxt', rcv_nxt', 0)
        \/ UNCHANGED toPeer
    BY <1>3 DEF AppSend
  <2>4. NewOk
    BY <2>2, <2>3, EmitPlain, EmitNothing
  <2> QED BY <2>1, <2>2, <2>4
<1> QED BY <1>1, <1>2, <1>3 DEF AppSend

-----------------------------------------------------------------------------
(* The steps of uIP, all of them, seen from either stream.                   *)

\* The sending side: what is acknowledged has arrived, the sum of what is
\* acknowledged and what is outstanding never shrinks.
SendStep ==
  /\ NewOk
  /\ snd_nxt + len =< snd_nxt' + len'
  /\ snd_nxt' = snd_nxt \/ snd_nxt' =< prcv
  /\ used' = TRUE \/ UNCHANGED <<tcpstate, snd_nxt, len, used>>
  /\ tcpstate' \in {"SYN_SENT", "SYN_RCVD"} => snd_nxt' = 0

\* The receiving side.
ReadStep ==
  /\ rcv_nxt =< rcv_nxt' /\ rcv_nxt' =< psnd
  /\ PlaceInv'
  /\ tcpstate' \in {"CLOSING", "LAST_ACK", "TIME_WAIT"} => pfin /\ rcv_nxt' = psnd
  /\ tcpstate' \in {"FIN_WAIT_2", "TIME_WAIT"} => len' = 0
  /\ tcpstate' = "CLOSED" /\ called' = {"CLOSE"}
       => pfin /\ rcv_nxt' = psnd /\ len' = 0

UipStep == SendStep /\ ReadStep /\ UNCHANGED <<toUip, peer>>

StreamInv == SendInv /\ ReadInv

LEMMA UipStepKeeps ==
  ASSUME TypeOK, TypeOK', StreamInv, UipStep
  PROVE  StreamInv'
<1> USE DEF StreamInv, UipStep, peer
<1>0. /\ snd_nxt \in Nat /\ len \in Nat /\ snd_nxt' \in Nat /\ len' \in Nat
      /\ prcv \in Nat /\ UNCHANGED <<toUip, pstate, psnd, puna, prcv, pfin>>
  BY DEF TypeOK
<1>a. /\ snd_nxt + len =< snd_nxt' + len'
      /\ snd_nxt' = snd_nxt \/ snd_nxt' =< prcv
  BY Zenon DEF SendStep
<1>b. snd_nxt =< prcv /\ prcv =< snd_nxt + len
  BY Zenon DEF SendInv, StopAndWait
<1>1. StopAndWait'
  BY <1>0, <1>a, <1>b, SumBound DEF StopAndWait
<1>2. SentInv'
  <2> SUFFICES ASSUME NEW m \in Plain(toPeer')
               PROVE  End(m) =< snd_nxt' + len' /\ ("SYN" \in m.flags => m.seq = 0)
    BY DEF SentInv, Plain, End, Fin, Syn
  <2>1. CASE m \notin toPeer
    BY <2>1 DEF SendStep, NewOk
  <2>2. CASE m \in toPeer
    <3>1. End(m) =< snd_nxt + len /\ ("SYN" \in m.flags => m.seq = 0)
      BY <2>2 DEF SendInv, SentInv, Plain
    <3>2. m.seq \in Nat /\ m.len \in Nat
      BY <2>2 DEF TypeOK, OutSegment
    <3>3. End(m) \in Nat
      BY <3>2 DEF End, Fin, Syn
    <3>4. ASSUME NEW e \in Nat, e =< snd_nxt + len PROVE e =< snd_nxt' + len'
      BY <1>0, <1>a, <3>4, SumBound
    <3> QED BY <3>1, <3>3, <3>4
  <2> QED BY <2>1, <2>2
<1>3. AckedInv' /\ OpeningInv'
  BY DEF SendInv, SendStep, AckedInv, OpeningInv, Plain
<1>4. OfferedInv'
  BY DEF ReadInv, OfferedInv, Plain, End, Fin, Syn
<1>5. TakenInv'
  <2> SUFFICES ASSUME NEW m \in Plain(toPeer') PROVE m.ackno =< rcv_nxt'
    BY DEF TypeOK, ReadInv, ReadStep, TakenInv, Plain
  <2>1. CASE m \notin toPeer
    BY <2>1 DEF SendStep, NewOk
  <2>2. CASE m \in toPeer
    <3>1. m.ackno =< rcv_nxt /\ m.ackno \in Nat
      BY <2>2 DEF TypeOK, OutSegment, ReadInv, TakenInv, Plain
    <3> QED BY <3>1 DEF TypeOK, ReadStep
  <2> QED BY <2>1, <2>2
<1>6. PlaceInv' /\ EndInv'
  BY DEF ReadInv, ReadStep, EndInv
<1> QED BY <1>1, <1>2, <1>3, <1>4, <1>5, <1>6 DEF SendInv, ReadInv

LEMMA ConnectStep ==
  ASSUME TypeOK, StreamInv, Connect
  PROVE  UipStep
<1> USE DEF StreamInv, SendInv, ReadInv, OpeningInv, PlaceInv, TakenInv
<1>1. NewOk
  BY EmitNothing DEF Connect
<1>2. SendStep
  BY <1>1 DEF TypeOK, Connect, SendStep
<1>3. ReadStep
  BY DEF TypeOK, Connect, ReadStep, given
<1> QED BY <1>2, <1>3 DEF Connect, UipStep

LEMMA PollStep ==
  ASSUME TypeOK, TypeOK', StreamInv, NEW r \in Answers,
         AppContract(r, snd_nxt, len), Poll(r)
  PROVE  UipStep
<1> USE DEF StreamInv, SendInv, ReadInv
<1>1. /\ AppSend({"POLL"}, snd_nxt', len, rcv_nxt', mss', r)
      /\ AppContract(r, snd_nxt', len)
      /\ tcpstate = "ESTABLISHED" /\ called' = {"POLL"} /\ len = 0
      /\ UNCHANGED <<rcv_nxt, snd_nxt, mss, used, given, toUip, peer>>
  BY DEF Poll
<1>2. NewOk /\ len =< len' /\ tcpstate' \in {"CLOSED", "FIN_WAIT_1", "ESTABLISHED"}
  BY <1>1, AppSendNew, SizeAssumption DEF TypeOK
<1>0. used' = TRUE
  BY <1>1 DEF OpeningInv
<1>3. SendStep
  <2>1. snd_nxt + len =< snd_nxt' + len'
    BY <1>1, <1>2, SumGrows DEF TypeOK
  <2> QED BY <1>0, <1>1, <1>2, <2>1 DEF SendStep
<1>4. ReadStep
  BY <1>0, <1>1, <1>2 DEF TypeOK, ReadStep, TakenInv, PlaceInv, given
<1> QED BY <1>1, <1>3, <1>4 DEF UipStep

LEMMA TimerStep ==
  ASSUME TypeOK, TypeOK', StreamInv, Timer
  PROVE  UipStep
<1> USE DEF StreamInv, SendInv, ReadInv, given, peer
<1>0. tcpstate # "CLOSED" => used = TRUE
  BY DEF OpeningInv
<1>1. CASE TimerWait
  <2>1. NewOk
    BY <1>1, EmitNothing DEF TimerWait
  <2>2. SendStep
    BY <1>0, <1>1, <2>1 DEF TypeOK, TimerWait, SendStep
  <2>3. ReadStep
    BY <1>0, <1>1 DEF TypeOK, TimerWait, ReadStep, TakenInv, PlaceInv, EndInv
  <2> QED BY <1>1, <2>2, <2>3 DEF TimerWait, UipStep
<1>2. CASE TimerCount
  <2>1. NewOk
    BY <1>2, EmitNothing DEF TimerCount
  <2>2. SendStep
    BY <1>0, <1>2, <2>1 DEF TypeOK, TimerCount, Retransmitting, SendStep, OpeningInv
  <2>3. ReadStep
    BY <1>0, <1>2 DEF TypeOK, TimerCount, Retransmitting, ReadStep, TakenInv, PlaceInv, EndInv
  <2> QED BY <1>2, <2>2, <2>3 DEF TimerCount, UipStep
<1>3. CASE TimerGiveUp
  <2>1. NewOk
    BY <1>3, EmitReset DEF TimerGiveUp
  <2>2. SendStep
    BY <1>0, <1>3, <2>1 DEF TypeOK, TimerGiveUp, Retransmitting, SendStep
  <2>3. ReadStep
    BY <1>0, <1>3 DEF TypeOK, TimerGiveUp, Retransmitting, ReadStep, TakenInv, PlaceInv
  <2> QED BY <1>3, <2>2, <2>3 DEF TimerGiveUp, UipStep
<1>4. CASE \E r \in Answers : TimerRexmit(r)
  <2> PICK r \in Answers : TimerRexmit(r)
    BY <1>4
  <2>0. /\ UNCHANGED <<tcpstate, rcv_nxt, snd_nxt, len, used, given, toUip, peer>>
        /\ len > 0 /\ tcpstate # "CLOSED" /\ called' # {"CLOSE"}
    BY DEF TimerRexmit, Retransmitting
  <2>1. \/ tcpstate = "SYN_RCVD" /\ Emit({"SYN", "ACK"}, snd_nxt, rcv_nxt, 0)
        \/ tcpstate = "SYN_SENT" /\ Emit({"SYN"}, snd_nxt, rcv_nxt, 0)
        \/ Emit({"FIN", "ACK"}, snd_nxt, rcv_nxt, 0)
        \/ Emit({"ACK"}, snd_nxt, rcv_nxt, len)
        \/ UNCHANGED toPeer
    BY DEF TimerRexmit
  <2>2. NewOk
    BY <2>0, <2>1, EmitPlain, EmitNothing DEF TypeOK, OpeningInv
  <2>3. SendStep
    BY <1>0, <2>0, <2>2 DEF TypeOK, SendStep, OpeningInv
  <2>4. ReadStep
    BY <1>0, <2>0 DEF TypeOK, ReadStep, TakenInv, PlaceInv, EndInv
  <2> QED BY <2>0, <2>3, <2>4 DEF UipStep
<1> QED BY <1>1, <1>2, <1>3, <1>4 DEF Timer

-----------------------------------------------------------------------------
(* Segments that arrive.                                                    *)

\* Only an acknowledgement of what the remote host has moves snd_nxt.
LEMMA AckStep ==
  ASSUME TypeOK, StreamInv, NEW seg \in toUip, "RST" \notin seg.flags
  PROVE  /\ SndAfter(seg) \in Nat /\ LenAfter(seg) \in Nat
         /\ SndAfter(seg) = snd_nxt \/ SndAfter(seg) =< prcv
         /\ SndAfter(seg) + LenAfter(seg) = snd_nxt + len
<1>1. snd_nxt \in Nat /\ len \in Nat
  BY DEF TypeOK
<1>2. CASE Acks(seg)
  <2>1. SndAfter(seg) = snd_nxt + len /\ LenAfter(seg) = 0 /\ seg.ackno = snd_nxt + len
    BY <1>2 DEF Acks, SndAfter, LenAfter
  <2>2. seg.ackno =< prcv
    BY <1>2 DEF Acks, StreamInv, SendInv, AckedInv, Plain
  <2> QED BY <1>1, <2>1, <2>2
<1>3. CASE ~Acks(seg)
  BY <1>1, <1>3 DEF SndAfter, LenAfter
<1> QED BY <1>2, <1>3

\* A segment that passes the check on its number lies within what was sent; if
\* it has a FIN, it ends where the stream ends.
LEMMA SegmentPlace ==
  ASSUME TypeOK, StreamInv, NEW seg \in toUip, Accepted(seg),
         tcpstate # "SYN_SENT"
  PROVE  /\ seg.len \in Nat /\ seg.seq \in Nat
         /\ seg.len > 0 => seg.seq = rcv_nxt
         /\ "SYN" \notin seg.flags \/ rcv_nxt = 0
         /\ rcv_nxt + seg.len =< psnd
         /\ "FIN" \in seg.flags => pfin /\ rcv_nxt + seg.len + 1 = psnd
<1>0. /\ seg.len \in Nat /\ seg.seq \in Nat /\ rcv_nxt \in Nat /\ psnd \in Nat
  BY DEF TypeOK, InSegment
<1>1. "RST" \notin seg.flags /\ ~Misplaced(seg)
  BY DEF Accepted
<1>2. seg.len > 0 \/ "SYN" \in seg.flags \/ "FIN" \in seg.flags => seg.seq = rcv_nxt
  BY <1>1 DEF Misplaced
<1>3. /\ End(seg) =< psnd
      /\ "SYN" \in seg.flags => seg.seq = 0 /\ "FIN" \notin seg.flags
      /\ "FIN" \in seg.flags => pfin /\ End(seg) = psnd
  BY <1>1 DEF StreamInv, ReadInv, OfferedInv, Plain
<1>4. "SYN" \notin seg.flags \/ rcv_nxt = 0
  BY <1>2, <1>3
<1>5. rcv_nxt + seg.len =< psnd
  <2>1. CASE seg.len = 0
    BY <1>0, <2>1 DEF StreamInv, ReadInv, TakenInv
  <2>2. CASE seg.len > 0
    BY <1>0, <1>2, <1>3, <2>2 DEF End, Fin, Syn
  <2> QED BY <1>0, <2>1, <2>2
<1>6. "FIN" \in seg.flags => pfin /\ rcv_nxt + seg.len + 1 = psnd
  BY <1>0, <1>2, <1>3 DEF End, Fin, Syn
<1> QED BY <1>0, <1>2, <1>4, <1>5, <1>6

\* Bytes that begin at rcv_nxt are the ones the application is waiting for.
LEMMA DeliverOk ==
  ASSUME garbled = FALSE, NEW seg, seg.len > 0 => seg.seq = appGot + 1, Deliver(seg)
  PROVE  garbled' = FALSE /\ appGot' = appGot + seg.len
<1>1. ~(seg.len > 0 /\ seg.seq # appGot + 1)
  OBVIOUS
<1>2. /\ garbled' = (garbled \/ (seg.len > 0 /\ seg.seq # appGot + 1))
      /\ appGot' = appGot + seg.len
  BY Zenon DEF Deliver
<1>3. garbled' = FALSE
  BY <1>1, <1>2, Zenon
<1> QED BY <1>2, <1>3, Zenon

LEMMA ListenStep ==
  ASSUME TypeOK, TypeOK', StreamInv, NEW seg \in toUip, Listen(seg)
  PROVE  UipStep
<1>1. /\ seg.flags = {"SYN"} /\ ~used /\ tcpstate = "CLOSED"
      /\ tcpstate' = "SYN_RCVD" /\ used' = TRUE /\ snd_nxt' = 0 /\ len' = 1
      /\ rcv_nxt' = seg.seq + 1 /\ called' = {}
      /\ UNCHANGED <<given, toUip, peer>>
      /\ Emit({"SYN", "ACK"}, snd_nxt', rcv_nxt', 0)
  BY DEF Listen
<1>2. seg.seq = 0 /\ seg.len = 0 /\ End(seg) =< psnd
  BY <1>1 DEF StreamInv, ReadInv, OfferedInv, Plain
<1>3. psnd \in Nat /\ 1 =< psnd
  BY <1>1, <1>2 DEF TypeOK, End, Fin, Syn
<1>4. snd_nxt = 0 /\ len = 0 /\ rcv_nxt = 0 /\ appGot = 0 /\ garbled = FALSE
  BY <1>1 DEF TypeOK, StreamInv, SendInv, OpeningInv, ReadInv, PlaceInv
<1>5. NewOk
  BY <1>1, <1>2, EmitPlain
<1>6. SendStep
  BY <1>1, <1>4, <1>5 DEF SendStep
<1>7. ReadStep
  BY <1>1, <1>2, <1>3, <1>4 DEF ReadStep, PlaceInv, given
<1> QED BY <1>1, <1>6, <1>7 DEF UipStep

\* Steps that leave the connection alone and at most acknowledge or reset.
LEMMA IdleStep ==
  ASSUME TypeOK, StreamInv, NewOk, called' = {},
         UNCHANGED <<conn, used, given, toUip, peer>>
  PROVE  UipStep
<1> USE DEF StreamInv, SendInv, ReadInv
<1>1. SendStep
  BY DEF TypeOK, SendStep, OpeningInv, conn
<1>2. ReadStep
  BY DEF TypeOK, ReadStep, TakenInv, PlaceInv, EndInv, conn, given
<1> QED BY <1>1, <1>2 DEF UipStep

LEMMA HandleStep ==
  ASSUME TypeOK, TypeOK', StreamInv, NEW seg \in toUip, Handle(seg)
  PROVE  UipStep
<1> USE DEF peer
<1>0. tcpstate # "CLOSED" => used = TRUE
  BY DEF StreamInv, SendInv, OpeningInv, TypeOK
<1>n. /\ snd_nxt \in Nat /\ len \in Nat /\ rcv_nxt \in Nat /\ psnd \in Nat
      /\ snd_nxt' \in Nat /\ len' \in Nat /\ rcv_nxt' \in Nat /\ appGot \in Nat
  BY DEF TypeOK
<1>t. rcv_nxt =< psnd /\ garbled = FALSE
  BY DEF TypeOK, StreamInv, ReadInv, TakenInv, PlaceInv
<1>1. CASE Listen(seg)
  BY <1>1, ListenStep
<1>2. CASE InReset(seg)
  <2>1. NewOk
    BY <1>2, EmitReset DEF InReset, ResetReply
  <2> QED BY <1>2, <2>1, IdleStep DEF InReset
<1>3. CASE InRst(seg)
  <2>1. NewOk
    BY <1>3, EmitNothing DEF InRst
  <2>2. SendStep
    BY <1>0, <1>3, <1>n, <2>1 DEF InRst, SendStep
  <2>3. ReadStep
    BY <1>0, <1>3, <1>n, <1>t DEF InRst, ReadStep, PlaceInv, given
  <2> QED BY <1>3, <2>2, <2>3 DEF InRst, UipStep
<1>4. CASE InMisplaced(seg)
  <2>1. NewOk
    BY <1>4, <1>n, EmitPlain DEF InMisplaced, conn
  <2> QED BY <1>4, <2>1, IdleStep DEF InMisplaced
<1>5. CASE InSynSentRefused(seg)
  <2>1. NewOk
    BY <1>5, EmitReset DEF InSynSentRefused, ResetReply
  <2>2. SendStep
    BY <1>0, <1>5, <1>n, <2>1, AckStep DEF InSynSentRefused, Accepted, SendStep
  <2>3. ReadStep
    BY <1>0, <1>5, <1>n, <1>t DEF InSynSentRefused, Accepted, ReadStep, PlaceInv, given
  <2> QED BY <1>5, <2>2, <2>3 DEF InSynSentRefused, UipStep
<1>6. CASE InFin(seg)
  <2>1. /\ Accepted(seg) /\ tcpstate = "ESTABLISHED" /\ "FIN" \in seg.flags
        /\ LenAfter(seg) = 0 /\ snd_nxt' = SndAfter(seg) /\ len' = 1
        /\ rcv_nxt' = rcv_nxt + 1 + seg.len /\ Deliver(seg)
        /\ tcpstate' = "LAST_ACK" /\ UNCHANGED <<used, toUip, peer>>
        /\ Emit({"FIN", "ACK"}, snd_nxt', rcv_nxt', 0)
    BY <1>6 DEF InFin
  <2>2. /\ seg.len \in Nat
        /\ seg.len > 0 => seg.seq = rcv_nxt
        /\ pfin /\ rcv_nxt + seg.len + 1 = psnd
    BY <2>1, SegmentPlace
  <2>3. NewOk
    BY <1>n, <2>1, EmitPlain
  <2>4. SendStep
    <3>1. "RST" \notin seg.flags
      BY <2>1 DEF Accepted
    <3> QED BY <1>0, <1>n, <2>1, <2>3, <3>1, AckStep DEF SendStep
  <2>5. rcv_nxt = appGot + 1
    BY <2>1 DEF StreamInv, ReadInv, PlaceInv
  <2>6. garbled' = FALSE /\ appGot' = appGot + seg.len
    <3>1. garbled = FALSE
      BY <1>t
    <3>2. seg.len > 0 => seg.seq = appGot + 1
      BY <2>2, <2>5
    <3>3. Deliver(seg)
      BY <2>1
    <3> QED BY <3>1, <3>2, <3>3, DeliverOk
  <2>7. rcv_nxt' = psnd /\ rcv_nxt' = appGot' + 2 /\ rcv_nxt =< rcv_nxt' /\ rcv_nxt' =< psnd
    BY <1>n, <2>1, <2>2, <2>5, <2>6
  <2>8. ReadStep
    <3>1. PlaceInv'
      BY <1>0, <2>1, <2>6, <2>7 DEF PlaceInv
    <3> QED BY <2>1, <2>2, <2>7, <3>1 DEF ReadStep
  <2> QED BY <2>1, <2>4, <2>8 DEF UipStep
<1>7. CASE InLastAck(seg)
  <2>1. /\ Accepted(seg) /\ tcpstate = "LAST_ACK" /\ Acks(seg)
        /\ snd_nxt' = SndAfter(seg) /\ len' = 0 /\ tcpstate' = "CLOSED"
        /\ UNCHANGED <<rcv_nxt, used, given, toUip, toPeer, peer>>
    BY <1>7 DEF InLastAck
  <2>2. NewOk
    BY <2>1, EmitNothing
  <2>3. "RST" \notin seg.flags /\ LenAfter(seg) = 0
    BY <2>1 DEF Accepted, LenAfter
  <2>4. SendStep
    BY <1>0, <1>n, <2>1, <2>2, <2>3, AckStep DEF SendStep
  <2>5. pfin /\ rcv_nxt = psnd
    BY <2>1 DEF StreamInv, ReadInv, EndInv
  <2>6. ReadStep
    BY <1>0, <1>n, <1>t, <2>1, <2>5 DEF ReadStep, PlaceInv, given
  <2> QED BY <2>1, <2>4, <2>6 DEF UipStep
<1>8. CASE InFinWait1(seg)
  <2>1. /\ Accepted(seg) /\ tcpstate = "FIN_WAIT_1"
        /\ snd_nxt' = SndAfter(seg) /\ len' = LenAfter(seg)
        /\ UNCHANGED <<used, given, toUip, peer>>
    BY <1>8 DEF InFinWait1
  <2>2. /\ seg.len \in Nat /\ rcv_nxt + seg.len =< psnd
        /\ "FIN" \in seg.flags => pfin /\ rcv_nxt + seg.len + 1 = psnd
    BY <2>1, SegmentPlace
  <2>3. Emit({"ACK"}, snd_nxt', rcv_nxt', 0) \/ UNCHANGED toPeer
    BY <1>8 DEF InFinWait1
  <2>4. NewOk
    BY <1>n, <2>3, EmitPlain, EmitNothing
  <2>5. "RST" \notin seg.flags
    BY <2>1 DEF Accepted
  <2>6. Acks(seg) => LenAfter(seg) = 0
    BY DEF LenAfter
  <2>7. tcpstate' \in {"TIME_WAIT", "CLOSING", "FIN_WAIT_1", "FIN_WAIT_2"}
    BY <1>8, <2>1 DEF InFinWait1
  <2>8. SendStep
    BY <1>0, <1>n, <2>1, <2>4, <2>5, <2>7, AckStep DEF SendStep
  <2>9. ReadStep
    BY <1>0, <1>8, <1>n, <1>t, <2>1, <2>2, <2>6, <2>7
    DEF InFinWait1, ReadStep, PlaceInv, given
  <2> QED BY <2>1, <2>8, <2>9 DEF UipStep
<1>9. CASE InFinWait2(seg)
  <2>1. /\ Accepted(seg) /\ tcpstate = "FIN_WAIT_2"
        /\ UNCHANGED <<snd_nxt, len, used, given, toUip, peer>>
        /\ Emit({"ACK"}, snd_nxt', rcv_nxt', 0)
        /\ tcpstate' \in {"TIME_WAIT", "FIN_WAIT_2"}
    BY <1>9 DEF InFinWait2
  <2>2. /\ seg.len \in Nat /\ rcv_nxt + seg.len =< psnd
        /\ "FIN" \in seg.flags => pfin /\ rcv_nxt + seg.len + 1 = psnd
    BY <2>1, SegmentPlace
  <2>3. NewOk
    BY <1>n, <2>1, EmitPlain
  <2>4. len = 0
    BY <2>1 DEF StreamInv, ReadInv, EndInv
  <2>5. SendStep
    BY <1>0, <1>n, <2>1, <2>3 DEF SendStep
  <2>6. ReadStep
    BY <1>0, <1>9, <1>n, <1>t, <2>1, <2>2, <2>4 DEF InFinWait2, ReadStep, PlaceInv, given
  <2> QED BY <2>1, <2>5, <2>6 DEF UipStep
<1>10. CASE InTimeWait(seg)
  <2>1. NewOk
    BY <1>10, <1>n, EmitPlain DEF InTimeWait, conn
  <2> QED BY <1>10, <2>1, IdleStep DEF InTimeWait
<1>11. CASE InClosing(seg)
  <2>1. /\ Accepted(seg) /\ tcpstate = "CLOSING" /\ Acks(seg)
        /\ snd_nxt' = SndAfter(seg) /\ len' = 0 /\ tcpstate' = "TIME_WAIT"
        /\ UNCHANGED <<rcv_nxt, used, given, toUip, toPeer, peer>>
    BY <1>11 DEF InClosing
  <2>2. NewOk
    BY <2>1, EmitNothing
  <2>3. "RST" \notin seg.flags /\ LenAfter(seg) = 0
    BY <2>1 DEF Accepted, LenAfter
  <2>4. SendStep
    BY <1>0, <1>n, <2>1, <2>2, <2>3, AckStep DEF SendStep
  <2>5. pfin /\ rcv_nxt = psnd
    BY <2>1 DEF StreamInv, ReadInv, EndInv
  <2>6. ReadStep
    BY <1>0, <1>n, <1>t, <2>1, <2>5 DEF ReadStep, PlaceInv, given
  <2> QED BY <2>1, <2>4, <2>6 DEF UipStep
<1> QED
  BY <1>1, <1>2, <1>3, <1>4, <1>5, <1>6, <1>7, <1>8, <1>9, <1>10, <1>11 DEF Handle

\* A segment whose handler ends in label appsend.
LEMMA AnswerStep ==
  ASSUME TypeOK, TypeOK', StreamInv, NEW seg \in toUip, NEW r \in Answers,
         "RST" \notin seg.flags, tcpstate # "CLOSED",
         AppContract(r, SndAfter(seg), LenAfter(seg)),
         AppSend(called', snd_nxt', LenAfter(seg), rcv_nxt', mss', r),
         snd_nxt' = SndAfter(seg), UNCHANGED <<used, toUip, peer>>,
         garbled' = FALSE, rcv_nxt' = appGot' + 1,
         rcv_nxt =< rcv_nxt', rcv_nxt' =< psnd, "CLOSE" \notin called'
  PROVE  UipStep
<1>0. used' = TRUE
  BY DEF StreamInv, SendInv, OpeningInv, TypeOK
<1>n. /\ snd_nxt \in Nat /\ len \in Nat /\ snd_nxt' \in Nat /\ len' \in Nat
      /\ rcv_nxt' \in Nat
  BY DEF TypeOK
<1>m. mss' \in Nat
  BY SizeAssumption DEF TypeOK
<1>1. /\ LenAfter(seg) \in Nat
      /\ snd_nxt' = snd_nxt \/ snd_nxt' =< prcv
      /\ snd_nxt' + LenAfter(seg) = snd_nxt + len
  BY AckStep
<1>2. /\ NewOk
      /\ LenAfter(seg) =< len'
      /\ tcpstate' \in {"CLOSED", "FIN_WAIT_1", "ESTABLISHED"}
  <2>1. AppContract(r, snd_nxt', LenAfter(seg))
    OBVIOUS
  <2> QED BY <1>n, <1>m, <1>1, <2>1, AppSendNew, SizeAssumption
<1>3. snd_nxt + len =< snd_nxt' + len'
  <2>1. snd_nxt' + LenAfter(seg) =< snd_nxt' + len'
    BY <1>n, <1>1, <1>2, SumGrows
  <2> QED BY <1>1, <2>1
<1>4. SendStep
  BY <1>0, <1>1, <1>2, <1>3 DEF SendStep
<1>5. PlaceInv'
  BY <1>0, <1>2 DEF PlaceInv
<1>6. ReadStep
  BY <1>2, <1>5 DEF ReadStep
<1> QED BY <1>4, <1>6 DEF UipStep

LEMMA HandleAndSendStep ==
  ASSUME TypeOK, TypeOK', StreamInv, NEW seg \in toUip, NEW r \in Answers,
         AppContract(r, SndAfter(seg), LenAfter(seg)), HandleAndSend(seg, r)
  PROVE  UipStep
<1> USE DEF peer
<1>n. /\ snd_nxt \in Nat /\ len \in Nat /\ rcv_nxt \in Nat /\ psnd \in Nat
      /\ appGot \in Nat
  BY DEF TypeOK
<1>t. rcv_nxt =< psnd /\ garbled = FALSE
  BY DEF TypeOK, StreamInv, ReadInv, TakenInv, PlaceInv
<1>1. CASE InSynRcvd(seg, r)
  <2>1. /\ Accepted(seg) /\ tcpstate = "SYN_RCVD" /\ Acks(seg)
        /\ snd_nxt' = SndAfter(seg) /\ rcv_nxt' = rcv_nxt + seg.len
        /\ Deliver(seg) /\ called' = {"CONNECTED"} \union NewFlag(seg)
        /\ AppSend(called', snd_nxt', 0, rcv_nxt', mss', r)
        /\ UNCHANGED <<used, toUip, peer>>
    BY <1>1 DEF InSynRcvd
  <2>2. /\ seg.len \in Nat
        /\ seg.len > 0 => seg.seq = rcv_nxt
        /\ rcv_nxt + seg.len =< psnd
    BY <2>1, SegmentPlace
  <2>3. rcv_nxt = 1 /\ appGot = 0
    BY <2>1 DEF StreamInv, ReadInv, PlaceInv
  <2>4. garbled' = FALSE /\ appGot' = appGot + seg.len
    <3>1. garbled = FALSE
      BY <1>t
    <3>2. seg.len > 0 => seg.seq = appGot + 1
      BY <2>2, <2>3
    <3>3. Deliver(seg)
      BY <2>1
    <3> QED BY <3>1, <3>2, <3>3, DeliverOk
  <2>5. /\ rcv_nxt' = appGot' + 1
        /\ rcv_nxt =< rcv_nxt'
        /\ rcv_nxt' =< psnd
    BY <1>n, <2>1, <2>2, <2>3, <2>4
  <2>6. LenAfter(seg) = 0 /\ "RST" \notin seg.flags /\ "CLOSE" \notin called'
    BY <2>1 DEF LenAfter, Accepted, NewFlag
  <2> QED BY <2>1, <2>4, <2>5, <2>6, AnswerStep
<1>2. CASE InSynSent(seg, r)
  <2>1. /\ Accepted(seg) /\ tcpstate = "SYN_SENT" /\ Acks(seg)
        /\ seg.flags = {"SYN", "ACK"}
        /\ snd_nxt' = SndAfter(seg) /\ rcv_nxt' = seg.seq + 1
        /\ called' = {"CONNECTED", "NEWDATA"}
        /\ AppSend(called', snd_nxt', 0, rcv_nxt', mss', r)
        /\ UNCHANGED <<used, given, toUip, peer>>
    BY <1>2 DEF InSynSent
  <2>2. LenAfter(seg) = 0 /\ "RST" \notin seg.flags /\ "CLOSE" \notin called'
    BY <2>1 DEF LenAfter, Accepted
  <2>3. seg.seq = 0 /\ seg.len = 0 /\ End(seg) =< psnd
    BY <2>1, <2>2 DEF StreamInv, ReadInv, OfferedInv, Plain
  <2>4. 1 =< psnd
    BY <1>n, <2>1, <2>3 DEF End, Fin, Syn
  <2>5. rcv_nxt = 0 /\ appGot' = 0 /\ garbled' = FALSE
    BY <1>t, <2>1 DEF StreamInv, ReadInv, PlaceInv, given
  <2>6. /\ rcv_nxt' = appGot' + 1
        /\ rcv_nxt =< rcv_nxt'
        /\ rcv_nxt' =< psnd
    BY <2>1, <2>3, <2>4, <2>5
  <2> QED BY <2>1, <2>2, <2>5, <2>6, AnswerStep
<1>3. CASE InEstablished(seg, r)
  <2>1. /\ Accepted(seg) /\ tcpstate = "ESTABLISHED"
        /\ snd_nxt' = SndAfter(seg) /\ rcv_nxt' = rcv_nxt + seg.len
        /\ Deliver(seg) /\ called' = AckFlag(seg) \union NewFlag(seg)
        /\ UNCHANGED <<used, toUip, peer>>
    BY <1>3 DEF InEstablished
  <2>2. /\ seg.len \in Nat
        /\ seg.len > 0 => seg.seq = rcv_nxt
        /\ rcv_nxt + seg.len =< psnd
    BY <2>1, SegmentPlace
  <2>3. rcv_nxt = appGot + 1
    BY <2>1 DEF StreamInv, ReadInv, PlaceInv
  <2>4. garbled' = FALSE /\ appGot' = appGot + seg.len
    <3>1. garbled = FALSE
      BY <1>t
    <3>2. seg.len > 0 => seg.seq = appGot + 1
      BY <2>2, <2>3
    <3>3. Deliver(seg)
      BY <2>1
    <3> QED BY <3>1, <3>2, <3>3, DeliverOk
  <2>5. /\ rcv_nxt' = appGot' + 1
        /\ rcv_nxt =< rcv_nxt'
        /\ rcv_nxt' =< psnd
    BY <1>n, <2>1, <2>2, <2>3, <2>4
  <2>6. "RST" \notin seg.flags /\ "CLOSE" \notin called'
    BY <2>1 DEF Accepted, AckFlag, NewFlag
  <2>7. CASE called' # {}
    <3>1. AppSend(called', snd_nxt', LenAfter(seg), rcv_nxt', mss', r)
      BY <1>3, <2>7 DEF InEstablished
    <3> QED BY <2>1, <2>4, <2>5, <2>6, <3>1, AnswerStep
  <2>8. CASE called' = {}
    <3>1. UNCHANGED <<tcpstate, len, toPeer>>
      BY <1>3, <2>8 DEF InEstablished
    <3>2. ~Acks(seg)
      BY <2>1, <2>8 DEF AckFlag
    <3>3. snd_nxt' = snd_nxt
      BY <2>1, <3>2 DEF SndAfter
    <3>4. NewOk
      BY <3>1, EmitNothing
    <3>5. used' = TRUE
      BY <2>1 DEF StreamInv, SendInv, OpeningInv, TypeOK
    <3>6. SendStep
      BY <1>n, <2>1, <3>1, <3>3, <3>4, <3>5 DEF SendStep
    <3>7. PlaceInv'
      BY <2>1, <2>4, <2>5, <3>1, <3>5 DEF PlaceInv
    <3>8. ReadStep
      BY <2>1, <2>5, <3>1, <3>7 DEF ReadStep
    <3> QED BY <2>1, <3>6, <3>8 DEF UipStep
  <2> QED BY <2>7, <2>8
<1> QED BY <1>1, <1>2, <1>3 DEF HandleAndSend

-----------------------------------------------------------------------------
(* The remote host.                                                         *)

\* New segments acknowledge what was received, and are part of the stream.
OfferOk == \A seg \in Plain(toUip') \ toUip :
  /\ "ACK" \in seg.flags => seg.ackno =< prcv'
  /\ End(seg) =< psnd'
  /\ "SYN" \in seg.flags => seg.seq = 0 /\ seg.len = 0 /\ "FIN" \notin seg.flags
  /\ "FIN" \in seg.flags => pfin' /\ End(seg) = psnd'

PeerStep ==
  /\ UNCHANGED <<conn, used, given, toPeer>> /\ called' = {}
  /\ OfferOk
  /\ prcv =< prcv' /\ prcv' =< snd_nxt + len
  /\ puna' =< rcv_nxt
  /\ psnd =< psnd'
  /\ pfin => pfin' /\ psnd' = psnd
  /\ pstate' \in {"idle", "syn_sent"} => prcv' = 0 /\ ~pfin' /\ psnd' =< 1

LEMMA SendPlain ==
  ASSUME NEW flags, NEW seq \in Nat, NEW ackno, NEW n \in Nat, NEW wnd, NEW opt,
         Send(flags, seq, ackno, n, wnd, opt),
         "ACK" \in flags => ackno =< prcv',
         "SYN" \in flags => seq = 0 /\ n = 0 /\ "FIN" \notin flags /\ 1 =< psnd',
         "SYN" \notin flags /\ "FIN" \notin flags => seq + n =< psnd',
         "FIN" \in flags => pfin' /\ seq + n + 1 = psnd',
         psnd' \in Nat
  PROVE  OfferOk
<1> SUFFICES ASSUME NEW seg \in Plain(toUip') \ toUip
             PROVE  /\ "ACK" \in seg.flags => seg.ackno =< prcv'
                    /\ End(seg) =< psnd'
                    /\ "SYN" \in seg.flags
                         => seg.seq = 0 /\ seg.len = 0 /\ "FIN" \notin seg.flags
                    /\ "FIN" \in seg.flags => pfin' /\ End(seg) = psnd'
  BY DEF OfferOk
<1>1. seg = [flags |-> flags, seq |-> seq, ackno |-> ackno, len |-> n,
             wnd |-> wnd, mss |-> opt]
  BY SendNew DEF Plain
<1>2. End(seg) = seq + n + (IF "FIN" \in flags THEN 1 ELSE 0)
                         + (IF "SYN" \in flags THEN 1 ELSE 0)
  BY <1>1 DEF End, Fin, Syn
<1> QED BY <1>1, <1>2

LEMMA SendAck ==
  ASSUME NEW seq \in Nat, NEW n \in Nat, NEW wnd,
         Send({"ACK"}, seq, prcv', n, wnd, 0),
         prcv' \in Nat, psnd' \in Nat, seq + n =< psnd'
  PROVE  OfferOk
<1>1. \A seg \in Plain(toUip') \ toUip :
        /\ seg.flags = {"ACK"} /\ seg.seq = seq /\ seg.len = n
        /\ seg.ackno = prcv'
  BY SendNew DEF Plain
<1>2. \A seg \in Plain(toUip') \ toUip : End(seg) = seq + n
  BY <1>1 DEF End, Fin, Syn
<1> QED BY <1>1, <1>2 DEF OfferOk

LEMMA SendReset ==
  ASSUME NEW flags, NEW seq, NEW ackno, NEW n, NEW wnd, NEW opt,
         "RST" \in flags, Send(flags, seq, ackno, n, wnd, opt)
  PROVE  OfferOk
BY SendNew DEF OfferOk, Plain

LEMMA SendNothing ==
  ASSUME UNCHANGED toUip
  PROVE  OfferOk
BY DEF OfferOk, Plain

LEMMA PeerStepKeeps ==
  ASSUME TypeOK, TypeOK', StreamInv, PeerStep
  PROVE  StreamInv'
<1> USE DEF StreamInv, conn, given
<1>n. /\ snd_nxt \in Nat /\ len \in Nat /\ rcv_nxt \in Nat /\ prcv \in Nat
      /\ prcv' \in Nat /\ psnd \in Nat /\ psnd' \in Nat /\ pfin \in BOOLEAN
  BY DEF TypeOK
<1>1. StopAndWait'
  BY <1>n DEF SendInv, StopAndWait, PeerStep
<1>2. SentInv' /\ OpeningInv'
  BY DEF SendInv, SentInv, OpeningInv, PeerStep
<1>3. AckedInv'
  <2> SUFFICES ASSUME NEW seg \in Plain(toUip'), "ACK" \in seg.flags
               PROVE  seg.ackno =< prcv'
    BY DEF AckedInv
  <2>1. CASE seg \notin toUip
    BY <2>1 DEF PeerStep, OfferOk
  <2>2. CASE seg \in toUip
    <3>1. seg.ackno =< prcv /\ seg.ackno \in Nat
      BY <2>2 DEF TypeOK, InSegment, SendInv, AckedInv, Plain
    <3> QED BY <1>n, <3>1 DEF PeerStep
  <2> QED BY <2>1, <2>2
<1>4. OfferedInv'
  <2> SUFFICES ASSUME NEW seg \in Plain(toUip')
               PROVE  /\ End(seg) =< psnd'
                      /\ "SYN" \in seg.flags
                           => seg.seq = 0 /\ seg.len = 0 /\ "FIN" \notin seg.flags
                      /\ "FIN" \in seg.flags => pfin' /\ End(seg) = psnd'
    BY DEF OfferedInv, End, Fin, Syn
  <2>1. CASE seg \notin toUip
    BY <2>1 DEF PeerStep, OfferOk
  <2>2. CASE seg \in toUip
    <3>1. /\ End(seg) =< psnd
          /\ "SYN" \in seg.flags
               => seg.seq = 0 /\ seg.len = 0 /\ "FIN" \notin seg.flags
          /\ "FIN" \in seg.flags => pfin /\ End(seg) = psnd
      BY <2>2 DEF ReadInv, OfferedInv, Plain
    <3>2. End(seg) \in Nat
      BY <2>2 DEF TypeOK, InSegment, End, Fin, Syn
    <3> QED BY <1>n, <3>1, <3>2 DEF PeerStep
  <2> QED BY <2>1, <2>2
<1>5. TakenInv'
  BY <1>n DEF ReadInv, TakenInv, PeerStep, Plain
<1>6. PlaceInv'
  BY DEF ReadInv, PlaceInv, PeerStep
<1>7. EndInv'
  BY <1>n DEF ReadInv, EndInv, PeerStep
<1> QED BY <1>1, <1>2, <1>3, <1>4, <1>5, <1>6, <1>7 DEF SendInv, ReadInv

LEMMA PeerActions ==
  ASSUME TypeOK, TypeOK', StreamInv, Peer
  PROVE  PeerStep
<1> USE DEF StreamInv
<1>n. /\ snd_nxt \in Nat /\ len \in Nat /\ rcv_nxt \in Nat /\ prcv \in Nat
      /\ prcv' \in Nat /\ psnd \in Nat /\ psnd' \in Nat /\ puna \in Nat
      /\ pfin \in BOOLEAN
  BY DEF TypeOK
<1>b. prcv =< snd_nxt + len /\ puna =< rcv_nxt
  BY DEF SendInv, StopAndWait, ReadInv, TakenInv
<1>i. pstate \in {"idle", "syn_sent"} => prcv = 0 /\ ~pfin /\ psnd =< 1
  BY DEF SendInv, OpeningInv, ReadInv, EndInv
<1>1. CASE PeerOpen
  <2>1. PICK opt \in MssOptions, w \in Windows : Send({"SYN"}, 0, 0, 0, w, opt)
    BY <1>1 DEF PeerOpen
  <2>2. psnd' = 1 /\ pstate = "idle" /\ PeerStays /\ UNCHANGED <<toPeer, puna, prcv, pfin>>
    BY <1>1 DEF PeerOpen
  <2>3. OfferOk
    <3>1. \A seg \in Plain(toUip') \ toUip :
            seg.flags = {"SYN"} /\ seg.seq = 0 /\ seg.len = 0
      BY <2>1, SendNew DEF Plain
    <3>2. \A seg \in Plain(toUip') \ toUip : End(seg) = 1
      BY <3>1 DEF End, Fin, Syn
    <3> QED BY <2>2, <3>1, <3>2 DEF OfferOk
  <2> QED BY <1>n, <1>b, <1>i, <2>2, <2>3 DEF PeerStays, PeerStep
<1>2. CASE PeerAck
  <2>1. PICK w \in Windows : Send({"ACK"}, psnd, prcv, 0, w, 0)
    BY <1>2 DEF PeerAck
  <2>2. PeerStays /\ UNCHANGED <<toPeer, pstate, psnd, puna, prcv, pfin>>
    BY <1>2 DEF PeerAck, peer
  <2>3. OfferOk
    <3>1. Send({"ACK"}, psnd, prcv', 0, w, 0) /\ psnd + 0 =< psnd'
      BY <1>n, <2>1, <2>2
    <3> QED BY <1>n, <3>1, SendAck
  <2> QED BY <1>n, <1>b, <1>i, <2>2, <2>3 DEF PeerStays, PeerStep
<1>3. CASE PeerAbort
  <2>1. /\ PeerStays /\ UNCHANGED <<toPeer, psnd, puna, prcv, pfin>>
        /\ pstate' = "gone"
        /\ Send({"RST", "ACK"}, psnd, prcv, 0, 0, 0) \/ UNCHANGED toUip
    BY <1>3 DEF PeerAbort
  <2>2. OfferOk
    BY <2>1, SendReset, SendNothing
  <2> QED BY <1>n, <1>b, <2>1, <2>2 DEF PeerStays, PeerStep
<1>4. ASSUME NEW m \in toPeer, PeerAnswerSyn(m) PROVE PeerStep
  <2>1. PICK opt \in MssOptions, w \in Windows :
          Send({"SYN", "ACK"}, 0, 1, 0, w, opt)
    BY <1>4 DEF PeerAnswerSyn
  <2>2. /\ m.flags = {"SYN"} /\ pstate = "idle" /\ pstate' = "open"
        /\ psnd' = 1 /\ prcv' = 1 /\ PeerStays /\ UNCHANGED <<toPeer, puna, pfin>>
    BY <1>4 DEF PeerAnswerSyn
  <2>3. OfferOk
    BY <2>1, <2>2, SendPlain
  <2>4. 1 =< snd_nxt + len
    <3>1. End(m) =< snd_nxt + len
      BY <2>2 DEF SendInv, SentInv, Plain
    <3>2. m.seq \in Nat /\ m.len \in Nat
      BY DEF TypeOK, OutSegment
    <3>3. End(m) = m.seq + m.len + 1
      BY <2>2, <3>2 DEF End, Fin, Syn
    <3> QED BY <1>n, <3>1, <3>2, <3>3
  <2> QED BY <1>n, <1>b, <1>i, <2>2, <2>3, <2>4 DEF PeerStays, PeerStep
<1>5. ASSUME NEW m \in toPeer, PeerSynAck(m) PROVE PeerStep
  <2>1. PICK w \in Windows : Send({"ACK"}, psnd, prcv', 0, w, 0)
    BY <1>5 DEF PeerSynAck
  <2>2. /\ m.flags = {"SYN", "ACK"} /\ m.ackno = 1 /\ pstate = "syn_sent"
        /\ pstate' = "open" /\ puna' = 1 /\ prcv' = m.seq + 1
        /\ PeerStays /\ UNCHANGED <<toPeer, psnd, pfin>>
    BY <1>5 DEF PeerSynAck
  <2>3. OfferOk
    <3>1. psnd + 0 =< psnd'
      BY <1>n, <2>2
    <3> QED BY <1>n, <2>1, <3>1, SendAck
  <2>4. prcv' =< snd_nxt + len /\ puna' =< rcv_nxt
    <3>1. End(m) =< snd_nxt + len /\ m.ackno =< rcv_nxt
      BY <2>2 DEF SendInv, SentInv, ReadInv, TakenInv, Plain
    <3>2. m.seq \in Nat /\ m.len \in Nat
      BY DEF TypeOK, OutSegment
    <3>3. End(m) = m.seq + m.len + 1
      BY <2>2, <3>2 DEF End, Fin, Syn
    <3> QED BY <1>n, <2>2, <3>1, <3>2, <3>3
  <2> QED BY <1>n, <1>i, <2>2, <2>3, <2>4 DEF PeerStays, PeerStep
<1>6. ASSUME NEW m \in toPeer, PeerRecv(m) PROVE PeerStep
  <2>1. /\ "RST" \notin m.flags /\ pstate = "open"
        /\ puna' = (IF puna < m.ackno THEN m.ackno ELSE puna)
        /\ prcv' \in Taken(m)
        /\ PeerStays /\ UNCHANGED <<toPeer, pstate, psnd, pfin>>
    BY <1>6 DEF PeerRecv
  <2>2. UNCHANGED toUip \/ \E w \in Windows : Send({"ACK"}, psnd, prcv', 0, w, 0)
    BY <1>6 DEF PeerRecv
  <2>3. OfferOk
    <3>1. psnd + 0 =< psnd'
      BY <1>n, <2>1
    <3> QED BY <1>n, <2>2, <3>1, SendAck, SendNothing
  <2>4. /\ m.seq \in Nat /\ m.len \in Nat /\ m.ackno \in Nat
        /\ Fin(m) \in Nat /\ Syn(m) \in Nat
    BY DEF TypeOK, OutSegment, Fin, Syn
  <2>5. End(m) =< snd_nxt + len /\ m.ackno =< rcv_nxt
    BY <2>1 DEF SendInv, SentInv, ReadInv, TakenInv, Plain
  <2>6. prcv =< prcv' /\ prcv' =< snd_nxt + len
    <3>1. prcv' = prcv \/ (prcv =< prcv' /\ prcv' =< m.seq + m.len + Fin(m))
      BY <1>n, <2>1, <2>4 DEF Taken
    <3> QED BY <1>n, <1>b, <2>4, <2>5, <3>1 DEF End
  <2>7. puna' =< rcv_nxt
    BY <1>n, <1>b, <2>1, <2>4, <2>5
  <2> QED BY <1>n, <2>1, <2>3, <2>6, <2>7 DEF PeerStays, PeerStep
<1>7. ASSUME NEW m \in toPeer, PeerReset(m) PROVE PeerStep
  <2>1. /\ PeerStays /\ UNCHANGED <<toPeer, psnd, puna, prcv, pfin>>
        /\ pstate' = "gone" \/ pstate' = pstate
        /\ Send({"RST", "ACK"}, m.ackno, m.seq, 0, 0, 0) \/ UNCHANGED toUip
    BY <1>7 DEF PeerReset
  <2>2. OfferOk
    BY <2>1, SendReset, SendNothing
  <2> QED BY <1>n, <1>b, <1>i, <2>1, <2>2 DEF PeerStays, PeerStep
<1>8. ASSUME NEW s \in 1..PeerBytes + 1, NEW n \in 0..PeerBytes,
             NEW fin \in BOOLEAN, PeerSend(s, n, fin)
      PROVE  PeerStep
  <2>0. s \in Nat /\ n \in Nat
    BY SizeAssumption
  <2>1. /\ pstate = "open" /\ PeerStays /\ UNCHANGED <<toPeer, pstate, puna, prcv>>
        /\ pfin => s + n < psnd
        /\ fin /\ ~pfin => s + n >= psnd
        /\ fin /\ pfin => s + n = psnd - 1
        /\ psnd' = (IF psnd < s + n + (IF fin THEN 1 ELSE 0)
                   THEN s + n + (IF fin THEN 1 ELSE 0) ELSE psnd)
        /\ pfin' = (pfin \/ fin)
    BY <1>8 DEF PeerSend
  <2>2. PICK w \in Windows :
          Send(IF fin THEN {"ACK", "FIN"} ELSE {"ACK"}, s, prcv, n, w, 0)
    BY <1>8 DEF PeerSend
  <2>p. prcv' = prcv
    BY <2>1
  <2>3. CASE fin = TRUE
    <3>1. Send({"ACK", "FIN"}, s, prcv, n, w, 0)
      BY <2>2, <2>3
    <3>2. pfin' = TRUE
      BY <2>1, <2>3, Zenon
    <3>3. (pfin => s + n = psnd - 1) /\ (~pfin => s + n >= psnd)
          /\ psnd' = (IF psnd < s + n + 1 THEN s + n + 1 ELSE psnd)
      BY <2>1, <2>3, Zenon
    <3>4. s + n + 1 = psnd' /\ psnd =< psnd' /\ (pfin => psnd' = psnd)
      BY <1>n, <2>0, <3>3
    <3>5. prcv =< prcv'
      BY <1>n, <2>p
    <3>6. OfferOk
      BY <1>n, <2>0, <3>1, <3>2, <3>4, <3>5, SendPlain
    <3> QED BY <1>n, <1>b, <2>1, <3>2, <3>4, <3>6 DEF PeerStays, PeerStep
  <2>4. CASE fin = FALSE
    <3>1. Send({"ACK"}, s, prcv', n, w, 0)
      BY <2>2, <2>4, <2>p
    <3>2. pfin' = pfin
      BY <1>n, <2>1, <2>4, Zenon
    <3>3. (pfin => s + n < psnd)
          /\ psnd' = (IF psnd < s + n + 0 THEN s + n + 0 ELSE psnd)
      BY <2>1, <2>4, Zenon
    <3>4. s + n =< psnd' /\ psnd =< psnd' /\ (pfin => psnd' = psnd)
      BY <1>n, <2>0, <3>3
    <3>5. OfferOk
      BY <1>n, <2>0, <3>1, <3>4, SendAck
    <3> QED BY <1>n, <1>b, <2>1, <3>2, <3>4, <3>5 DEF PeerStays, PeerStep
  <2> QED BY <2>3, <2>4
<1> QED
  BY <1>1, <1>2, <1>3, <1>4, <1>5, <1>6, <1>7, <1>8 DEF Peer

-----------------------------------------------------------------------------
(* The invariant, and the properties that follow from it.                   *)

LEMMA StreamInit ==
  ASSUME Init
  PROVE  StreamInv
BY DEF Init, StreamInv, SendInv, StopAndWait, SentInv, AckedInv, OpeningInv,
       ReadInv, OfferedInv, TakenInv, PlaceInv, EndInv, Plain

LEMMA StreamNext ==
  ASSUME TypeOK, TypeOK', StreamInv, [Next]_vars
  PROVE  StreamInv'
<1>1. CASE Connect
  BY <1>1, ConnectStep, UipStepKeeps
<1>2. CASE \E r \in Answers : AppContract(r, snd_nxt, len) /\ Poll(r)
  BY <1>2, PollStep, UipStepKeeps
<1>3. CASE Timer
  BY <1>3, TimerStep, UipStepKeeps
<1>4. CASE \E seg \in toUip : Handle(seg)
  BY <1>4, HandleStep, UipStepKeeps
<1>5. CASE \E seg \in toUip, r \in Answers :
             AppContract(r, SndAfter(seg), LenAfter(seg)) /\ HandleAndSend(seg, r)
  BY <1>5, HandleAndSendStep, UipStepKeeps
<1>6. CASE Peer
  BY <1>6, PeerActions, PeerStepKeeps
<1>7. CASE UNCHANGED vars
  BY <1>7 DEF vars, conn, given, peer, StreamInv, SendInv, StopAndWait, SentInv,
              AckedInv, OpeningInv, ReadInv, OfferedInv, TakenInv, PlaceInv,
              EndInv, Plain, End, Fin, Syn
<1> QED BY <1>1, <1>2, <1>3, <1>4, <1>5, <1>6, <1>7 DEF Next

\* Both streams keep the strengthened invariant.
THEOREM StreamInvariant == Spec => []StreamInv
<1>1. Init => StreamInv
  BY StreamInit
<1>2. TypeOK /\ TypeOK' /\ StreamInv /\ [Next]_vars => StreamInv'
  BY StreamNext
<1> QED BY <1>1, <1>2, TypeCorrect, PTL DEF Spec

\* One segment at a time: what uIP counts as acknowledged has arrived, and the
\* remote host never holds more than the outstanding segment beyond it.
THEOREM StopAndWaitHolds == Spec => []StopAndWait
<1>1. StreamInv => StopAndWait
  BY DEF StreamInv, SendInv
<1> QED BY <1>1, StreamInvariant, PTL

\* uip_process() hands the remote stream to the application once and in order,
\* and acknowledges only what it has handed over while the application reads.
THEOREM DeliveredInOrderHolds == Spec => []DeliveredInOrder
<1>1. TypeOK /\ StreamInv => DeliveredInOrder
  BY DEF TypeOK, StreamInv, ReadInv, TakenInv, PlaceInv, EndInv, DeliveredInOrder
<1> QED BY <1>1, TypeCorrect, StreamInvariant, PTL

\* A connection that ends in good order ends so on both sides.
THEOREM CleanCloseHolds == Spec => []CleanClose
<1>1. TypeOK /\ StreamInv => CleanClose
  BY DEF TypeOK, StreamInv, SendInv, StopAndWait, ReadInv, EndInv, CleanClose
<1> QED BY <1>1, TypeCorrect, StreamInvariant, PTL
=============================================================================
