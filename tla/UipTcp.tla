------------------------------- MODULE UipTcp -------------------------------
(***************************************************************************)
(* One TCP connection of the uIP stack (uip_process() in uip/uip.c), the   *)
(* application that uip_process() calls back, a network that loses,        *)
(* duplicates and reorders segments, and a conforming remote TCP.          *)
(*                                                                         *)
(* Sequence numbers count from each side's own initial number, so the SYN  *)
(* has number 0 and the first byte number 1; uip_process() only compares   *)
(* them for equality and adds to them, so the 32-bit wrap is not visible.  *)
(* The application is the most general one that keeps its contract (see    *)
(* AppContract); module PsockTcp replaces it by the protosocket code.      *)
(*                                                                         *)
(* A definition marked "wrong on purpose" is not part of the model: it is  *)
(* a plausible bug that the property checks must be able to notice.        *)
(***************************************************************************)
EXTENDS Integers, FiniteSets

CONSTANTS
  UIP_RTO,               \* initial retransmission timeout, in timer ticks
  UIP_MAXRTX,            \* retransmissions before a connection is given up
  UIP_MAXSYNRTX,         \* the same for a SYN or a SYNACK
  UIP_TIME_WAIT_TIMEOUT, \* ticks spent in TIME_WAIT and FIN_WAIT_2
  UIP_TCP_MSS,           \* the largest segment this host sends
  RTOs,                  \* values the round-trip estimator may produce
  AppBytes,              \* bound: bytes the application sends
  PeerBytes,             \* bound: bytes the remote host sends
  Windows,               \* receive windows the remote host advertises
  MssOptions,            \* MSS options of its SYN; 0 stands for "no option"
  ToUipLimit,            \* bound: segments the network holds towards uIP
  ToPeerLimit            \* bound: the same towards the remote host

ASSUME TimerAssumption ==
  /\ UIP_RTO \in 0..15
  /\ RTOs \subseteq 0..255 /\ RTOs # {}
  /\ UIP_MAXRTX \in Nat /\ UIP_MAXSYNRTX \in Nat
  /\ UIP_TIME_WAIT_TIMEOUT \in 1..255

ASSUME SizeAssumption ==
  /\ UIP_TCP_MSS \in Nat \ {0}
  /\ AppBytes \in Nat /\ PeerBytes \in Nat
  /\ ToUipLimit \in Nat \ {0} /\ ToPeerLimit \in Nat \ {0}
  /\ Windows \subseteq Nat /\ MssOptions \subseteq Nat

VARIABLES
  (* struct uip_conn, uip.h *)
  tcpstate, rcv_nxt, snd_nxt, len, nrtx, timer, rto, initialmss, mss,
  used,       \* this connection block has been opened (bound: one connection)
  (* what the application has seen *)
  called,     \* uip_flags of the callback this step made, {} if it made none
  appGot,     \* bytes of the remote stream handed to the application
  garbled,    \* some byte was handed over at another place of the stream
  (* the network: a segment may arrive late, twice or never *)
  toUip, toPeer,
  (* the remote host *)
  pstate, psnd, puna, prcv, pfin

conn == <<tcpstate, rcv_nxt, snd_nxt, len, nrtx, timer, rto, initialmss, mss>>
given == <<appGot, garbled>>
peer == <<pstate, psnd, puna, prcv, pfin>>
vars == <<conn, used, called, given, toUip, toPeer, peer>>

States == {"CLOSED", "SYN_RCVD", "SYN_SENT", "ESTABLISHED", "FIN_WAIT_1",
           "FIN_WAIT_2", "CLOSING", "TIME_WAIT", "LAST_ACK"}
Flags  == {"SYN", "ACK", "FIN", "RST"}
Events == {"ACKDATA", "NEWDATA", "REXMIT", "POLL", "CLOSE", "ABORT",
           "CONNECTED", "TIMEDOUT"}

Smaller(a, b) == IF a < b THEN a ELSE b

-----------------------------------------------------------------------------
(* The application's answers to a callback: uip_send() of slen bytes (none  *)
(* when slen = 0), uip_close() or uip_abort().                               *)

Answers == [act : {"send"}, slen : 0..AppBytes] \union
           [act : {"close", "abort"}, slen : {0}]

\* What an application owes the stack.  It closes only when everything it
\* sent is acknowledged (sn and ln are snd_nxt and len when it is called), and
\* it has AppBytes bytes to send in all.  When it offers bytes while a segment
\* is outstanding the stack resends that segment.
AppContract(r, sn, ln) ==
  /\ r.act = "close" => ln = 0
  /\ r.act = "send" /\ ln = 0 => sn - 1 + r.slen =< AppBytes

-----------------------------------------------------------------------------
(* The network keeps a segment that was received, so that it can arrive     *)
(* again; when it holds limit segments a new one drives out any other.       *)

Into(net, m, limit) ==
  IF Cardinality(net \union {m}) =< limit
  THEN {net \union {m}}
  ELSE {(net \ {x}) \union {m} : x \in net}

Emit(flags, seq, ackno, n) ==
  toPeer' \in Into(toPeer, [flags |-> flags, seq |-> seq, ackno |-> ackno,
                            len |-> n], ToPeerLimit)

\* From label appsend on: the answer r of the application to a callback with
\* the given flags, where sn, ln, rn and m are snd_nxt, len, rcv_nxt and mss.
AppSend(flags, sn, ln, rn, m, r) ==
  \/ /\ r.act = "abort"
     /\ tcpstate' = "CLOSED"
     /\ len' = ln
     /\ nrtx' = nrtx
     /\ Emit({"RST", "ACK"}, sn, rn, 0)
  \/ /\ r.act = "close"
     /\ tcpstate' = "FIN_WAIT_1"
     /\ len' = 1
     /\ nrtx' = 0
     /\ Emit({"FIN", "ACK"}, sn, rn, 0)
  \/ /\ r.act = "send"
     /\ tcpstate' = "ESTABLISHED"
     /\ len' = IF r.slen > 0 /\ ln = 0 THEN Smaller(r.slen, m) ELSE ln
     /\ nrtx' = 0
     /\ \/ /\ r.slen > 0 /\ len' > 0
           /\ Emit({"ACK"}, sn, rn, len')
        \/ /\ ~(r.slen > 0 /\ len' > 0) /\ "NEWDATA" \in flags
           /\ Emit({"ACK"}, sn, rn, 0)
        \/ /\ ~(r.slen > 0 /\ len' > 0) /\ "NEWDATA" \notin flags
           /\ UNCHANGED toPeer

-----------------------------------------------------------------------------
(* uip_connect(), and uip_process(UIP_POLL_REQUEST) and (UIP_TIMER).       *)

\* uip_connect(): the SYN itself is sent by the timer, as a "retransmission".
\* Its local port is a new one, so the remote host is not opening the same
\* connection at the same time.
Connect ==
  /\ tcpstate = "CLOSED" /\ ~used /\ pstate = "idle"
  /\ used' = TRUE
  /\ tcpstate' = "SYN_SENT"
  /\ snd_nxt' = 0 /\ rcv_nxt' = 0 /\ len' = 1
  /\ nrtx' = 0 /\ timer' = 1 /\ rto' = UIP_RTO
  /\ initialmss' = UIP_TCP_MSS /\ mss' = UIP_TCP_MSS
  /\ called' = {}
  /\ UNCHANGED <<given, toUip, toPeer, peer>>

\* A poll request and the poll branch of the timer have the same effect.
Poll(r) ==
  /\ tcpstate = "ESTABLISHED" /\ len = 0
  /\ called' = {"POLL"}
  /\ AppSend({"POLL"}, snd_nxt, len, rcv_nxt, mss, r)
  /\ UNCHANGED <<rcv_nxt, snd_nxt, timer, rto, initialmss, mss, used, given,
                 toUip, peer>>

TimerWait ==
  /\ tcpstate \in {"TIME_WAIT", "FIN_WAIT_2"}
  /\ timer' = (timer + 1) % 256
  /\ tcpstate' = IF timer' = UIP_TIME_WAIT_TIMEOUT THEN "CLOSED" ELSE tcpstate
  /\ called' = {}
  /\ UNCHANGED <<rcv_nxt, snd_nxt, len, nrtx, rto, initialmss, mss, used,
                 given, toUip, toPeer, peer>>

Retransmitting ==
  /\ tcpstate \notin {"CLOSED", "TIME_WAIT", "FIN_WAIT_2"}
  /\ len > 0

TimerCount ==
  /\ Retransmitting /\ timer # 0
  /\ timer' = timer - 1
  /\ called' = {}
  /\ UNCHANGED <<tcpstate, rcv_nxt, snd_nxt, len, nrtx, rto, initialmss, mss,
                 used, given, toUip, toPeer, peer>>

\* Wrong on purpose: one retransmission too many.
OutOfRetriesLate ==
  \/ nrtx > UIP_MAXRTX
  \/ tcpstate \in {"SYN_SENT", "SYN_RCVD"} /\ nrtx > UIP_MAXSYNRTX

OutOfRetries ==
  \/ nrtx = UIP_MAXRTX
  \/ tcpstate \in {"SYN_SENT", "SYN_RCVD"} /\ nrtx = UIP_MAXSYNRTX

\* Wrong on purpose: the remote host is reset, the connection left open.
TimerGiveUpStays ==
  /\ Retransmitting /\ timer = 0 /\ OutOfRetries
  /\ called' = {"TIMEDOUT"}
  /\ Emit({"RST", "ACK"}, snd_nxt, rcv_nxt, 0)
  /\ UNCHANGED <<tcpstate, rcv_nxt, snd_nxt, len, nrtx, timer, rto, initialmss,
                 mss, used, given, toUip, peer>>

TimerGiveUp ==
  /\ Retransmitting /\ timer = 0 /\ OutOfRetries
  /\ timer' = 255
  /\ tcpstate' = "CLOSED"
  /\ called' = {"TIMEDOUT"}
  /\ Emit({"RST", "ACK"}, snd_nxt, rcv_nxt, 0)
  /\ UNCHANGED <<rcv_nxt, snd_nxt, len, nrtx, rto, initialmss, mss, used,
                 given, toUip, peer>>

Backoff(n) ==
  CASE n = 0 -> 1 [] n = 1 -> 2 [] n = 2 -> 4 [] n = 3 -> 8 [] OTHER -> 16

TimerRexmit(r) ==
  /\ Retransmitting /\ timer = 0 /\ ~OutOfRetries
  /\ timer' = UIP_RTO * Backoff(nrtx)
  /\ nrtx' = nrtx + 1
  /\ \/ /\ tcpstate = "SYN_RCVD"
        /\ called' = {}
        /\ Emit({"SYN", "ACK"}, snd_nxt, rcv_nxt, 0)
     \/ /\ tcpstate = "SYN_SENT"
        /\ called' = {}
        /\ Emit({"SYN"}, snd_nxt, rcv_nxt, 0)
     \/ /\ tcpstate \in {"FIN_WAIT_1", "CLOSING", "LAST_ACK"}
        /\ called' = {}
        /\ Emit({"FIN", "ACK"}, snd_nxt, rcv_nxt, 0)
     \/ /\ tcpstate = "ESTABLISHED"
        /\ called' = {"REXMIT"}
        /\ IF r.act = "send" /\ r.slen > 0
           THEN Emit({"ACK"}, snd_nxt, rcv_nxt, len)
           ELSE UNCHANGED toPeer
  /\ UNCHANGED <<tcpstate, rcv_nxt, snd_nxt, len, rto, initialmss, mss, used,
                 given, toUip, peer>>

-----------------------------------------------------------------------------
(* uip_process(UIP_DATA): a segment arrives.                                *)

\* No active connection matches: a SYN opens one, anything else but a reset is
\* answered by a reset.
Listen(seg) ==
  /\ seg \in toUip
  /\ tcpstate = "CLOSED" /\ ~used /\ seg.flags = {"SYN"}
  /\ used' = TRUE
  /\ tcpstate' = "SYN_RCVD"
  /\ rto' = UIP_RTO /\ timer' = UIP_RTO /\ nrtx' = 0
  /\ snd_nxt' = 0 /\ len' = 1 /\ rcv_nxt' = seg.seq + 1
  /\ IF seg.mss # 0
     THEN /\ initialmss' = Smaller(seg.mss, UIP_TCP_MSS)
          /\ mss' = initialmss'
     ELSE UNCHANGED <<initialmss, mss>>
  /\ called' = {}
  /\ Emit({"SYN", "ACK"}, snd_nxt', rcv_nxt', 0)
  /\ UNCHANGED <<given, toUip, peer>>

ResetReply(seg) ==
  /\ "RST" \notin seg.flags
  /\ Emit({"RST", "ACK"}, seg.ackno, seg.seq + 1, 0)

InReset(seg) ==
  /\ seg \in toUip
  /\ tcpstate = "CLOSED" /\ seg.flags # {"SYN"}
  /\ called' = {}
  /\ ResetReply(seg)
  /\ UNCHANGED <<conn, used, given, toUip, peer>>

\* A reset kills the connection, whatever its numbers.
InRst(seg) ==
  /\ seg \in toUip
  /\ tcpstate # "CLOSED" /\ "RST" \in seg.flags
  /\ tcpstate' = "CLOSED"
  /\ called' = {"ABORT"}
  /\ UNCHANGED <<rcv_nxt, snd_nxt, len, nrtx, timer, rto, initialmss, mss,
                 used, given, toUip, toPeer, peer>>

\* Wrong on purpose: segments from before rcv_nxt are taken again.
MisplacedAhead(seg) ==
  /\ ~(tcpstate = "SYN_SENT" /\ seg.flags = {"SYN", "ACK"})
  /\ seg.len > 0 \/ seg.flags \intersect {"SYN", "FIN"} # {}
  /\ seg.seq > rcv_nxt

\* The segment carries data, SYN or FIN, and does not begin at rcv_nxt.
Misplaced(seg) ==
  /\ ~(tcpstate = "SYN_SENT" /\ seg.flags = {"SYN", "ACK"})
  /\ seg.len > 0 \/ seg.flags \intersect {"SYN", "FIN"} # {}
  /\ seg.seq # rcv_nxt

InMisplaced(seg) ==
  /\ seg \in toUip
  /\ tcpstate # "CLOSED" /\ "RST" \notin seg.flags
  /\ Misplaced(seg)
  /\ called' = {}
  /\ Emit({"ACK"}, snd_nxt, rcv_nxt, 0)
  /\ UNCHANGED <<conn, used, given, toUip, peer>>

\* Segments that get past these checks reach the switch on the state.
Accepted(seg) ==
  /\ seg \in toUip
  /\ tcpstate # "CLOSED" /\ "RST" \notin seg.flags
  /\ ~Misplaced(seg)

\* Wrong on purpose: a partial acknowledgement counts as a full one.
AcksPartly(seg) == "ACK" \in seg.flags /\ len > 0 /\ seg.ackno > snd_nxt

\* Only an acknowledgement of everything outstanding is taken.
Acks(seg) == "ACK" \in seg.flags /\ len > 0 /\ seg.ackno = snd_nxt + len
SndAfter(seg) == IF Acks(seg) THEN snd_nxt + len ELSE snd_nxt
LenAfter(seg) == IF Acks(seg) THEN 0 ELSE len
AckFlag(seg)  == IF Acks(seg) THEN {"ACKDATA"} ELSE {}
NewFlag(seg)  == IF seg.len > 0 THEN {"NEWDATA"} ELSE {}

\* The estimator runs only when the segment was not retransmitted; its result
\* is any value of RTOs here.
EstimateRto(seg) ==
  rto' \in (IF Acks(seg) /\ nrtx = 0 THEN RTOs ELSE {rto})
TimerAfter(seg) == IF Acks(seg) THEN rto' ELSE timer

\* The callback hands the bytes of the segment over, whatever their place.
Deliver(seg) ==
  /\ appGot' = appGot + seg.len
  /\ garbled' = (garbled \/ (seg.len > 0 /\ seg.seq # appGot + 1))

InSynRcvd(seg, r) ==
  /\ Accepted(seg) /\ tcpstate = "SYN_RCVD" /\ Acks(seg)
  /\ EstimateRto(seg) /\ timer' = TimerAfter(seg)
  /\ snd_nxt' = SndAfter(seg)
  /\ rcv_nxt' = rcv_nxt + seg.len
  /\ Deliver(seg)
  /\ called' = {"CONNECTED"} \union NewFlag(seg)
  /\ AppSend(called', snd_nxt', 0, rcv_nxt', mss, r)
  /\ UNCHANGED <<initialmss, mss, used, toUip, peer>>

InSynSent(seg, r) ==
  /\ Accepted(seg) /\ tcpstate = "SYN_SENT"
  /\ Acks(seg) /\ seg.flags = {"SYN", "ACK"}
  /\ EstimateRto(seg) /\ timer' = TimerAfter(seg)
  /\ IF seg.mss # 0
     THEN /\ initialmss' = Smaller(seg.mss, UIP_TCP_MSS)
          /\ mss' = initialmss'
     ELSE UNCHANGED <<initialmss, mss>>
  /\ snd_nxt' = SndAfter(seg)
  /\ rcv_nxt' = seg.seq + 1
  /\ called' = {"CONNECTED", "NEWDATA"}
  /\ AppSend(called', snd_nxt', 0, rcv_nxt', mss', r)
  /\ UNCHANGED <<used, given, toUip, peer>>

\* Wrong on purpose: the connection is dropped without telling the application.
InSynSentSilent(seg) ==
  /\ Accepted(seg) /\ tcpstate = "SYN_SENT"
  /\ ~(Acks(seg) /\ seg.flags = {"SYN", "ACK"})
  /\ EstimateRto(seg) /\ timer' = TimerAfter(seg)
  /\ snd_nxt' = SndAfter(seg) /\ len' = LenAfter(seg)
  /\ tcpstate' = "CLOSED"
  /\ called' = {}
  /\ ResetReply(seg)
  /\ UNCHANGED <<rcv_nxt, nrtx, initialmss, mss, used, given, toUip, peer>>

\* Anything else that gets here in SYN_SENT: the application is told, the
\* connection closed and a reset sent.
InSynSentRefused(seg) ==
  /\ Accepted(seg) /\ tcpstate = "SYN_SENT"
  /\ ~(Acks(seg) /\ seg.flags = {"SYN", "ACK"})
  /\ EstimateRto(seg) /\ timer' = TimerAfter(seg)
  /\ snd_nxt' = SndAfter(seg) /\ len' = LenAfter(seg)
  /\ tcpstate' = "CLOSED"
  /\ called' = {"ABORT"}
  /\ ResetReply(seg)
  /\ UNCHANGED <<rcv_nxt, nrtx, initialmss, mss, used, given, toUip, peer>>

\* A FIN is taken only when nothing is outstanding.  The application is told,
\* and this side closes at once: there is no CLOSE_WAIT.
InFin(seg) ==
  /\ Accepted(seg) /\ tcpstate = "ESTABLISHED"
  /\ "FIN" \in seg.flags /\ LenAfter(seg) = 0
  /\ EstimateRto(seg) /\ timer' = TimerAfter(seg)
  /\ snd_nxt' = SndAfter(seg)
  /\ rcv_nxt' = rcv_nxt + 1 + seg.len
  /\ Deliver(seg)
  /\ called' = AckFlag(seg) \union NewFlag(seg) \union {"CLOSE"}
  /\ tcpstate' = "LAST_ACK" /\ len' = 1 /\ nrtx' = 0
  /\ Emit({"FIN", "ACK"}, snd_nxt', rcv_nxt', 0)
  /\ UNCHANGED <<initialmss, mss, used, toUip, peer>>

\* Wrong on purpose: the window may exceed what the SYN allowed.
SizeForAny(wnd) == IF wnd = 0 THEN initialmss ELSE wnd

\* The window becomes the segment size when it is smaller; a zero window
\* leaves the full size, so that the retransmissions probe it.
SizeFor(wnd) == IF wnd > initialmss \/ wnd = 0 THEN initialmss ELSE wnd

InEstablished(seg, r) ==
  /\ Accepted(seg) /\ tcpstate = "ESTABLISHED" /\ "FIN" \notin seg.flags
  /\ EstimateRto(seg) /\ timer' = TimerAfter(seg)
  /\ snd_nxt' = SndAfter(seg)
  /\ rcv_nxt' = rcv_nxt + seg.len
  /\ Deliver(seg)
  /\ mss' = SizeFor(seg.wnd)
  /\ called' = AckFlag(seg) \union NewFlag(seg)
  /\ IF called' = {}
     THEN UNCHANGED <<tcpstate, len, nrtx, toPeer>>
     ELSE AppSend(called', snd_nxt', LenAfter(seg), rcv_nxt', mss', r)
  /\ UNCHANGED <<initialmss, used, toUip, peer>>

InLastAck(seg) ==
  /\ Accepted(seg) /\ tcpstate = "LAST_ACK" /\ Acks(seg)
  /\ EstimateRto(seg) /\ timer' = TimerAfter(seg)
  /\ snd_nxt' = SndAfter(seg) /\ len' = 0
  /\ tcpstate' = "CLOSED"
  /\ called' = {"CLOSE"}
  /\ UNCHANGED <<rcv_nxt, nrtx, initialmss, mss, used, given, toUip, toPeer,
                 peer>>

\* Wrong on purpose: the remote FIN ends the closing although this side's FIN
\* is not acknowledged.
InFinWait1NoClosing(seg) ==
  /\ Accepted(seg) /\ tcpstate = "FIN_WAIT_1" /\ "FIN" \in seg.flags
  /\ tcpstate' = "TIME_WAIT" /\ timer' = 0
  /\ rcv_nxt' = rcv_nxt + seg.len + 1
  /\ called' = {"CLOSE"}
  /\ Emit({"ACK"}, snd_nxt, rcv_nxt', 0)
  /\ UNCHANGED <<snd_nxt, len, rto, nrtx, initialmss, mss, used, given, toUip,
                 peer>>

\* Data still counts as received, but is no longer handed to the application.
InFinWait1(seg) ==
  /\ Accepted(seg) /\ tcpstate = "FIN_WAIT_1"
  /\ EstimateRto(seg)
  /\ snd_nxt' = SndAfter(seg) /\ len' = LenAfter(seg)
  /\ \/ /\ "FIN" \in seg.flags
        /\ tcpstate' = IF Acks(seg) THEN "TIME_WAIT" ELSE "CLOSING"
        /\ timer' = IF Acks(seg) THEN 0 ELSE timer
        /\ rcv_nxt' = rcv_nxt + seg.len + 1
        /\ called' = {"CLOSE"}
        /\ Emit({"ACK"}, snd_nxt', rcv_nxt', 0)
     \/ /\ "FIN" \notin seg.flags
        /\ tcpstate' = IF Acks(seg) THEN "FIN_WAIT_2" ELSE tcpstate
        /\ timer' = TimerAfter(seg)
        /\ rcv_nxt' = rcv_nxt + seg.len
        /\ called' = {}
        /\ IF seg.len > 0 /\ ~Acks(seg)
           THEN Emit({"ACK"}, snd_nxt', rcv_nxt', 0)
           ELSE UNCHANGED toPeer
  /\ UNCHANGED <<nrtx, initialmss, mss, used, given, toUip, peer>>

InFinWait2(seg) ==
  /\ Accepted(seg) /\ tcpstate = "FIN_WAIT_2"
  /\ \/ /\ "FIN" \in seg.flags
        /\ tcpstate' = "TIME_WAIT" /\ timer' = 0
        /\ rcv_nxt' = rcv_nxt + seg.len + 1
        /\ called' = {"CLOSE"}
        /\ Emit({"ACK"}, snd_nxt, rcv_nxt', 0)
     \/ /\ "FIN" \notin seg.flags /\ seg.len > 0
        /\ rcv_nxt' = rcv_nxt + seg.len
        /\ called' = {}
        /\ Emit({"ACK"}, snd_nxt, rcv_nxt', 0)
        /\ UNCHANGED <<tcpstate, timer>>
  /\ UNCHANGED <<snd_nxt, len, nrtx, rto, initialmss, mss, used, given, toUip,
                 peer>>

\* Wrong on purpose: every late segment starts the wait anew.
InTimeWaitAnew(seg) ==
  /\ Accepted(seg) /\ tcpstate = "TIME_WAIT"
  /\ timer' = 0
  /\ called' = {}
  /\ Emit({"ACK"}, snd_nxt, rcv_nxt, 0)
  /\ UNCHANGED <<tcpstate, rcv_nxt, snd_nxt, len, nrtx, rto, initialmss, mss,
                 used, given, toUip, peer>>

InTimeWait(seg) ==
  /\ Accepted(seg) /\ tcpstate = "TIME_WAIT"
  /\ called' = {}
  /\ Emit({"ACK"}, snd_nxt, rcv_nxt, 0)
  /\ UNCHANGED <<conn, used, given, toUip, peer>>

InClosing(seg) ==
  /\ Accepted(seg) /\ tcpstate = "CLOSING" /\ Acks(seg)
  /\ EstimateRto(seg) /\ timer' = 0
  /\ snd_nxt' = SndAfter(seg) /\ len' = 0
  /\ tcpstate' = "TIME_WAIT"
  /\ called' = {}
  /\ UNCHANGED <<rcv_nxt, nrtx, initialmss, mss, used, given, toUip, toPeer,
                 peer>>

-----------------------------------------------------------------------------
(* The remote host: a conforming TCP, modelled from what uip_process()      *)
(* relies on.  It accepts bytes in order, acknowledges cumulatively, may    *)
(* take only a part of a segment, and may send again what is not yet        *)
(* acknowledged, cut in any way.                                            *)

Send(flags, seq, ackno, n, wnd, opt) ==
  toUip' \in Into(toUip, [flags |-> flags, seq |-> seq, ackno |-> ackno,
                          len |-> n, wnd |-> wnd, mss |-> opt], ToUipLimit)

PeerStays == UNCHANGED <<conn, used, given>> /\ called' = {}

\* The remote host opens the connection ...
PeerOpen ==
  /\ pstate = "idle" /\ ~used
  /\ pstate' = "syn_sent"
  /\ psnd' = 1
  /\ \E opt \in MssOptions, w \in Windows : Send({"SYN"}, 0, 0, 0, w, opt)
  /\ PeerStays /\ UNCHANGED <<toPeer, puna, prcv, pfin>>

\* ... or answers the SYN of Connect.
PeerAnswerSyn(m) ==
  /\ m \in toPeer /\ m.flags = {"SYN"}
  /\ pstate = "idle"
  /\ pstate' = "open"
  /\ psnd' = 1 /\ prcv' = 1
  /\ \E opt \in MssOptions, w \in Windows : Send({"SYN", "ACK"}, 0, 1, 0, w, opt)
  /\ PeerStays /\ UNCHANGED <<toPeer, puna, pfin>>

PeerSynAck(m) ==
  /\ m \in toPeer /\ m.flags = {"SYN", "ACK"} /\ m.ackno = 1
  /\ pstate = "syn_sent"
  /\ pstate' = "open"
  /\ puna' = 1 /\ prcv' = m.seq + 1
  /\ \E w \in Windows : Send({"ACK"}, psnd, prcv', 0, w, 0)
  /\ PeerStays /\ UNCHANGED <<toPeer, psnd, pfin>>

\* Where a segment leaves prcv: what it holds beyond prcv is taken whole or in
\* part, and its FIN when everything before it was taken.
Fin(m) == IF "FIN" \in m.flags THEN 1 ELSE 0
Taken(m) ==
  IF m.seq =< prcv /\ prcv < m.seq + m.len + Fin(m)
  THEN prcv .. m.seq + m.len + Fin(m)
  ELSE {prcv}

PeerRecv(m) ==
  /\ m \in toPeer /\ "ACK" \in m.flags /\ "RST" \notin m.flags
  /\ pstate = "open"
  /\ puna' = IF puna < m.ackno THEN m.ackno ELSE puna
  /\ prcv' \in Taken(m)
  /\ IF m.len + Fin(m) > 0 \/ "SYN" \in m.flags
     THEN \E w \in Windows : Send({"ACK"}, psnd, prcv', 0, w, 0)
     ELSE UNCHANGED toUip
  /\ PeerStays /\ UNCHANGED <<toPeer, pstate, psnd, pfin>>

\* A window update, or a duplicate acknowledgement.
PeerAck ==
  /\ pstate = "open"
  /\ \E w \in Windows : Send({"ACK"}, psnd, prcv, 0, w, 0)
  /\ PeerStays /\ UNCHANGED <<toPeer, peer>>

\* n bytes, new or sent again, from s on, with the FIN when it has been or is
\* now sent and the bytes reach the end.
PeerSend(s, n, fin) ==
  /\ pstate = "open"
  /\ puna =< s /\ s =< psnd /\ s + n - 1 =< PeerBytes
  /\ pfin => s + n < psnd
  /\ fin /\ ~pfin => s + n >= psnd
  /\ fin /\ pfin => s + n = psnd - 1
  /\ n > 0 \/ fin
  /\ psnd' = IF psnd < s + n + (IF fin THEN 1 ELSE 0)
             THEN s + n + (IF fin THEN 1 ELSE 0) ELSE psnd
  /\ pfin' = (pfin \/ fin)
  /\ \E w \in Windows :
       Send(IF fin THEN {"ACK", "FIN"} ELSE {"ACK"}, s, prcv, n, w, 0)
  /\ PeerStays /\ UNCHANGED <<toPeer, pstate, puna, prcv>>

\* It crashes, aborts, or is reset; afterwards it resets whatever it gets.
PeerAbort ==
  /\ pstate \in {"syn_sent", "open"}
  /\ pstate' = "gone"
  /\ \/ Send({"RST", "ACK"}, psnd, prcv, 0, 0, 0)
     \/ UNCHANGED toUip
  /\ PeerStays /\ UNCHANGED <<toPeer, psnd, puna, prcv, pfin>>

PeerReset(m) ==
  /\ m \in toPeer
  /\ \/ /\ "RST" \in m.flags /\ pstate \in {"syn_sent", "open"}
        /\ pstate' = "gone"
        /\ UNCHANGED toUip
     \/ /\ "RST" \notin m.flags /\ pstate \in {"idle", "gone"}
        /\ Send({"RST", "ACK"}, m.ackno, m.seq, 0, 0, 0)
        /\ UNCHANGED pstate
  /\ PeerStays /\ UNCHANGED <<toPeer, psnd, puna, prcv, pfin>>

-----------------------------------------------------------------------------
Init ==
  /\ tcpstate = "CLOSED" /\ used = FALSE
  /\ rcv_nxt = 0 /\ snd_nxt = 0 /\ len = 0
  /\ nrtx = 0 /\ timer = 0 /\ rto = 0
  /\ initialmss = 0 /\ mss = 0
  /\ called = {} /\ appGot = 0 /\ garbled = FALSE
  /\ toUip = {} /\ toPeer = {}
  /\ pstate = "idle" /\ psnd = 0 /\ puna = 0 /\ prcv = 0 /\ pfin = FALSE

Timer ==
  \/ TimerWait \/ TimerCount \/ TimerGiveUp
  \/ \E r \in Answers : TimerRexmit(r)

\* Segments whose handler is followed by nothing the application decides.
Handle(seg) ==
  \/ Listen(seg) \/ InReset(seg) \/ InRst(seg) \/ InMisplaced(seg)
  \/ InSynSentRefused(seg) \/ InFin(seg) \/ InLastAck(seg)
  \/ InFinWait1(seg) \/ InFinWait2(seg) \/ InTimeWait(seg) \/ InClosing(seg)

\* Segments whose handler ends in label appsend.
HandleAndSend(seg, r) ==
  InSynRcvd(seg, r) \/ InSynSent(seg, r) \/ InEstablished(seg, r)

Peer ==
  \/ PeerOpen \/ PeerAck \/ PeerAbort
  \/ \E m \in toPeer :
       PeerAnswerSyn(m) \/ PeerSynAck(m) \/ PeerRecv(m) \/ PeerReset(m)
  \/ \E s \in 1..PeerBytes + 1, n \in 0..PeerBytes, fin \in BOOLEAN :
       PeerSend(s, n, fin)

Next ==
  \/ Connect
  \/ \E r \in Answers : AppContract(r, snd_nxt, len) /\ Poll(r)
  \/ Timer
  \/ \E seg \in toUip : Handle(seg)
  \/ \E seg \in toUip, r \in Answers :
       AppContract(r, SndAfter(seg), LenAfter(seg)) /\ HandleAndSend(seg, r)
  \/ Peer

Spec == Init /\ [][Next]_vars

\* The periodic timer is served again and again (main loop, main.c): that is,
\* the network does not deliver a packet in every turn of the loop.
FairSpec == Spec /\ WF_vars(Timer)

-----------------------------------------------------------------------------
(* Properties.                                                              *)

OutSegment == [flags : SUBSET Flags, seq : Nat, ackno : Nat, len : Nat]
InSegment  == [flags : SUBSET Flags, seq : Nat, ackno : Nat, len : Nat,
               wnd : Nat, mss : Nat]

\* Types.  In particular nothing is retransmitted more than UIP_MAXRTX times
\* (the code compares nrtx for equality only), the timers fit in their 8 bits
\* and the segment size never exceeds what the SYN allowed.
TypeOK ==
  /\ tcpstate \in States
  /\ rcv_nxt \in Nat /\ snd_nxt \in Nat /\ len \in Nat
  /\ nrtx \in 0..UIP_MAXRTX
  /\ timer \in 0..255 /\ rto \in 0..255
  /\ initialmss \in 0..UIP_TCP_MSS /\ mss \in 0..initialmss
  /\ used \in BOOLEAN
  /\ called \subseteq Events
  /\ appGot \in Nat /\ garbled \in BOOLEAN
  /\ toUip \subseteq InSegment /\ toPeer \subseteq OutSegment
  /\ pstate \in {"idle", "syn_sent", "open", "gone"}
  /\ psnd \in Nat /\ puna \in Nat /\ prcv \in Nat /\ pfin \in BOOLEAN

\* What uIP counts as acknowledged has reached the remote host, and the remote
\* host never holds more than the one outstanding segment beyond that, however
\* segments and acknowledgements are lost, repeated or overtaken.  This is what
\* makes the single len field of struct uip_conn enough.
StopAndWait == snd_nxt =< prcv /\ prcv =< snd_nxt + len

\* The application gets the bytes of the remote stream once each and in order;
\* nothing that was not sent is acknowledged; and while it reads, every byte
\* the remote host sees acknowledged has been handed over (2 is the SYN and the
\* FIN).
DeliveredInOrder ==
  /\ ~garbled
  /\ rcv_nxt =< psnd
  /\ tcpstate = "ESTABLISHED" => puna =< appGot + 1
  /\ tcpstate = "LAST_ACK" => puna =< appGot + 2 /\ psnd = appGot + 2

\* A connection that ends in good order, by TIME_WAIT or by the acknowledgement
\* of LAST_ACK, ends so on both sides: all that either side sent, its FIN
\* included, was received and acknowledged.
CleanClose ==
  \/ tcpstate = "TIME_WAIT"
  \/ tcpstate = "CLOSED" /\ called = {"CLOSE"}
  => pfin /\ rcv_nxt = psnd /\ len = 0 /\ prcv = snd_nxt

\* A connection that is being opened or closed does not stay so for ever: the
\* periodic timer gives it up or lets it go.
Passing == States \ {"CLOSED", "ESTABLISHED"}
HandshakesEnd == tcpstate \in Passing ~> tcpstate \notin Passing

\* Whoever called uip_connect() hears of it: connected, refused or timed out.
ConnectIsAnswered ==
  tcpstate = "SYN_SENT" ~> called \intersect {"CONNECTED", "ABORT", "TIMEDOUT"} # {}

=============================================================================
