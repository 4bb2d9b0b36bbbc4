------------------------------ MODULE PsockTcp ------------------------------
(***************************************************************************)
(* A handler that sends AppBytes bytes with PSOCK_SEND (uip/psock.c) and   *)
(* then closes, as httpd.c and ftpd.c do, on the connection of module      *)
(* UipTcp: the general application of that module becomes the protosocket. *)
(*                                                                         *)
(* psock_send() keeps no copy of what it handed to uip_send(): it computes *)
(* it again from sendptr, sendlen and the current uip_mss(), both to send  *)
(* it again and to step over it once it is acknowledged.                   *)
(***************************************************************************)
EXTENDS UipTcp

VARIABLES
  sendptr,   \* bytes before s->sendptr in all that the handler sends
  sendlen,   \* s->sendlen; more than 0 when the handler is inside PSOCK_SEND,
             \* which it never leaves waiting but in STATE_DATA_SENT
  wire       \* <<p, b>>: byte b of the handler's data, or 0 for what happened
             \* to be in uip_buf, was sent at sequence number p

psock == <<sendptr, sendlen>>
pvars == <<vars, psock, wire>>

-----------------------------------------------------------------------------
(* psock_send() and data_is_sent_and_acked(), run in a callback with the    *)
(* flags called' while uip_mss() is mss'; r is what they ask of the stack.   *)

Nothing == [act |-> "send", slen |-> 0]
Close   == [act |-> "close", slen |-> 0]

\* uip_send() of as much of n bytes as uip_mss() allows.
SendUpToMss(n, r) ==
  /\ r = [act |-> "send", slen |-> Smaller(n, mss')]
  /\ sendlen' = n

\* The handler is not inside PSOCK_SEND: it waits, sends a next piece, or
\* closes when everything is sent.
Continue(r) ==
  \/ r = Nothing /\ sendlen' = 0
  \/ \E n \in 1..(AppBytes - sendptr') : SendUpToMss(n, r)
  \/ sendptr' = AppBytes /\ r = Close /\ sendlen' = 0

\* Wrong on purpose: the pointer moves when a segment is sent again.
SendAgainNext(r) ==
  /\ "REXMIT" \in called'
  /\ SendUpToMss(sendlen, r)
  /\ sendptr' = Smaller(sendptr + 1, AppBytes)

SendAgain(r) ==
  /\ "REXMIT" \in called'
  /\ SendUpToMss(sendlen, r)
  /\ UNCHANGED sendptr

\* Wrong on purpose: one acknowledgement counts for the whole PSOCK_SEND.
SteppedAll == sendlen

\* What was acknowledged is taken to be what uip_mss() allows now; the loop of
\* psock_send() sends the rest at once.
Stepped == Smaller(sendlen, mss')

StepOver(r) ==
  /\ "REXMIT" \notin called' /\ "ACKDATA" \in called'
  /\ sendptr' = sendptr + Stepped
  /\ IF sendlen > Stepped
     THEN SendUpToMss(sendlen - Stepped, r)
     ELSE Continue(r)

\* Wrong on purpose: the handler may close while it waits.
KeepWaitingOrClose(r) ==
  /\ called' \intersect {"REXMIT", "ACKDATA"} = {}
  /\ r \in {Nothing, Close}
  /\ UNCHANGED psock

KeepWaiting(r) ==
  /\ called' \intersect {"REXMIT", "ACKDATA"} = {}
  /\ r = Nothing
  /\ UNCHANGED psock

PsockSend(r) ==
  \/ sendlen > 0 /\ (SendAgain(r) \/ StepOver(r) \/ KeepWaiting(r))
  \/ sendlen = 0 /\ UNCHANGED sendptr /\ Continue(r)

\* uip_send() copies slen bytes from sendptr on; the segment has len of them.
OnTheWire(r) ==
  wire' = wire \union
    (IF r.act = "send" /\ r.slen > 0 /\ len' > 0
     THEN {<<snd_nxt' + i, IF i < r.slen THEN sendptr' + 1 + i ELSE 0>> :
             i \in 0..len' - 1}
     ELSE {})

\* The handler runs in every callback of an open connection.
Handler(r) ==
  IF called' = {} THEN UNCHANGED <<psock, wire>>
  ELSE PsockSend(r) /\ OnTheWire(r)

-----------------------------------------------------------------------------
PInit ==
  /\ Init
  /\ sendptr = 0 /\ sendlen = 0 /\ wire = {}

\* The periodic timer: it also polls the handler when nothing is outstanding.
PTimer ==
  \/ (TimerWait \/ TimerCount \/ TimerGiveUp) /\ UNCHANGED <<psock, wire>>
  \/ \E r \in Answers : (TimerRexmit(r) \/ Poll(r)) /\ Handler(r)

PInput ==
  \E seg \in toUip :
    \/ Handle(seg) /\ UNCHANGED <<psock, wire>>
    \/ \E r \in Answers : HandleAndSend(seg, r) /\ Handler(r)

PNext ==
  \/ PTimer
  \/ PInput
  \/ (Connect \/ Peer) /\ UNCHANGED <<psock, wire>>

PSpec == PInit /\ [][PNext]_pvars

\* As in UipTcp, the periodic timer is served again and again.
FairPSpec == PSpec /\ WF_pvars(PTimer)

-----------------------------------------------------------------------------
(* Properties.                                                              *)

\* Every byte of the handler's data goes out at its own place in the stream,
\* the first time and each time it is sent again: byte b has number b.
StreamIntact == \A x \in wire : x[1] = x[2]

\* PSOCK_SEND "blocks until all data has been sent and is known to have been
\* received by the remote end" (psock.h): what it has stepped over is there.
ReturnsWhenReceived == sendptr > 0 => sendptr < prcv

\* The protosocket is an application as UipTcp assumes it: what that module's
\* properties say of any such application holds for it.  In particular it never
\* closes, and so never overwrites len, while a segment is outstanding.
KeepsContract == Spec

\* A handler waits in PSOCK_SEND for each segment only until it is acknowledged
\* or the connection ends.
SendEnds ==
  \A p \in 0..AppBytes :
    sendlen > 0 /\ sendptr = p ~> sendptr > p \/ tcpstate # "ESTABLISHED"
=============================================================================
