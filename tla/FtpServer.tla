----------------------------- MODULE FtpServer ------------------------------
(***************************************************************************)
(* The FTP server (atari_ftp_server/ftpd.c): a control connection per      *)
(* client, and for each transfer a data connection that is a second uIP    *)
(* connection with callbacks of its own.  Both meet in a data state, which *)
(* either finds by port number in one small table.  Connection blocks and  *)
(* listening ports are tables of uIP, with other sizes.                    *)
(*                                                                         *)
(* One action is one callback of uIP: the protothread runs from where it   *)
(* waits to where it waits next.  A client keeps the protocol: it asks for *)
(* a data connection, opens it, gives one transfer command and waits for   *)
(* the reply; it asks for the next data connection when the server has     *)
(* closed the last one, or, with Overlap, when the server is closing it.   *)
(* It may go away at any time.                                             *)
(***************************************************************************)
EXTENDS Integers, FiniteSetsExt

CONSTANTS
  Clients, Nobody,
  FTPD_MAX_DATA_CONNECTIONS,
  FTPD_BASE_DATA_PORT,
  UIP_CONNS,         \* blocks for data connections
  UIP_LISTENPORTS,   \* entries beside port 21
  INPUTBUF_SIZE,     \* bytes of an upload that are written at a time
  UIP_TCP_MSS,       \* the most bytes in one segment
  Commands,          \* how many commands and sessions each client starts
  Aborts,            \* data connections may be reset, time out, or be closed
                     \* before the transfer has begun
  HandshakeLag,      \* a client may give a transfer command when it has seen
                     \* the SYN-ACK but its ACK has not arrived
  Overlap            \* a client may ask for a data connection while the server
                     \* has not yet closed its last one

ASSUME SizesAssumption ==
  /\ FTPD_MAX_DATA_CONNECTIONS \in Nat \ {0} /\ UIP_CONNS \in Nat \ {0}
  /\ UIP_LISTENPORTS \in Nat \ {0} /\ FTPD_BASE_DATA_PORT \in Nat
  /\ INPUTBUF_SIZE \in Nat /\ UIP_TCP_MSS \in 1..INPUTBUF_SIZE
  /\ Commands \in Nat /\ IsFiniteSet(Clients)
  /\ FTPD_BASE_DATA_PORT > Commands * Cardinality(Clients)  \* room for uIP's own ports
  /\ Nobody \notin Clients
  /\ Aborts \in BOOLEAN /\ HandshakeLag \in BOOLEAN /\ Overlap \in BOOLEAN

VARIABLES
  states,   \* ftpd_data_connection_states
  listen,   \* uip_listenports
  conns,    \* uip_conns, those that data connections may use
  lastport, \* the last port uip_connect() chose
  ctl,      \* control connections: where the protothread waits, data_port, the
            \* last result code; what the client has of the data port (ready)
            \* and of its transfer (moved), and what it may still do (left)
  bad,      \* a null pointer was used; what follows is undefined
  lost      \* history: a data connection was lost, or closed before its transfer

vars == <<states, listen, conns, lastport, ctl, bad, lost>>

Slots   == 0..(FTPD_MAX_DATA_CONNECTIONS - 1)
Blocks  == 0..(UIP_CONNS - 1)
Entries == 0..(UIP_LISTENPORTS - 1)

\* Port 0 is none; those of uIP's own choice lie below the passive ones.
Ports == 0..(FTPD_BASE_DATA_PORT + FTPD_MAX_DATA_CONNECTIONS - 1)

\* A slot without a state, and the state ftpd_alloc_data_state() makes: "at" is
\* where the protothread of the data connection waits, "fill" how much of
\* inputbuf is not written yet, "owner" the client whose command set the request.
Null == [port |-> 0]
NewState(port) ==
  [port |-> port, req |-> "Wait", busy |-> FALSE, closed |-> FALSE,
   connected |-> FALSE, code |-> 226, at |-> "wait", fill |-> 0,
   owner |-> Nobody]

\* A control connection that is not there.
Gone(left) ==
  [pc |-> "none", port |-> 0, code |-> 0, ready |-> FALSE, moved |-> "no", left |-> left]

-----------------------------------------------------------------------------
(* The tables.  A world is a record of them, so that one callback can be    *)
(* put together from the calls it makes.                                    *)

World == [st |-> states, ls |-> listen, cn |-> conns, ctl |-> ctl, bad |-> bad]

Becomes(w) ==
  /\ states' = w.st /\ listen' = w.ls /\ conns' = w.cn
  /\ ctl' = w.ctl /\ bad' = w.bad

\* ftpd_get_data_state(): the first state with the port.
Holding(w, port) == {i \in Slots : w.st[i] # Null /\ w.st[i].port = port}
Has(w, port)     == Holding(w, port) # {}
SlotOf(w, port)  == Min(Holding(w, port))
StateOf(w, port) == w.st[SlotOf(w, port)]

Listen(ls, port) ==
  IF \E e \in Entries : ls[e] = 0
  THEN [ls EXCEPT ![Min({e \in Entries : ls[e] = 0})] = port]
  ELSE ls

Unlisten(ls, port) ==
  IF \E e \in Entries : ls[e] = port
  THEN [ls EXCEPT ![Min({e \in Entries : ls[e] = port})] = 0]
  ELSE ls

\* What uip_is_active_connection() finds: a closed block that had the port.
ClosedWith(cn, port) == \E b \in Blocks : cn[b].st = "CLOSED" /\ cn[b].port = port

Collect(w) ==
  [w EXCEPT !.st = [i \in Slots |->
     IF w.st[i] # Null /\ (w.st[i].closed \/ ClosedWith(w.cn, w.st[i].port))
     THEN Null ELSE w.st[i]]]

FreeSlots(w) == {i \in Slots : w.st[i] = Null}

Free(w, port) == IF Has(w, port) THEN [w EXCEPT !.st[SlotOf(w, port)] = Null] ELSE w

\* Wrong on purpose: the slots count from 1.
AllocBeyond(w, c, port) ==
  LET i == Min(FreeSlots(w))
      p == IF port = 0 THEN FTPD_BASE_DATA_PORT + i + 1 ELSE port
  IN [w EXCEPT !.st[i] = NewState(p), !.ls = Listen(w.ls, p), !.ctl[c].port = p]

\* ftpd_alloc_data_state() once a slot is free: port 0 asks for the slot's own.
AllocIn(w, c, port) ==
  LET i == Min(FreeSlots(w))
      p == IF port = 0 THEN FTPD_BASE_DATA_PORT + i ELSE port
  IN [w EXCEPT !.st[i] = NewState(p), !.ls = Listen(w.ls, p), !.ctl[c].port = p]

\* The block a new connection gets: the first closed one, or else one in
\* TIME_WAIT (the code takes the oldest).
NewBlocks(cn) ==
  LET closed == {b \in Blocks : cn[b].st = "CLOSED"}
  IN IF closed # {} THEN {Min(closed)} ELSE {b \in Blocks : cn[b].st = "TIME_WAIT"}

-----------------------------------------------------------------------------
(* The control connection                                                   *)

At(w, c, pc) == [w EXCEPT !.ctl[c].pc = pc]

Connected(w, port) == Has(w, port) /\ StateOf(w, port).connected
Busy(w, port)      == Has(w, port) /\ StateOf(w, port).busy

\* ftpd_data_list(), ftpd_data_stor(), ftpd_data_retr().
Request(w, c, req) ==
  IF Has(w, w.ctl[c].port)
  THEN [w EXCEPT !.st[SlotOf(w, w.ctl[c].port)] =
          [@ EXCEPT !.req = req, !.busy = TRUE, !.owner = c]]
  ELSE [w EXCEPT !.bad = TRUE]

\* Wrong on purpose: the state is freed before its result is read.
FinishLate(w, c) ==
  LET freed == Free(w, w.ctl[c].port)
  IN IF Has(freed, w.ctl[c].port)
     THEN At([freed EXCEPT !.ctl[c].code = StateOf(w, w.ctl[c].port).code], c, "result")
     ELSE [freed EXCEPT !.bad = TRUE]

\* The end of a transfer: ftpd_data_get_code(), ftpd_free_data_state(), and the
\* reply with the code.
Finish(w, c) ==
  IF Has(w, w.ctl[c].port)
  THEN At([Free(w, w.ctl[c].port) EXCEPT !.ctl[c].code = StateOf(w, w.ctl[c].port).code],
          c, "result")
  ELSE [w EXCEPT !.bad = TRUE]

\* Wrong on purpose: handle_retr() does not wait until the data are sent.
UntilUnconnected(w, c) ==
  IF w.ctl[c].pc = "busy" THEN Finish(w, c)
  ELSE IF Connected(w, w.ctl[c].port) THEN At(w, c, "disc") ELSE Finish(w, c)

\* !busy and then !connected, in one callback if both hold.
UntilOver(w, c) ==
  IF w.ctl[c].pc = "busy" /\ Busy(w, w.ctl[c].port) THEN w
  ELSE IF Connected(w, w.ctl[c].port) THEN At(w, c, "disc")
  ELSE Finish(w, c)

\* One turn of the protothread in a wait that is not for an acknowledgement.
Resume(w, c) ==
  CASE w.ctl[c].pc = "pasv" ->
         LET swept == Collect(w)
         IN IF FreeSlots(swept) = {} THEN swept ELSE At(AllocIn(swept, c, 0), c, "sent227")
    [] w.ctl[c].pc = "connList" /\ Connected(w, w.ctl[c].port) -> At(w, c, "sent150")
    [] w.ctl[c].pc = "connRetr" /\ Connected(w, w.ctl[c].port) -> At(w, c, "sent125")
    [] w.ctl[c].pc \in {"busy", "disc"} -> UntilOver(w, c)
    [] OTHER -> w

Sending == {"greet", "sent227", "sent150", "sent125", "sentStor", "result", "quit"}

\* What PSOCK_SEND had to send is acknowledged.
Acked(w, c) ==
  CASE w.ctl[c].pc = "sent227" -> At([w EXCEPT !.ctl[c].ready = TRUE], c, "read")
    [] w.ctl[c].pc = "sent150" -> Resume(At(Request(w, c, "List"), c, "busy"), c)
    [] w.ctl[c].pc = "sent125" -> Resume(At(w, c, "busy"), c)
    [] w.ctl[c].pc = "sentStor" -> Resume(At(w, c, "disc"), c)
    [] w.ctl[c].pc = "quit" -> At(w, c, "closing")
    [] OTHER -> At(w, c, "read")

-----------------------------------------------------------------------------
(* Callbacks of a control connection                                        *)

\* A client connects: ftpd_alloc_state(), and the greeting is sent.
Open(c) ==
  /\ ctl[c].pc = "none" /\ ctl[c].left > 0
  /\ ctl' = [ctl EXCEPT ![c] = [Gone(ctl[c].left - 1) EXCEPT !.pc = "greet"]]
  /\ UNCHANGED <<states, listen, conns, lastport, bad, lost>>

\* UIP_ACKDATA.
ControlAcked(c) ==
  /\ ctl[c].pc \in Sending
  /\ Becomes(Acked(World, c))
  /\ UNCHANGED <<lastport, lost>>

\* UIP_POLL: only while nothing is outstanding.
ControlPoll(c) ==
  /\ ctl[c].pc \in {"pasv", "connList", "connRetr", "busy", "disc"}
  /\ Becomes(Resume(World, c))
  /\ UNCHANGED <<lastport, lost>>

\* What the server has of a data connection when its client asks for the next.
Done == {"CLOSED", "TIME_WAIT"} \union (IF Overlap THEN {"LAST_ACK", "FIN_WAIT"} ELSE {})

Lingering(c) == \E b \in Blocks : conns[b].who = c /\ conns[b].st \notin Done

\* The world in which a command was read.
Reading(c) == [World EXCEPT !.ctl[c].left = @ - 1, !.ctl[c].ready = FALSE, !.ctl[c].moved = "no"]

MayCommand(c) == ctl[c].pc = "read" /\ ctl[c].left > 0

\* handle_pasv().
Pasv(c) ==
  /\ MayCommand(c) /\ ~Lingering(c)
  /\ Becomes(Resume(At(Reading(c), c, "pasv"), c))
  /\ UNCHANGED <<lastport, lost>>

\* handle_port(): uip_connect() to the client, and a state for its port.  The
\* result of uip_connect() is used before it is tested.  With no slot free the
\* program exits, so there is no such step.
Port(c) ==
  /\ MayCommand(c) /\ ~Lingering(c)
  /\ lastport' = lastport + 1 /\ UNCHANGED lost
  /\ IF NewBlocks(conns) = {}
     THEN Becomes([Reading(c) EXCEPT !.bad = TRUE])
     ELSE \E b \in NewBlocks(conns) :
            LET w == Collect([Reading(c) EXCEPT
                       !.cn[b] = [st |-> "SYN_SENT", port |-> lastport', out |-> FALSE, who |-> c]])
            IN /\ FreeSlots(w) # {}
               /\ Becomes(At([AllocIn(w, c, lastport') EXCEPT !.ctl[c].ready = TRUE,
                                                               !.ctl[c].code = 200],
                             c, "result"))

\* The client has opened its data connection as far as it can see.
Opened(c) ==
  \E b \in Blocks :
    /\ conns[b].who = c /\ conns[b].port = ctl[c].port
    /\ conns[b].st \in {"ESTABLISHED"} \union (IF HandshakeLag THEN {"SYN_RCVD"} ELSE {})

MayTransfer(c) == MayCommand(c) /\ ctl[c].ready /\ Opened(c)

List(c) ==
  /\ MayTransfer(c)
  /\ Becomes(Resume(At(Reading(c), c, "connList"), c))
  /\ UNCHANGED <<lastport, lost>>

Retr(c) ==
  /\ MayTransfer(c)
  /\ Becomes(Resume(At(Request(Reading(c), c, "Retr"), c, "connRetr"), c))
  /\ UNCHANGED <<lastport, lost>>

\* handle_stor() and handle_appe(): the data connection is not waited for.
Stor(c) ==
  /\ MayTransfer(c)
  /\ Becomes(At(Request(Reading(c), c, "Stor"), c, "sentStor"))
  /\ UNCHANGED <<lastport, lost>>

\* Every command that only sends a reply; the data connection stays agreed.
Other(c) ==
  /\ MayCommand(c)
  /\ Becomes(At([World EXCEPT !.ctl[c].left = @ - 1, !.ctl[c].code = 200], c, "result"))
  /\ UNCHANGED <<lastport, lost>>

\* There is no reply to QUIT: the last reply is sent again, if there was one.
Quit(c) ==
  /\ MayCommand(c)
  /\ Becomes(At(Reading(c), c, IF ctl[c].code = 0 THEN "closing" ELSE "quit"))
  /\ UNCHANGED <<lastport, lost>>

\* The connection ends by FIN, reset or time-out: the protothread has one more
\* turn, with an acknowledgement or without, then ftpd_free_state().  After QUIT
\* the protothread starts anew first and forgets the data port.
End(c) ==
  /\ ctl[c].pc # "none"
  /\ \E w \in {Resume(World, c)} \union (IF ctl[c].pc \in Sending THEN {Acked(World, c)} ELSE {}) :
       LET port == IF ctl[c].pc = "closing" THEN 0 ELSE w.ctl[c].port
       IN Becomes([Free(w, port) EXCEPT !.ctl[c] = Gone(ctl[c].left)])
  /\ UNCHANGED <<lastport, lost>>

-----------------------------------------------------------------------------
(* The data connection: ftpd_data_connection().  A result of one turn has   *)
(* the state after it, whether something was handed to uip_send(), and      *)
(* whether with this turn the transfer is over: not yet ("no"), with        *)
(* everything stored or sent ("all"), or with a part of the upload's last   *)
(* segment dropped ("short").                                               *)

Turn(s, sends, over) == [s |-> s, sends |-> sends, over |-> over]

Failed(s) == Turn([s EXCEPT !.code = 452, !.at = "yield"], FALSE, "no")
Through(s, over) == Turn([s EXCEPT !.at = "yield"], FALSE, over)

\* Wrong on purpose: the state is marked closed and still counts as connected.
ClosedStill(s) == [s EXCEPT !.req = "Quit", !.busy = FALSE, !.closed = TRUE]

\* ftpd_mark_closed_data_state() and what goes with it.
Closed(s) == [s EXCEPT !.req = "Quit", !.busy = FALSE, !.closed = TRUE, !.connected = FALSE]

\* PSOCK_SEND, and for a file reading it, again and again.
SendMore(s, flags) ==
  IF "ACKDATA" \in flags
  THEN {Turn(s, TRUE, "no"), Through(s, "all")} \union (IF s.req = "Retr" THEN {Failed(s)} ELSE {})
  ELSE {Turn(s, "REXMIT" \in flags, "no")}

\* How much of the file a callback may come with.
Bytes(flags) ==
  IF "CLOSE" \in flags THEN 0..UIP_TCP_MSS
  ELSE IF "NEWDATA" \in flags /\ "CONNECTED" \notin flags THEN 1..UIP_TCP_MSS
  ELSE {0}

\* PSOCK_READBUF_LEN collects n more bytes.  A buffer that is full is written
\* and what did not fit is the beginning of the next one; what there is when the
\* remote host closes is written, and nothing more is read after that.
StoreBytes(s, n, flags) ==
  LET filled == s.fill + n
      more   == [s EXCEPT !.fill = filled % INPUTBUF_SIZE]
  IN IF "CLOSE" \in flags
     THEN {Through(s, IF filled > INPUTBUF_SIZE THEN "short" ELSE "all"), Failed(s)}
     ELSE {Turn(more, FALSE, "no")} \union (IF filled >= INPUTBUF_SIZE THEN {Failed(s)} ELSE {})

Store(s, flags) == UNION {StoreBytes(s, n, flags) : n \in Bytes(flags)}

DataTurns(s, flags) ==
  CASE s.at = "wait" /\ s.req = "Wait" -> {Turn(s, FALSE, "no")}
    [] s.at = "wait" /\ s.req = "Quit" -> {Through(s, "no")}
    [] s.at = "wait" /\ s.req = "List" -> {Turn([s EXCEPT !.at = "send"], TRUE, "no"), Failed(s)}
    [] s.at = "wait" /\ s.req = "Retr" ->
         {Turn([s EXCEPT !.at = "send"], TRUE, "no"), Through(s, "all"), Failed(s)}
    [] s.at = "wait" /\ s.req = "Stor" -> {Failed(s)} \union Store([s EXCEPT !.at = "store", !.fill = 0], flags)
    [] s.at = "send"  -> SendMore(s, flags)
    [] s.at = "store" -> Store(s, flags)
    [] s.at = "yield" -> {Turn([Closed(s) EXCEPT !.at = "wait"], FALSE, "no")}

\* Wrong on purpose: a connection that is lost counts as closed.
EndedAny(s, flags) == IF flags \intersect {"CLOSE", "ABORT"} # {} THEN Closed(s) ELSE s

\* On UIP_CLOSE the state is closed whatever the protothread did.
Ended(s, flags) == IF "CLOSE" \in flags THEN Closed(s) ELSE s

\* What the client of block b sees of a turn: the transfer it asked for is
\* complete, or it closes before that.
Moved(w, b, s, t) ==
  LET c == w.cn[b].who
  IN IF c = Nobody THEN w
     ELSE IF t.over # "no" /\ s.owner = c THEN [w EXCEPT !.ctl[c].moved = t.over]
     ELSE IF w.cn[b].st = "LAST_ACK" /\ conns[b].st = "ESTABLISHED" /\ s.at # "yield"
     THEN [w EXCEPT !.ctl[c].moved = "cut"]
     ELSE w

\* After the callback of a connection that is open: FIN, data, or nothing.
Answered(w, b, closes, sends, flags) ==
  IF w.cn[b].st # "ESTABLISHED" THEN w
  ELSE IF closes THEN [w EXCEPT !.cn[b].st = "FIN_WAIT", !.cn[b].out = FALSE]
  ELSE [w EXCEPT !.cn[b].out = sends \/ (@ /\ "ACKDATA" \notin flags)]

\* ftpd_data_appcall() for block b, whose state in w is that of the callback.
DataCall(w, b, flags) ==
  LET port == w.cn[b].port
  IN IF Has(w, port)
     THEN LET i    == SlotOf(w, port)
              came == IF "CONNECTED" \in flags
                      THEN [w EXCEPT !.ls = Unlisten(w.ls, port), !.st[i].connected = TRUE]
                      ELSE w
          IN {LET after == Ended(t.s, flags)
                  w1    == [came EXCEPT !.st[i] = after]
              IN Answered(Moved(w1, b, came.st[i], t), b, after.closed, t.sends, flags)
                : t \in DataTurns(came.st[i], flags)}
     ELSE {Answered(Collect([w EXCEPT !.ls = Unlisten(w.ls, port)]), b,
                    "REXMIT" \notin flags, FALSE, flags)}

\* A callback of block b with the block in state st first.
Callback(b, st, flags) ==
  /\ \E w \in DataCall([World EXCEPT !.cn[b].st = st], b, flags) : Becomes(w)
  /\ UNCHANGED lastport

-----------------------------------------------------------------------------
(* Events of the data connections                                           *)

\* A SYN of a client that was told a port on which uIP listens.
Syn(c) ==
  /\ ctl[c].ready /\ ctl[c].port >= FTPD_BASE_DATA_PORT
  /\ \E e \in Entries : listen[e] = ctl[c].port
  /\ ~Opened(c) /\ ~\E b \in Blocks : conns[b].who = c /\ conns[b].st = "SYN_RCVD"
  /\ \E b \in NewBlocks(conns) :
       conns' = [conns EXCEPT ![b] =
         [st |-> "SYN_RCVD", port |-> ctl[c].port, out |-> FALSE, who |-> c]]
  /\ UNCHANGED <<states, listen, lastport, ctl, bad, lost>>

\* The handshake ends, of either direction.
Handshake(b) ==
  /\ \/ conns[b].st = "SYN_RCVD" /\ Callback(b, "ESTABLISHED", {"CONNECTED"})
     \/ conns[b].st = "SYN_SENT" /\ Callback(b, "ESTABLISHED", {"CONNECTED", "NEWDATA"})
  /\ UNCHANGED lost

DataAcked(b) ==
  /\ conns[b].st = "ESTABLISHED" /\ conns[b].out
  /\ Callback(b, "ESTABLISHED", {"ACKDATA"})
  /\ UNCHANGED lost

Rexmit(b) ==
  /\ conns[b].st = "ESTABLISHED" /\ conns[b].out
  /\ Callback(b, "ESTABLISHED", {"REXMIT"})
  /\ UNCHANGED lost

DataPoll(b) ==
  /\ conns[b].st = "ESTABLISHED" /\ ~conns[b].out
  /\ Callback(b, "ESTABLISHED", {"POLL"})
  /\ UNCHANGED lost

\* The client of block b was told that its file may come.
Uploading(b) == conns[b].who \in Clients /\ ctl[conns[b].who].pc = "disc"

\* Data of a file to store.
Data(b) ==
  /\ conns[b].st = "ESTABLISHED" /\ Uploading(b)
  /\ Callback(b, "ESTABLISHED", {"NEWDATA"})
  /\ UNCHANGED lost

\* The client closes: at the end of its file, or because it wants no more.  It
\* does not close what it has still to send.
Fin(b) ==
  /\ conns[b].st = "ESTABLISHED"
  /\ conns[b].who \in Clients =>
       /\ ctl[conns[b].who].pc # "sentStor"
       /\ Aborts \/ ctl[conns[b].who].pc \in {"busy", "disc", "none"}
  /\ lost' = (lost \/ (conns[b].who \in Clients /\ ctl[conns[b].who].pc \notin {"busy", "disc", "none"}))
  /\ Callback(b, "LAST_ACK", IF conns[b].out THEN {"CLOSE", "ACKDATA"} ELSE {"CLOSE"})

\* The end of a connection that was closed in order.
LastAck(b) ==
  /\ conns[b].st = "LAST_ACK"
  /\ Callback(b, "CLOSED", {"CLOSE"}) /\ UNCHANGED lost
LateFin(b) ==
  /\ conns[b].st = "FIN_WAIT"
  /\ Callback(b, "TIME_WAIT", {"CLOSE"}) /\ UNCHANGED lost
Expire(b) ==
  /\ conns[b].st \in {"FIN_WAIT", "TIME_WAIT"}
  /\ conns' = [conns EXCEPT ![b].st = "CLOSED"]
  /\ UNCHANGED <<states, listen, lastport, ctl, bad, lost>>

\* A reset or a time-out; a reset that hits a connection in TIME_WAIT is left out.
Lost(b) ==
  /\ Aborts /\ conns[b].st \notin {"CLOSED", "TIME_WAIT"}
  /\ lost' = TRUE
  /\ Callback(b, "CLOSED", {"ABORT"})

\* A connection of another kind takes a closed block and leaves it.
Reused(b) ==
  /\ conns[b].st = "CLOSED" /\ conns[b].port # 0
  /\ conns' = [conns EXCEPT ![b] = [@ EXCEPT !.port = 0, !.who = Nobody]]
  /\ UNCHANGED <<states, listen, lastport, ctl, bad, lost>>

-----------------------------------------------------------------------------
Init ==
  /\ states = [i \in Slots |-> Null]
  /\ listen = [e \in Entries |-> 0]
  /\ conns = [b \in Blocks |-> [st |-> "CLOSED", port |-> 0, out |-> FALSE, who |-> Nobody]]
  /\ lastport = 0
  /\ ctl = [c \in Clients |-> Gone(Commands)]
  /\ bad = FALSE /\ lost = FALSE

ControlNext(c) ==
  \/ Open(c) \/ ControlAcked(c) \/ ControlPoll(c) \/ End(c)
  \/ Pasv(c) \/ Port(c) \/ List(c) \/ Retr(c) \/ Stor(c) \/ Other(c) \/ Quit(c)
  \/ Syn(c)

DataNext(b) ==
  \/ Handshake(b) \/ DataAcked(b) \/ Rexmit(b) \/ DataPoll(b) \/ Data(b)
  \/ Fin(b) \/ LastAck(b) \/ LateFin(b) \/ Expire(b) \/ Lost(b) \/ Reused(b)

Next ==
  /\ ~bad
  /\ \/ \E c \in Clients : ControlNext(c)
     \/ \E b \in Blocks : DataNext(b)

Spec == Init /\ [][Next]_vars

\* uIP polls every connection that has nothing outstanding; a client that is
\* there acknowledges, answers the handshake, and closes at the end of the file
\* it sends; a file that is sent has an end.
Fairness ==
  /\ \A c \in Clients : WF_vars(~bad /\ ControlPoll(c)) /\ WF_vars(~bad /\ ControlAcked(c))
  /\ \A b \in Blocks :
       /\ WF_vars(~bad /\ Handshake(b)) /\ WF_vars(~bad /\ DataPoll(b))
       /\ WF_vars(~bad /\ DataAcked(b) /\ states' # states)
       /\ WF_vars(~bad /\ Uploading(b) /\ Fin(b))

FairSpec == Spec /\ Fairness

-----------------------------------------------------------------------------
(* Properties                                                               *)

StateSet ==
  [port : Ports \ {0}, req : {"Wait", "List", "Stor", "Retr", "Quit"}, busy : BOOLEAN,
   closed : BOOLEAN, connected : BOOLEAN, code : {226, 452},
   at : {"wait", "send", "store", "yield"}, fill : 0..(INPUTBUF_SIZE - 1),
   owner : Clients \union {Nobody}]

Waiting(c) == ctl[c].pc \in {"connList", "connRetr", "busy", "disc"}

\* A transfer was asked for and is not replied to.
Serving(c) == Waiting(c) \/ ctl[c].pc \in {"sent150", "sent125", "sentStor"}

\* The tables have their types; a port that was told is a port.
TypeOK ==
  /\ states \in [Slots -> StateSet \union {Null}]
  /\ listen \in [Entries -> Ports]
  /\ conns \in [Blocks -> [st : {"CLOSED", "SYN_RCVD", "SYN_SENT", "ESTABLISHED", "LAST_ACK",
                                 "FIN_WAIT", "TIME_WAIT"},
                           port : Ports, out : BOOLEAN, who : Clients \union {Nobody}]]
  /\ lastport \in Ports
  /\ ctl \in [Clients ->
       [pc : Sending \union {"none", "read", "closing", "pasv", "connList", "connRetr", "busy", "disc"},
        port : Ports, code : {0, 200, 226, 452}, ready : BOOLEAN,
        moved : {"no", "all", "short", "cut"}, left : 0..Commands]]
  /\ bad \in BOOLEAN /\ lost \in BOOLEAN

\* A handler that looks up its data state by port number finds it whenever it
\* then reads from it: ftpd_data_get_code() and the requests test nothing.  When
\* a data connection was lost the sweep may have taken the state.
NoNullUse == bad => lost

\* When the client is told 226, "Transfer complete", the transfer it asked for
\* went through to its end, or the client itself closed the data connection
\* before.  Of an upload a part of the last segment may be missing (see
\* WholeWhenTold).
Honest226 ==
  \A c \in Clients :
    ctl[c].pc = "result" /\ ctl[c].code = 226 => ctl[c].moved # "no"

\* When the client is told 226 nothing of what it sent or asked for is missing,
\* unless it closed the data connection before the transfer was over.
WholeWhenTold ==
  \A c \in Clients :
    ctl[c].pc = "result" /\ ctl[c].code = 226 => ctl[c].moved \in {"all", "cut"}

\* The handlers of LIST, RETR, STOR and APPE reply to their transfer only when the
\* server's side of its data connection is over: no connection with the port
\* stays open, or is still being opened, behind the reply.
RepliesAtEnd ==
  [][\A c \in Clients :
       Serving(c) /\ ctl'[c].pc = "result" =>
         \A b \in Blocks : conns'[b].port = ctl[c].port =>
           conns'[b].st \notin {"SYN_RCVD", "SYN_SENT", "ESTABLISHED"}]_vars

\* A control connection that waits for its data connection does not wait for
\* ever, unless a data connection was lost: then nothing tells it.
TransferEnds == \A c \in Clients : Waiting(c) ~> ~Waiting(c) \/ lost
=============================================================================
