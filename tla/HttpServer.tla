------------------------------ MODULE HttpServer ------------------------------
(***************************************************************************)
(* The HTTP server (atari_http_server/httpd.c) on one uIP connection, and  *)
(* the reading side of the protosocket under it (uip/psock.c).             *)
(*                                                                         *)
(* uIP calls httpd_appcall() once for every segment; the protothread       *)
(* handle_connection() goes on from where it waits until it must wait      *)
(* again.  One step of this module is one piece of the thread; `cb' is the *)
(* callback that is running.  A request line, a header line and a unit of  *)
(* an upload's body are one token each; the client is a browser or curl:   *)
(* it asks for one thing at a time and may hang up whenever it likes.      *)
(***************************************************************************)
EXTENDS Integers, Sequences

CONSTANTS
  Requests,      \* the kinds of request the client makes
  Units, Body,   \* the units that uploads are made of, and an upload's body
  BufSize,       \* units that INPUTBUF_SIZE bytes hold
  Chunks,        \* how many buffers a file or a listing to send may take
  MaxAsks,       \* requests in a behaviour
  MaxConns,      \* connections in a behaviour
  MaxFaults      \* failing file operations in a behaviour

\* What the lines of a request's head say, in this server's eyes.
LineTokens == {"PUT", "GET", "DIR", "DELETE", "RUN", "NEWFOLDER", "Content-Length",
               "Expect", "urlencoded", "end"}

Kinds == {"put", "putexpect", "putnolen", "putform", "get", "dir", "delete",
          "run", "newfolder"}

ASSUME HttpAssumption ==
  /\ Requests \subseteq Kinds
  /\ Body \in Seq(Units) \ {<<>>} /\ "junk" \notin Units /\ Units \cap LineTokens = {}
  /\ BufSize \in Nat \ {0} /\ Chunks \subseteq Nat
  /\ MaxAsks \in Nat /\ MaxConns \in Nat /\ MaxFaults \in Nat

VARIABLES
  conn,          \* the connection, as uIP sees it
  st,            \* uip_conn->appstate: the httpd_state, or Null
  cb,            \* the callback that runs: its flags and its data, or Idle
  out,           \* the reply that is outstanding, or Null
  client,        \* the client's side
  disk,          \* the units in the file that was uploaded last
  open,          \* open file handles and data sources
  said,          \* programs the client was told to be started, and those started
  spoilt,        \* what happened that the code cannot make up for
  asks, conns, faults

vars == <<conn, st, cb, out, client, disk, open, said, spoilt, asks, conns, faults>>
bounds == <<asks, conns, faults>>

Null == [null |-> TRUE]
Idle == [flags |-> {}, data |-> <<>>, live |-> FALSE]
BodyLen == Len(Body)
Bytes == Units \cup {"junk"}   \* what is no line of a request
Wrapped == 1000   \* a size_t below zero: more than any client will ever send

-----------------------------------------------------------------------------
(* The client.                                                              *)

\* The lines of a request, up to the empty line.
Lines(r) ==
  CASE r = "put"       -> <<"PUT", "Content-Length", "end">>
    [] r = "putexpect" -> <<"PUT", "Content-Length", "Expect", "end">>
    [] r = "putnolen"  -> <<"PUT", "end">>
    [] r = "putform"   -> <<"PUT", "Content-Length", "urlencoded", "end">>
    [] r = "get"       -> <<"GET", "end">>
    [] r = "dir"       -> <<"DIR", "end">>
    [] r = "delete"    -> <<"DELETE", "end">>
    [] r = "run"       -> <<"RUN", "end">>
    [] r = "newfolder" -> <<"NEWFOLDER", "end">>

Uploads == {"put", "putexpect", "putnolen", "putform"}

Ask(r) ==
  /\ asks < MaxAsks /\ conn \in {"syn", "open"} /\ client.pending = "none" /\ ~client.fin
  /\ asks' = asks + 1
  /\ client' = [client EXCEPT
       !.pending = r,
       !.queue = @ \o Lines(r) \o (IF r \in Uploads \ {"putexpect"} THEN Body ELSE <<>>),
       !.holds = (r = "putexpect")]
  /\ UNCHANGED <<conn, st, cb, out, disk, open, said, spoilt, conns, faults>>

\* The client sends the body it holds back: it has the 100, or it will not wait.
SendBody ==
  /\ client.holds /\ ~client.fin
  /\ client' = [client EXCEPT !.holds = FALSE, !.queue = @ \o Body]
  /\ UNCHANGED <<conn, st, cb, out, disk, open, said, spoilt, bounds>>

\* A reply reaches the client.
Receive ==
  /\ out # Null /\ ~out.received
  /\ out' = [out EXCEPT !.received = TRUE]
  /\ client' = [client EXCEPT
       !.holds = @ /\ out.code # "100",
       !.queue = IF client.holds /\ out.code = "100" /\ ~client.fin THEN @ \o Body ELSE @,
       !.pending = IF out.code = "100" \/ out.more THEN @ ELSE "none"]
  /\ said' = [said EXCEPT !.told = IF out.code = "200 run" THEN @ + 1 ELSE @]
  /\ UNCHANGED <<conn, st, cb, disk, open, spoilt, bounds>>

\* The client closes its side, at any time.
HangUp ==
  /\ conn # "closed" /\ ~client.fin
  /\ client' = [client EXCEPT !.fin = TRUE, !.holds = FALSE]
  /\ UNCHANGED <<conn, st, cb, out, disk, open, said, spoilt, bounds>>

\* The client sees that the server has closed.
SeeClosed ==
  /\ conn \in {"fin", "closed"}
  /\ client.pending # "none" \/ (conn = "fin" /\ ~client.fin)
  /\ out = Null
  /\ client' = [client EXCEPT !.pending = "none", !.fin = TRUE, !.holds = FALSE]
  /\ UNCHANGED <<conn, st, cb, out, disk, open, said, spoilt, bounds>>

-----------------------------------------------------------------------------
(* The thread's state, and what its steps have in common.                   *)

\* httpd_alloc_state()
Alloc == [pc |-> "top", then |-> "top", handler |-> "none", code |-> 0, str |-> 0,
          len |-> -1, expect |-> FALSE, form |-> FALSE, fd |-> FALSE, src |-> -1,
          left |-> 0, begun |-> FALSE, ps |-> "NONE", rd |-> <<>>, buf |-> <<>>, junk |-> FALSE,
          idle |-> FALSE]

Running(pc) == cb.live /\ st # Null /\ st.pc = pc

\* Wrong on purpose: a segment that has been read is read again.
NewDataAgain == st.rd # <<>> \/ "newdata" \in cb.flags

\* psock_newdata()
NewData == st.rd # <<>> \/ (st.ps # "READ" /\ "newdata" \in cb.flags)

\* What is left unread of a segment lies in uip_buf, which the next packet may
\* have overwritten by the time it is read.
Stale(s) == {s} \cup (IF s = <<>> THEN {} ELSE {[i \in 1..Len(s) |-> "junk"]})

\* handle_idle_run(): the program runs, and nothing else does until it ends.
IdleRun(idle) == said' = [said EXCEPT !.ran = IF idle THEN @ + 1 ELSE @]

\* Wrong on purpose: the data source is left open.
ReleaseFile(idle) ==
  /\ open' = [open EXCEPT !.fd = IF st.fd THEN @ - 1 ELSE @]
  /\ IdleRun(idle)

\* httpd_free_state() and handle_error(): the files are closed, and a program
\* that waited for the end of the connection, idle, is run.
Release(idle) ==
  /\ open' = [fd |-> IF st.fd THEN open.fd - 1 ELSE open.fd,
              src |-> IF st.src >= 0 THEN open.src - 1 ELSE open.src]
  /\ IdleRun(idle)

\* The thread waits, with the state s: the callback is over.  Where uIP called
\* because the connection ends, the state is freed; the idle handler is the one
\* read before the thread ran.
Wait(s) ==
  /\ cb' = Idle
  /\ IF "closed" \in cb.flags
     THEN st' = Null /\ conn' = "closed" /\ Release("idle" \in cb.flags)
     ELSE /\ \E rd \in Stale(s.rd) :
               st' = [s EXCEPT !.rd = rd, !.ps = IF @ = "READ" THEN "BLOCKED" ELSE @]
          /\ conn' = IF "close" \in cb.flags THEN "fin" ELSE conn
          /\ UNCHANGED <<open, said>>

\* PSOCK_SEND_STR(): nothing goes out of a callback that ends the connection.
Send(s, code, more, then) ==
  /\ out' = IF "closed" \in cb.flags THEN Null
            ELSE [code |-> code, more |-> more, received |-> FALSE]
  /\ spoilt' = IF s.rd # <<>> THEN spoilt \cup {"stale"} ELSE spoilt
  /\ Wait([s EXCEPT !.pc = "sending", !.then = then, !.ps = "SENT"])

\* The thread goes on within the callback.
GoOn(s) == st' = s /\ UNCHANGED <<conn, cb>>

-----------------------------------------------------------------------------
(* psock_send(), once it has sent.                                          *)

Sent ==
  /\ Running("sending")
  /\ "acked" \in cb.flags
  /\ GoOn([st EXCEPT !.pc = st.then, !.ps = "NONE"])
  /\ UNCHANGED <<out, client, disk, open, said, spoilt, bounds>>

\* Data that comes without the acknowledgement is not read, and not kept.
NotYet ==
  /\ Running("sending")
  /\ "acked" \notin cb.flags
  /\ spoilt' = IF "newdata" \in cb.flags THEN spoilt \cup {"sending"} ELSE spoilt
  /\ Wait(st)
  /\ UNCHANGED <<out, client, disk, bounds>>

-----------------------------------------------------------------------------
(* handle_connection(): the head of a request.                              *)

\* Wrong on purpose: the wish for a 100 is left from the request before.
ResetKeepsExpect(s) ==
  [s EXCEPT !.pc = "header", !.len = -1, !.handler = "none", !.form = FALSE,
            !.fd = FALSE, !.code = 0]

Reset(s) ==
  [s EXCEPT !.pc = "header", !.expect = FALSE, !.len = -1, !.handler = "none",
            !.form = FALSE, !.fd = FALSE, !.code = 0]

Top ==
  /\ Running("top")
  /\ GoOn(Reset(st))
  /\ UNCHANGED <<out, client, disk, open, said, spoilt, bounds>>

\* psock_readto() runs out of data.
ReadMore ==
  /\ Running("header") /\ st.rd = <<>>
  /\ IF NewData
     THEN /\ GoOn([st EXCEPT !.rd = cb.data, !.ps = "READ"])
          /\ UNCHANGED <<open, said>>
     ELSE Wait(st)
  /\ UNCHANGED <<out, client, disk, spoilt, bounds>>

\* How many buffers there are to read: of a file, which may be empty; of the page
\* or a listing in memory, which never is.  A directory that does not exist has
\* a listing as well.
FileSource == Chunks
MemSource == Chunks \ {0}
ListingSource == MemSource

\* parse_get(), query_dir(): the source is opened while the head is read, or the
\* request refused.
ParseGet(s, line) ==
  \/ \E n \in IF line = "DIR" THEN ListingSource ELSE FileSource \cup MemSource :
       /\ GoOn([s EXCEPT !.src = n, !.handler = "get"])
       /\ open' = [open EXCEPT !.src = @ + 1]
  \/ /\ GoOn([s EXCEPT !.src = -1, !.handler = "none", !.code = 400])
     /\ UNCHANGED open

\* query_newfolder(): the folder is made at once, or cannot be.
FolderCodes == {400, 1200}

QueryNewfolder(s) ==
  \E c \in FolderCodes :
    GoOn([s EXCEPT !.handler = "none", !.code = c]) /\ UNCHANGED open

\* parse_post(), parse_delete(), query_run() and the header fields.
Parsed(s, line) ==
  CASE line = "PUT"            -> [s EXCEPT !.handler = "post"]
    [] line = "DELETE"         -> [s EXCEPT !.handler = "delete"]
    [] line = "RUN"            -> [s EXCEPT !.handler = "run"]
    [] line = "Content-Length" -> [s EXCEPT !.len = BodyLen]
    [] line = "Expect"         -> [s EXCEPT !.expect = TRUE]
    [] line = "urlencoded"     -> [s EXCEPT !.form = TRUE]

\* psock_readto() finds the end of a line.  Bytes of a body that nobody read
\* are the beginning of the next line, which is then no line the server knows.
ReadLine ==
  /\ Running("header") /\ st.rd # <<>>
  /\ LET line == Head(st.rd)
         s == [st EXCEPT !.rd = Tail(@), !.junk = line \in Bytes]
     IN  IF line \in Bytes \/ st.junk THEN GoOn(s) /\ UNCHANGED open
         ELSE CASE line = "end"             -> GoOn([s EXCEPT !.pc = "continue"])
                                               /\ UNCHANGED open
                [] line \in {"GET", "DIR"}  -> ParseGet(s, line)
                [] line = "NEWFOLDER"       -> QueryNewfolder(s)
                [] OTHER                    -> GoOn(Parsed(s, line)) /\ UNCHANGED open
  /\ UNCHANGED <<out, client, disk, said, spoilt, bounds>>

Continue ==
  /\ Running("continue")
  /\ IF st.expect
     THEN Send(st, "100", FALSE, "dispatch")
     ELSE GoOn([st EXCEPT !.pc = "dispatch"]) /\ UNCHANGED <<out, open, said, spoilt>>
  /\ UNCHANGED <<client, disk, bounds>>

-----------------------------------------------------------------------------
(* The handlers.                                                            *)

Result(s, code) == [s EXCEPT !.pc = "result", !.code = code]

Fault == faults < MaxFaults /\ faults' = faults + 1

\* handle_post() and the opening of receive_file().
Post ==
  /\ Running("dispatch") /\ st.handler = "post"
  /\ \/ /\ st.len >= 0 /\ ~st.form
        /\ GoOn([st EXCEPT !.pc = "receive", !.fd = TRUE, !.left = st.len, !.buf = <<>>])
        /\ disk' = <<>>
        /\ open' = [open EXCEPT !.fd = @ + 1]
        /\ UNCHANGED <<spoilt, faults>>
     \/ /\ \/ st.len = -1 /\ GoOn(Result(st, 411)) /\ UNCHANGED faults
           \/ st.len >= 0 /\ st.form /\ GoOn(Result(st, 401)) /\ UNCHANGED faults
           \/ st.len >= 0 /\ ~st.form /\ Fault /\ GoOn(Result(st, 400))
        /\ spoilt' = spoilt \cup {"left"}
        /\ UNCHANGED <<disk, open>>
  /\ UNCHANGED <<out, client, said, asks, conns>>

\* Wrong on purpose: the buffer never fills.
RoomAny == BodyLen + Len(Lines("put"))

\* buf_setup() and buf_bufdata(): what the buffer still takes.
Room == BufSize - Len(st.buf)

\* psock_readbuf_len(): all there is goes into the buffer, however little is
\* asked for; it ends with a full buffer, with enough, or when the client closes.
ReadBody ==
  /\ Running("receive") /\ st.left > 0
  /\ IF st.rd = <<>> /\ ~NewData /\ "closed" \notin cb.flags
     THEN Wait(st)
     ELSE LET from == IF st.rd = <<>> THEN cb.data ELSE st.rd
              n == IF Len(from) < Room THEN Len(from) ELSE Room
              buf == st.buf \o SubSeq(from, 1, n)
              asked == IF st.left > BufSize THEN BufSize ELSE st.left
          IN  /\ GoOn([st EXCEPT !.rd = SubSeq(from, n + 1, Len(from)), !.buf = buf,
                        !.ps = IF st.rd = <<>> THEN "READ" ELSE @,
                        !.pc = IF Len(buf) = BufSize \/ Len(buf) >= asked \/ "closed" \in cb.flags
                               THEN "write" ELSE "receive"])
              /\ UNCHANGED <<open, said>>
  /\ UNCHANGED <<out, client, disk, spoilt, bounds>>

\* Fwrite(), and what it leaves to be received.
Write ==
  /\ Running("write")
  /\ LET n == Len(st.buf)
         failed == /\ GoOn([Result(st, 500) EXCEPT !.fd = FALSE, !.buf = <<>>])
                   /\ open' = [open EXCEPT !.fd = @ - 1]
     IN  \/ /\ disk' = disk \o st.buf
            /\ IF "closed" \in cb.flags
               THEN failed
               ELSE /\ GoOn([st EXCEPT !.pc = "receive", !.buf = <<>>,
                              !.left = IF n > @ THEN Wrapped ELSE @ - n])
                    /\ UNCHANGED open
            /\ UNCHANGED faults
         \/ Fault /\ failed /\ UNCHANGED disk
  /\ UNCHANGED <<out, client, said, spoilt, asks, conns>>

Received ==
  /\ Running("receive") /\ st.left = 0
  /\ GoOn([Result(st, 201) EXCEPT !.fd = FALSE])
  /\ open' = [open EXCEPT !.fd = @ - 1]
  /\ UNCHANGED <<out, client, disk, said, spoilt, bounds>>

\* handle_get(): reads and sends until nothing is read.  The first read follows
\* the response's head in the same buffer; when it reads nothing, or fails, the
\* head is not sent either.  A later read that fails puts a second response
\* into the middle of the file.
Get ==
  /\ Running("dispatch") /\ st.handler = "get"
  /\ \/ /\ st.src > 0
        /\ Send([st EXCEPT !.src = @ - 1, !.begun = TRUE], "data", st.src > 1, "dispatch")
        /\ UNCHANGED faults
     \/ /\ GoOn([Result(st, IF st.src = 0 THEN 0 ELSE 400) EXCEPT !.src = -1, !.begun = FALSE])
        /\ IF st.src = 0 THEN UNCHANGED faults ELSE Fault
        /\ open' = [open EXCEPT !.src = @ - 1]
        /\ spoilt' = spoilt \cup (IF st.src = 0 /\ ~st.begun THEN {"empty"}
                                  ELSE IF st.src > 0 /\ st.begun THEN {"read"} ELSE {})
        /\ UNCHANGED <<out, said>>
  /\ UNCHANGED <<client, disk, asks, conns>>

\* handle_delete(), and requests that have no handler.
Delete ==
  /\ Running("dispatch") /\ st.handler \in {"delete", "none"}
  /\ \E code \in IF st.handler = "none" THEN {st.code} ELSE {200, 400} : GoOn(Result(st, code))
  /\ UNCHANGED <<out, client, disk, open, said, spoilt, bounds>>

\* Wrong on purpose: the program is to be run before the client is told.
RunAtOnce ==
  /\ Running("dispatch") /\ st.handler = "run"
  /\ Send([st EXCEPT !.idle = TRUE], "200 run", FALSE, "runs")
  /\ UNCHANGED <<client, disk, bounds>>

\* handle_run(): no such file, a bad path, or the answer.
Run ==
  /\ Running("dispatch") /\ st.handler = "run"
  /\ \/ /\ \E code \in {400, 1404} : GoOn(Result(st, code))
        /\ UNCHANGED <<out, open, said, spoilt>>
     \/ Send(st, "200 run", FALSE, "runs")
  /\ UNCHANGED <<client, disk, bounds>>

\* uip_close() replaces every flag of the callback.
Close(s) ==
  /\ st' = s
  /\ cb' = [cb EXCEPT !.flags = (@ \cap {"closed", "idle"}) \cup {"close"}]
  /\ UNCHANGED conn

Runs ==
  /\ Running("runs")
  /\ Close([st EXCEPT !.pc = "result", !.idle = TRUE])
  /\ UNCHANGED <<out, client, disk, open, said, spoilt, bounds>>

-----------------------------------------------------------------------------
(* handle_connection(): the result.                                         *)

\* Wrong on purpose: a response is missing.
ResponsesFew == {200, 201, 411, 500, 1200, 1404}

\* http_responses[] has no entry for 401.
Responses == {200, 201, 400, 411, 500, 1200, 1404}

Response(code) ==
  CASE code = 200 -> "200" [] code = 201 -> "201" [] code = 400 -> "400" [] code = 411 -> "411"
    [] code = 500 -> "500" [] code = 1200 -> "1200" [] code = 1404 -> "1404"

\* A code with no response is answered with the string of the answer before.
Answer ==
  /\ Running("result") /\ st.code # 0
  /\ LET str == IF st.code \in Responses THEN st.code ELSE st.str
     IN  IF str = 0
         THEN GoOn([st EXCEPT !.pc = "answered"]) /\ UNCHANGED <<out, open, said, spoilt>>
         ELSE Send([st EXCEPT !.str = str], Response(str), FALSE, "answered")
  /\ UNCHANGED <<client, disk, bounds>>

\* What is asked for next is read only where the code is below 500.
Next200 ==
  /\ \/ Running("result") /\ st.code = 0
     \/ Running("answered") /\ st.code < 500
  /\ GoOn([st EXCEPT !.pc = "top", !.code = 0])
  /\ UNCHANGED <<out, client, disk, open, said, spoilt, bounds>>

\* PSOCK_CLOSE_EXIT(): the thread would begin anew.
CloseExit ==
  /\ Running("answered") /\ st.code >= 500
  /\ Close([st EXCEPT !.pc = "exit"])
  /\ UNCHANGED <<out, client, disk, open, said, spoilt, bounds>>

Exit ==
  /\ Running("exit")
  /\ Wait([st EXCEPT !.pc = "top"])
  /\ UNCHANGED <<out, client, disk, spoilt, bounds>>

-----------------------------------------------------------------------------
(* uIP: the callbacks, and the end of the connection.                       *)

IdleFlag == IF st # Null /\ st.idle THEN {"idle"} ELSE {}

Connect ==
  /\ conn = "closed" /\ cb = Idle /\ conns < MaxConns /\ client.pending = "none"
  /\ conns' = conns + 1
  /\ conn' = "syn"
  /\ client' = [pending |-> "none", queue |-> <<>>, holds |-> FALSE, fin |-> FALSE]
  /\ spoilt' = IF st = Null THEN {} ELSE spoilt
  /\ UNCHANGED <<st, cb, out, disk, open, said, asks, faults>>

\* The CONNECTED callback only allocates the state: data that comes with it, in
\* place of a lost first acknowledgement, is lost.  Where uIP has dropped an
\* earlier connection without a word, its state is still there and goes on.
Accept(k) ==
  /\ conn = "syn" /\ cb = Idle
  /\ conn' = "open"
  /\ client' = [client EXCEPT !.queue = SubSeq(@, k + 1, Len(@))]
  /\ IF st = Null
     THEN /\ st' = Alloc
          /\ spoilt' = IF k > 0 THEN spoilt \cup {"first"} ELSE spoilt
          /\ UNCHANGED cb
     ELSE /\ cb' = [flags |-> IdleFlag \cup (IF k > 0 THEN {"newdata"} ELSE {}),
                    data |-> SubSeq(client.queue, 1, k), live |-> TRUE]
          /\ UNCHANGED <<st, spoilt>>
  /\ UNCHANGED <<out, disk, open, said, bounds>>

\* A segment: k units of data, with the acknowledgement of the reply or without
\* it, with the client's FIN or without it.  uIP refuses a FIN that leaves its
\* own data outstanding.
Deliver(k, acks, fin) ==
  /\ conn = "open" /\ cb = Idle /\ (k > 0 \/ acks \/ fin)
  /\ acks => out # Null
  /\ out # Null => /\ acks => out.received
                   /\ (out.received /\ k > 0) => acks
                   /\ fin => acks
  /\ fin => client.fin /\ k = Len(client.queue)
  /\ cb' = [flags |-> IdleFlag \cup (IF k > 0 THEN {"newdata"} ELSE {})
                        \cup (IF acks THEN {"acked"} ELSE {})
                        \cup (IF fin THEN {"closed"} ELSE {}),
            data |-> SubSeq(client.queue, 1, k), live |-> TRUE]
  /\ client' = [client EXCEPT !.queue = SubSeq(@, k + 1, Len(@))]
  /\ out' = IF acks THEN Null ELSE out
  /\ UNCHANGED <<conn, st, disk, open, said, spoilt, bounds>>

\* The client's FIN after the server's: in FIN_WAIT data is dropped.
CloseFin ==
  /\ conn = "fin" /\ cb = Idle /\ client.fin
  /\ cb' = [flags |-> IdleFlag \cup {"closed"}, data |-> <<>>, live |-> TRUE]
  /\ client' = [client EXCEPT !.queue = <<>>]
  /\ UNCHANGED <<conn, st, out, disk, open, said, spoilt, bounds>>

\* A reset, or too many retransmissions: the thread is not run.
Broken ==
  /\ conn # "closed" /\ cb = Idle
  /\ conn' = "closed" /\ out' = Null /\ st' = Null
  /\ client' = [client EXCEPT !.queue = <<>>, !.holds = FALSE]
  /\ IF st = Null THEN UNCHANGED <<open, said>> ELSE Release(st.idle)
  /\ UNCHANGED <<cb, disk, spoilt, bounds>>

\* FIN_WAIT_2 ends without a callback.
Forgotten ==
  /\ conn = "fin" /\ cb = Idle
  /\ conn' = "closed"
  /\ client' = [client EXCEPT !.queue = <<>>]
  /\ UNCHANGED <<st, cb, out, disk, open, said, spoilt, bounds>>

-----------------------------------------------------------------------------
Init ==
  /\ conn = "closed" /\ st = Null /\ cb = Idle /\ out = Null
  /\ client = [pending |-> "none", queue |-> <<>>, holds |-> FALSE, fin |-> FALSE]
  /\ disk = <<>> /\ open = [fd |-> 0, src |-> 0] /\ said = [told |-> 0, ran |-> 0]
  /\ spoilt = {} /\ asks = 0 /\ conns = 0 /\ faults = 0

Thread ==
  \/ Sent \/ NotYet \/ Top \/ ReadMore \/ ReadLine \/ Continue
  \/ Post \/ ReadBody \/ Write \/ Received \/ Get \/ Delete \/ Run \/ Runs
  \/ Answer \/ Next200 \/ CloseExit \/ Exit

Accepts == \E k \in 0..Len(client.queue) : Accept(k)
Delivers == \E k \in 0..Len(client.queue), a, f \in BOOLEAN : Deliver(k, a, f)

Next ==
  \/ \E r \in Requests : Ask(r)
  \/ SendBody \/ Receive \/ HangUp \/ SeeClosed
  \/ Thread
  \/ Connect \/ Accepts \/ Delivers \/ CloseFin \/ Broken \/ Forgotten

Spec == Init /\ [][Next]_vars

\* The thread runs until it waits; TCP repeats a segment until it arrives.  The
\* client need not ask, hold back its body for ever, nor close.
FairSpec ==
  /\ Spec
  /\ WF_vars(Thread) /\ WF_vars(Accepts) /\ WF_vars(Delivers) /\ WF_vars(CloseFin)
  /\ WF_vars(Receive) /\ WF_vars(SeeClosed)

-----------------------------------------------------------------------------
(* Properties.                                                              *)

Tokens == LineTokens \cup Bytes
Codes == {"100", "200", "201", "400", "411", "500", "1200", "1404", "200 run", "data"}

\* The state's fields keep their ranges; a thread runs only where there is a
\* state for it, and what is left of an upload never goes below zero.
TypeOK ==
  /\ conn \in {"closed", "syn", "open", "fin"}
  /\ cb.live => st # Null
  /\ cb.flags \subseteq {"newdata", "acked", "closed", "close", "idle"}
  /\ cb.data \in Seq(Tokens)
  /\ out # Null => out.code \in Codes /\ conn = "open"
  /\ client.pending \in Requests \cup {"none"} /\ client.queue \in Seq(Tokens)
  /\ st # Null => /\ st.left \in 0..BodyLen /\ st.len \in {-1, BodyLen}
                  /\ Len(st.buf) <= BufSize /\ st.rd \in Seq(Tokens)
                  /\ st.handler \in {"none", "post", "get", "delete", "run"}
                  /\ st.code \in Responses \cup {0, 401}
                  /\ st.str \in Responses \cup {0}

\* "201 Created" is sent only when the file holds what the client sent: every
\* unit, once and in order, whatever segments it came in.
CreatedIsStored ==
  (out # Null /\ out.code = "201" /\ ~out.received) =>
     disk = Body \/ client.pending = "putform" \/ "stale" \in spoilt

\* Every open file handle and data source is in the state, where the end of
\* the connection finds it; without a state nothing is open.
NothingLeftOpen ==
  open = IF st = Null THEN [fd |-> 0, src |-> 0]
         ELSE [fd |-> IF st.fd THEN 1 ELSE 0, src |-> IF st.src >= 0 THEN 1 ELSE 0]

\* A reply belongs to the request the client waits for: no reply of an earlier
\* request, or of an earlier connection, and none to a request never made.  (A
\* form is the exception: it is answered with the string of the answer before.)
RepliesInTurn ==
  (out # Null /\ ~out.received /\ client.pending # "putform") =>
     CASE out.code = "100"     -> client.pending = "putexpect"
       [] out.code = "201"     -> client.pending \in Uploads
       [] out.code = "data"    -> client.pending \in {"get", "dir"}
       [] out.code = "200 run" -> client.pending = "run"
       [] out.code = "1200"    -> client.pending = "newfolder"
       [] OTHER                -> client.pending # "none"

\* A program is started only for a client that was told so, once each time.
RunOnce == said.ran <= said.told

\* A request is answered, or the client sees the connection closed.
AnswersAll ==
  (client.pending # "none" /\ ~client.holds /\ spoilt = {})
     ~> (client.pending = "none" \/ client.holds \/ spoilt # {})
=============================================================================
