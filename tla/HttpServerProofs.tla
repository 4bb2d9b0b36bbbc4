---------------------------- MODULE HttpServerProofs ----------------------------
(***************************************************************************)
(* That the HTTP server answers each request as it should, stores what it  *)
(* was sent and leaves nothing open: for uploads of any length, buffers of *)
(* any size, any number of requests, connections and faults, and a network *)
(* that cuts the stream into segments wherever it likes.                   *)
(***************************************************************************)
EXTENDS HttpServer, SequenceTheorems, TLAPS

-----------------------------------------------------------------------------
(* What is still to be read.                                                *)

Pcs == {"top", "header", "continue", "dispatch", "receive", "write", "result",
        "answered", "runs", "exit", "sending"}
Flags == {"newdata", "acked", "closed", "close", "idle"}

Handlers == {"none", "post", "get", "delete", "run"}
Results == Responses \cup {0, 401}
Strings == Responses \cup {0}
Lengths == {-1, BodyLen}
Lefts == 0..BodyLen
Readings == {"NONE", "READ", "BLOCKED", "SENT"}
Texts == Seq(Tokens)

States ==
  [pc : Pcs, then : Pcs, handler : Handlers, code : Results, str : Strings, len : Lengths,
   expect : BOOLEAN, form : BOOLEAN, fd : BOOLEAN, src : Int, left : Lefts, begun : BOOLEAN,
   ps : Readings, rd : Texts, buf : Texts, junk : BOOLEAN, idle : BOOLEAN]

Callbacks == [flags : SUBSET Flags, data : Seq(Tokens), live : BOOLEAN]
Replies == [code : Codes, more : BOOLEAN, received : BOOLEAN]
ClientSet == [pending : Requests \cup {"none"}, queue : Seq(Tokens), holds : BOOLEAN, fin : BOOLEAN]

Typed ==
  /\ conn \in {"closed", "syn", "open", "fin"}
  /\ st = Null \/ st \in States
  /\ cb \in Callbacks /\ (~cb.live => cb = Idle)
  /\ out = Null \/ out \in Replies
  /\ client \in ClientSet /\ disk \in Seq(Tokens)
  /\ open \in [fd : Int, src : Int] /\ said \in [told : Nat, ran : Nat]
  /\ st # Null => Len(st.buf) <= BufSize /\ -1 <= st.src

\* The data of the callback, as long as psock_newdata() says that there are any.
Unread(s, c) == IF "newdata" \in c.flags /\ s.ps # "READ" THEN c.data ELSE <<>>

\* What the thread will read: the rest of a segment, the segment of the callback, and
\* what is not yet sent.
Stream(s, c, q) == (s.rd \o Unread(s, c)) \o q

\* What the client will still send of itself.
Held(holds) == IF holds THEN BodyLen ELSE 0

Of(p) == IF p = "none" THEN {} ELSE {Lines(p)[i] : i \in 1..Len(Lines(p))}

\* There is no line in it.
Quiet(s) == \A i \in 1..Len(s) : s[i] \in Bytes

\* The head of the request p, or what is left of it, is all that there is of lines; and
\* behind its end there is no more than its body.
Belongs(s, p) == \A i \in 1..Len(s) : s[i] \in Bytes \cup Of(p)
InOrder(s) == \A i, j \in 1..Len(s) :
  i < j /\ s[i] \notin Bytes => s[j] # s[i] /\ (s[i] = "end" => s[j] \in Bytes)
BodyLast(s, h) == \A e \in 1..Len(s) :
  s[e] = "end" => /\ Len(s) - e + h <= BodyLen
                  /\ Len(s) - e + h = BodyLen => \A i \in 1..(Len(s) - e) : s[e + i] = Body[i]
OneRequest(s, p, h) == Belongs(s, p) /\ InOrder(s) /\ BodyLast(s, h)

-----------------------------------------------------------------------------
(* The inductive invariant.  s is the state, c the callback, o the reply that  *)
(* is outstanding, p the request that the client waits for.                    *)

Acknowledged(o) == o = Null \/ o.received

\* The last of a file has been sent.
AllSent(s) == s.begun /\ s.src = 0

\* From the end of the head to the last reply: the client waits.
Serving(s, o) ==
  \/ s.pc \in {"continue", "receive", "write"}
  \/ s.pc = "dispatch" /\ ~AllSent(s)
  \/ s.pc = "result" /\ s.code # 0
  \/ s.pc = "sending" /\ ~Acknowledged(o)
  \/ s.pc = "sending" /\ s.then = "dispatch" /\ ~AllSent(s)

\* What was read of a request is of the request that the client waits for.
Matches(s, p) ==
  /\ s.handler = "post" => p \in Uploads
  /\ s.handler = "get" => p \in {"get", "dir"}
  /\ s.handler = "delete" => p = "delete"
  /\ s.handler = "run" => p = "run"
  /\ s.expect => p = "putexpect"
  /\ s.form => p = "putform"
  /\ s.code = 401 => p = "putform"
  /\ s.code = 201 => p \in Uploads
  /\ s.code = 1200 => p = "newfolder"
  /\ s.code # 0 => p # "none"

\* A head of which nothing has been read.
Fresh(s) ==
  /\ s.handler = "none" /\ ~s.expect /\ ~s.form /\ s.code = 0 /\ s.len = -1

\* Nothing is open, nothing is left to read but what nobody wanted.
Parked(s, o) ==
  /\ s.pc \in {"top", "header"} /\ (s.pc = "header" => Fresh(s))
  /\ Quiet(s.rd) /\ s.src = -1 /\ ~s.fd /\ o = Null

\* uip_close() was called in this callback.
Closing(s, c, o) ==
  "close" \in c.flags =>
    /\ "newdata" \notin c.flags
    /\ \/ Parked(s, o)
       \/ s.pc \in {"result", "exit"} /\ (s.pc = "result" => s.code = 0) /\ Quiet(s.rd)
          /\ s.src = -1 /\ ~s.fd /\ o = Null

Connection(cn, s, c, o) ==
  /\ c.live => cn \in {"open", "fin"}
  /\ cn # "open" => Parked(s, o) /\ "newdata" \notin c.flags
  /\ Closing(s, c, o)
  /\ ~c.live => s.pc \in {"top", "header", "receive", "sending"} /\ s.ps # "READ"
  /\ o # Null => s.pc = "sending"
  /\ s.pc = "sending" => /\ s.ps # "READ" /\ s.then \in {"dispatch", "answered", "runs"}
                         /\ ~c.live => o # Null
                         /\ c.live => ("acked" \in c.flags <=> o = Null)
  /\ "closed" \in c.flags => o = Null

\* What is open, and where the source of a reply is.
Sources(s, op) ==
  /\ op.fd = (IF s.fd THEN 1 ELSE 0) /\ op.src = (IF s.src >= 0 THEN 1 ELSE 0)
  /\ s.fd <=> s.pc \in {"receive", "write"}
  /\ s.fd => s.handler = "post"
  /\ s.src >= 0 => /\ s.handler = "get" /\ s.pc \in {"header", "continue", "dispatch", "sending"}
                   /\ (s.pc = "sending" => s.then = "dispatch")
  /\ s.handler = "get" /\ (\/ s.pc \in {"header", "continue", "dispatch"}
                           \/ s.pc = "sending" /\ s.then = "dispatch") => s.src >= 0
  /\ s.begun => s.src >= 0 /\ s.pc \in {"dispatch", "sending"}

\* A FIN makes psock_readbuf_len() read what it has read before: what follows is an error.
Overread(s, c) == /\ "closed" \in c.flags
                  /\ (s.pc = "write" \/ (s.pc = "result" /\ s.code = 500))

\* What the lines of a head have made of the result.
Known(s, p) ==
  s.code \in {0, 400, 1200} /\ (s.code # 0 => p \in {"get", "dir", "newfolder"})

\* What the result can be before a handler has run, and after a program was promised.
Undecided(s) ==
  /\ (s.pc \in {"header", "continue", "dispatch"} \/ (s.pc = "sending" /\ s.then = "dispatch")) =>
        s.code \in {0, 400, 1200} /\ (s.handler = "run" => s.code = 0)
  /\ (s.pc = "runs" \/ (s.pc = "sending" /\ s.then = "runs")) => s.code = 0

\* The request in hand.
InHand(s, c, o, p, q) ==
  /\ s.pc # "header" => Quiet(s.rd) \/ Overread(s, c)
  /\ Serving(s, o) => p # "none" /\ Matches(s, p) /\ (Quiet(Stream(s, c, q)) \/ Overread(s, c))
  /\ s.pc = "header" => Matches(s, p) /\ Known(s, p)
  /\ Undecided(s)
  /\ s.pc = "header" /\ s.src >= 0 =>
       \A i \in 1..Len(Stream(s, c, q)) : Stream(s, c, q)[i] \notin {"GET", "DIR"}

\* The reply.
ReplyFits(s, o, p) ==
  o # Null =>
    /\ (~o.received /\ p # "putform") => CASE o.code = "100"     -> p = "putexpect"
                        [] o.code = "201"     -> p \in Uploads
                        [] o.code = "data"    -> p \in {"get", "dir"}
                        [] o.code = "200 run" -> p = "run"
                        [] o.code = "1200"    -> p = "newfolder"
                        [] OTHER              -> p # "none"
    /\ s.then = "dispatch" => \/ o.code = "100" /\ ~s.begun
                              \/ o.code = "data" /\ s.begun /\ (o.more <=> s.src > 0)
    /\ s.then # "dispatch" => o.code \notin {"100", "data"} /\ ~o.more
    /\ s.then = "runs" <=> o.code = "200 run"
    /\ o.code = "100" => ~o.more

\* The body: what is stored, what is in the buffer, what is to be read and what the client
\* holds back is no more than the body, and if it is as much, and nothing of it lay too
\* long in uip_buf, it is the body.
Follows(d, s, h, sp) ==
  /\ Len(d) + Len(s) + h <= BodyLen
  /\ Len(d) + Len(s) + h = BodyLen /\ "stale" \notin sp =>
       /\ \A i \in 1..Len(d) : d[i] = Body[i]
       /\ \A i \in 1..Len(s) : s[i] = Body[Len(d) + i]

Uploaded(s, c, o, cl, d, sp) ==
  LET stream == Stream(s, c, cl.queue)
  IN
  /\ (\/ s.pc = "continue"
      \/ s.pc = "dispatch" /\ ~AllSent(s)
      \/ s.pc = "sending" /\ s.then = "dispatch" /\ ~AllSent(s)) =>
        Follows(<<>>, stream, Held(cl.holds), sp)
  /\ s.pc = "receive" => s.left = BodyLen - Len(d) /\ Follows(d \o s.buf, stream, Held(cl.holds), sp)
                         /\ Len(s.buf) < BufSize
  /\ s.pc = "write" /\ "closed" \notin c.flags =>
       s.left = BodyLen - Len(d) /\ Follows(d \o s.buf, stream, Held(cl.holds), sp)
  /\ s.pc = "result" /\ s.code = 201 => d = Body \/ "stale" \in sp
  /\ s.pc = "sending" /\ s.rd # <<>> => "stale" \in sp
  /\ (~Acknowledged(o) /\ o.code = "201") => d = Body \/ cl.pending = "putform" \/ "stale" \in sp

\* Programs: those that ran, those that will, and those that clients were told of.
One(b) == IF b THEN 1 ELSE 0
Started(s, o) == s.pc = "runs" \/ (s.pc = "sending" /\ s.then = "runs" /\ Acknowledged(o))

HttpInv ==
  /\ Typed
  /\ conn \in {"closed", "syn"} => ~cb.live
  /\ client.holds => client.pending \in {"none", "putexpect"}
  /\ st = Null => /\ conn \in {"closed", "syn"} /\ out = Null /\ ~cb.live
                  /\ open.fd = 0 /\ open.src = 0 /\ said.ran <= said.told
                  /\ conn = "syn" => OneRequest(client.queue, client.pending, Held(client.holds))
  /\ st # Null =>
       /\ Connection(conn, st, cb, out) /\ Sources(st, open)
       /\ InHand(st, cb, out, client.pending, client.queue)
       /\ ReplyFits(st, out, client.pending)
       /\ Uploaded(st, cb, out, client, disk, spoilt)
       /\ ("idle" \in cb.flags => st.idle)
       /\ said.ran + One(st.idle) + One(Started(st, out)) <= said.told
       /\ conn \in {"syn", "open"} /\ ~Overread(st, cb) =>
            OneRequest(Stream(st, cb, client.queue), client.pending, Held(client.holds))

-----------------------------------------------------------------------------
(* Sequences.                                                               *)

\* t is s without its first k.
Without(t, s, k) == Len(t) = Len(s) - k /\ \A i \in 1..Len(t) : t[i] = s[k + i]

LEMMA WithoutFirst ==
  ASSUME NEW T, NEW s \in Seq(T), NEW k \in 0..Len(s)
  PROVE  /\ SubSeq(s, k + 1, Len(s)) \in Seq(T) /\ Without(SubSeq(s, k + 1, Len(s)), s, k)
         /\ SubSeq(s, 1, k) \in Seq(T) /\ Len(SubSeq(s, 1, k)) = k
         /\ \A i \in 1..k : SubSeq(s, 1, k)[i] = s[i]
<1>1. Len(s) \in Nat /\ \A i \in 1..Len(s) : s[i] \in T
  OBVIOUS
<1>2. k \in Nat /\ k =< Len(s)
  BY <1>1
<1>3. \A i \in (k + 1)..Len(s) : s[i] \in T
  BY <1>1, <1>2
<1>4. /\ SubSeq(s, k + 1, Len(s)) \in Seq(T)
      /\ Len(SubSeq(s, k + 1, Len(s))) = IF k + 1 =< Len(s) THEN Len(s) - (k + 1) + 1 ELSE 0
      /\ \A i \in 1..(Len(s) - (k + 1) + 1) : SubSeq(s, k + 1, Len(s))[i] = s[(k + 1) + i - 1]
  BY <1>1, <1>2, <1>3, SubSeqProperties
<1>5. \A i \in 1..k : s[i] \in T
  BY <1>1, <1>2
<1>6. /\ SubSeq(s, 1, k) \in Seq(T)
      /\ Len(SubSeq(s, 1, k)) = IF 1 =< k THEN k - 1 + 1 ELSE 0
      /\ \A i \in 1..(k - 1 + 1) : SubSeq(s, 1, k)[i] = s[1 + i - 1]
  BY <1>2, <1>5, SubSeqProperties
<1>7. Len(SubSeq(s, k + 1, Len(s))) = Len(s) - k
  BY <1>1, <1>2, <1>4
<1>8. ASSUME NEW i \in 1..(Len(s) - k) PROVE SubSeq(s, k + 1, Len(s))[i] = s[k + i]
  <2>1. i \in 1..(Len(s) - (k + 1) + 1) /\ (k + 1) + i - 1 = k + i
    BY <1>1, <1>2
  <2> QED BY <1>4, <2>1
<1>9. ASSUME NEW i \in 1..k PROVE SubSeq(s, 1, k)[i] = s[i]
  <2>1. i \in 1..(k - 1 + 1) /\ 1 + i - 1 = i
    BY <1>2
  <2> QED BY <1>6, <2>1
<1>10. Len(SubSeq(s, 1, k)) = k
  BY <1>2, <1>6
<1> QED BY <1>4, <1>6, <1>7, <1>8, <1>9, <1>10 DEF Without

\* Three pieces and what is left when the first loses its beginning.
LEMMA Pieces ==
  ASSUME NEW T, NEW a \in Seq(T), NEW b \in Seq(T), NEW q \in Seq(T)
  PROVE  /\ (a \o b) \o q \in Seq(T)
         /\ Len((a \o b) \o q) = Len(a) + Len(b) + Len(q)
         /\ \A i \in 1..Len(a) : ((a \o b) \o q)[i] = a[i]
         /\ \A i \in 1..Len(b) : ((a \o b) \o q)[Len(a) + i] = b[i]
         /\ \A i \in 1..Len(q) : ((a \o b) \o q)[Len(a) + Len(b) + i] = q[i]
<1>1. Len(a) \in Nat /\ Len(b) \in Nat /\ Len(q) \in Nat
  OBVIOUS
<1>2. /\ a \o b \in Seq(T) /\ Len(a \o b) = Len(a) + Len(b)
      /\ \A i \in 1..(Len(a) + Len(b)) : (a \o b)[i] = IF i =< Len(a) THEN a[i] ELSE b[i - Len(a)]
  BY ConcatProperties
<1>3. PICK x \in Seq(T) : x = a \o b
  BY <1>2
<1>4. /\ x \o q \in Seq(T) /\ Len(x \o q) = Len(x) + Len(q)
      /\ \A i \in 1..(Len(x) + Len(q)) : (x \o q)[i] = IF i =< Len(x) THEN x[i] ELSE q[i - Len(x)]
  BY ConcatProperties
<1>5. ASSUME NEW i \in 1..Len(a) PROVE (x \o q)[i] = a[i]
  <2>1. i \in 1..(Len(a) + Len(b)) /\ i \in 1..(Len(x) + Len(q)) /\ i =< Len(x)
    BY <1>1, <1>2, <1>3
  <2> QED BY <1>2, <1>3, <1>4, <2>1
<1>6. ASSUME NEW i \in 1..Len(b) PROVE (x \o q)[Len(a) + i] = b[i]
  <2>1. /\ Len(a) + i \in 1..(Len(a) + Len(b)) /\ Len(a) + i \in 1..(Len(x) + Len(q))
        /\ Len(a) + i =< Len(x) /\ ~(Len(a) + i =< Len(a)) /\ (Len(a) + i) - Len(a) = i
    BY <1>1, <1>2, <1>3
  <2> QED BY <1>2, <1>3, <1>4, <2>1
<1>7. ASSUME NEW i \in 1..Len(q) PROVE (x \o q)[Len(a) + Len(b) + i] = q[i]
  <2>1. /\ Len(a) + Len(b) + i \in 1..(Len(x) + Len(q))
        /\ ~(Len(a) + Len(b) + i =< Len(x)) /\ (Len(a) + Len(b) + i) - Len(x) = i
    BY <1>1, <1>2, <1>3
  <2> QED BY <1>4, <2>1
<1> QED BY <1>2, <1>3, <1>4, <1>5, <1>6, <1>7

LEMMA PiecesWithout ==
  ASSUME NEW T, NEW a \in Seq(T), NEW a2 \in Seq(T), NEW b \in Seq(T), NEW q \in Seq(T),
         NEW k \in 0..Len(a), Without(a2, a, k)
  PROVE  Without((a2 \o b) \o q, (a \o b) \o q, k)
<1>1. /\ Len(a) \in Nat /\ Len(a2) \in Nat /\ Len(b) \in Nat /\ Len(q) \in Nat
      /\ Len(a2) = Len(a) - k /\ k \in Nat
  BY DEF Without
<1>2. PICK x : x = (a \o b) \o q
  OBVIOUS
<1>3. PICK y : y = (a2 \o b) \o q
  OBVIOUS
<1>4. /\ Len(x) = Len(a) + Len(b) + Len(q)
      /\ \A i \in 1..Len(a) : x[i] = a[i]
      /\ \A i \in 1..Len(b) : x[Len(a) + i] = b[i]
      /\ \A i \in 1..Len(q) : x[Len(a) + Len(b) + i] = q[i]
  BY <1>2, Pieces
<1>5. /\ Len(y) = Len(a2) + Len(b) + Len(q)
      /\ \A i \in 1..Len(a2) : y[i] = a2[i]
      /\ \A i \in 1..Len(b) : y[Len(a2) + i] = b[i]
      /\ \A i \in 1..Len(q) : y[Len(a2) + Len(b) + i] = q[i]
  BY <1>3, Pieces
<1>6. Len(y) = Len(x) - k
  BY <1>1, <1>4, <1>5
<1>7. ASSUME NEW i \in 1..Len(y) PROVE y[i] = x[k + i]
  <2>1. i \in Nat /\ 1 =< i /\ i =< Len(a2) + Len(b) + Len(q)
    BY <1>1, <1>5
  <2>2. CASE i =< Len(a2)
    <3>1. i \in 1..Len(a2) /\ k + i \in 1..Len(a)
      BY <1>1, <2>1, <2>2
    <3>2. y[i] = a2[i] /\ x[k + i] = a[k + i]
      BY <1>4, <1>5, <3>1
    <3> QED BY <3>1, <3>2 DEF Without
  <2>3. CASE Len(a2) < i /\ i =< Len(a2) + Len(b)
    <3>1. PICK j \in 1..Len(b) : i = Len(a2) + j /\ k + i = Len(a) + j
      <4>1. i - Len(a2) \in 1..Len(b) /\ i = Len(a2) + (i - Len(a2))
            /\ k + i = Len(a) + (i - Len(a2))
        BY <1>1, <2>1, <2>3
      <4> QED BY <4>1
    <3> QED BY <1>4, <1>5, <3>1
  <2>4. CASE Len(a2) + Len(b) < i
    <3>1. PICK j \in 1..Len(q) : i = Len(a2) + Len(b) + j /\ k + i = Len(a) + Len(b) + j
      <4>1. PICK j : j = i - (Len(a2) + Len(b))
        OBVIOUS
      <4>2. j \in 1..Len(q) /\ i = Len(a2) + Len(b) + j /\ k + i = Len(a) + Len(b) + j
        BY <1>1, <2>1, <2>4, <4>1
      <4> QED BY <4>2
    <3> QED BY <1>4, <1>5, <3>1
  <2> QED BY <1>1, <2>1, <2>2, <2>3, <2>4
<1> QED BY <1>2, <1>3, <1>6, <1>7 DEF Without

-----------------------------------------------------------------------------
(* Requests in the stream.                                                  *)

LEMMA TokensAre ==
  /\ \A x \in Bytes : x \in Tokens /\ x \notin LineTokens
  /\ \A x \in LineTokens : x \in Tokens /\ x \notin Bytes
  /\ "junk" \in Bytes /\ "end" \in LineTokens
BY HttpAssumption DEF Bytes, Tokens, LineTokens

LEMMA BodyIs ==
  /\ Body \in Seq(Tokens) /\ BodyLen \in Nat /\ 0 < BodyLen /\ Len(Body) = BodyLen
  /\ Quiet(Body)
<1>1. Body \in Seq(Units) /\ Body # <<>>
  BY HttpAssumption
<1>2. Len(Body) \in Nat \ {0}
  BY <1>1, EmptySeq
<1>3. \A i \in 1..Len(Body) : Body[i] \in Units
  BY <1>1
<1>4. Body \in Seq(Tokens)
  <2>1. Units \subseteq Tokens
    BY DEF Tokens, Bytes
  <2> QED BY <1>1, <2>1, SeqMonotonic
<1> QED BY <1>2, <1>3, <1>4 DEF BodyLen, Quiet, Bytes

\* What is true of the head of every request.
IsHead(l) ==
  /\ l \in Seq(LineTokens) /\ Len(l) \in Nat \ {0} /\ l[Len(l)] = "end"
  /\ \A i, j \in 1..Len(l) : i < j => l[i] # l[j]

LEMMA LinesAre == ASSUME NEW r \in Kinds PROVE IsHead(Lines(r))
<1>1. IsHead(<<"PUT", "Content-Length", "end">>)
  BY DEF IsHead, LineTokens
<1>2. IsHead(<<"PUT", "Content-Length", "Expect", "end">>)
  BY DEF IsHead, LineTokens
<1>3. IsHead(<<"PUT", "Content-Length", "urlencoded", "end">>)
  BY DEF IsHead, LineTokens
<1>4. ASSUME NEW x \in LineTokens \ {"end"} PROVE IsHead(<<x, "end">>)
  BY DEF IsHead, LineTokens
<1>5. {"PUT", "GET", "DIR", "DELETE", "RUN", "NEWFOLDER"} \subseteq LineTokens \ {"end"}
  BY DEF LineTokens
<1>6. CASE r = "put"
  BY <1>1, <1>6 DEF Lines
<1>7. CASE r = "putexpect"
  BY <1>2, <1>7 DEF Lines
<1>8. CASE r = "putform"
  BY <1>3, <1>8 DEF Lines
<1>9. CASE r \in {"putnolen", "get", "dir", "delete", "run", "newfolder"}
  BY <1>4, <1>5, <1>9 DEF Lines
<1> QED BY <1>6, <1>7, <1>8, <1>9 DEF Kinds

LEMMA QuietOne ==
  ASSUME NEW s, Quiet(s), NEW p, NEW h PROVE OneRequest(s, p, h)
BY TokensAre DEF Quiet, OneRequest, Belongs, InOrder, BodyLast

LEMMA WithoutOne ==
  ASSUME NEW s, NEW t, NEW k \in Nat, Len(s) \in Nat, Len(t) \in Nat, Without(t, s, k),
         NEW p, NEW h \in Nat, OneRequest(s, p, h)
  PROVE  OneRequest(t, p, h) /\ (Quiet(s) => Quiet(t))
<1>1. ASSUME NEW i \in 1..Len(t) PROVE t[i] = s[k + i] /\ k + i \in 1..Len(s)
  BY DEF Without
<1>2. Belongs(t, p) /\ (Quiet(s) => Quiet(t))
  BY <1>1 DEF OneRequest, Belongs, Quiet
<1>3. InOrder(t)
  <2>1. ASSUME NEW i \in 1..Len(t), NEW j \in 1..Len(t), i < j, t[i] \notin Bytes
        PROVE  t[j] # t[i] /\ (t[i] = "end" => t[j] \in Bytes)
    <3>1. k + i < k + j
      BY <2>1
    <3> QED BY <1>1, <2>1, <3>1 DEF OneRequest, InOrder
  <2> QED BY <2>1 DEF InOrder
<1>4. ASSUME NEW e \in 1..Len(t), t[e] = "end"
      PROVE  /\ Len(t) - e + h =< BodyLen
             /\ Len(t) - e + h = BodyLen => \A i \in 1..(Len(t) - e) : t[e + i] = Body[i]
  <2>1. s[k + e] = "end" /\ k + e \in 1..Len(s) /\ Len(t) = Len(s) - k
    BY <1>1, <1>4 DEF Without
  <2>2. Len(s) - (k + e) = Len(t) - e
    BY <2>1
  <2>3. /\ Len(t) - e + h =< BodyLen
        /\ Len(t) - e + h = BodyLen => \A i \in 1..(Len(t) - e) : s[(k + e) + i] = Body[i]
    BY <2>1, <2>2 DEF OneRequest, BodyLast
  <2>4. ASSUME NEW i \in 1..(Len(t) - e) PROVE t[e + i] = s[(k + e) + i]
    <3>1. e + i \in 1..Len(t) /\ k + (e + i) = (k + e) + i
      OBVIOUS
    <3> QED BY <1>1, <3>1
  <2> QED BY <2>3, <2>4
<1> QED BY <1>2, <1>3, <1>4 DEF OneRequest, BodyLast

\* The end of the head has been read: only the body is left.
LEMMA HeadRead ==
  ASSUME NEW s, NEW t, Len(s) \in Nat, Len(t) \in Nat, 0 < Len(s), Without(t, s, 1),
         s[1] = "end", NEW p, NEW h \in Nat, OneRequest(s, p, h), NEW sp
  PROVE  Quiet(t) /\ Follows(<<>>, t, h, sp)
<1>0. 1 \in 1..Len(s) /\ Len(t) = Len(s) - 1 /\ Len(<<>>) = 0
  BY DEF Without
<1>1. ASSUME NEW i \in 1..Len(t) PROVE t[i] = s[1 + i] /\ 1 + i \in 1..Len(s) /\ 1 < 1 + i
  BY <1>0 DEF Without
<1>2. s[1] \notin Bytes
  BY TokensAre
<1>3. Quiet(t)
  BY <1>0, <1>1, <1>2 DEF Quiet, OneRequest, InOrder
<1>4. /\ Len(s) - 1 + h =< BodyLen
      /\ Len(s) - 1 + h = BodyLen => \A i \in 1..(Len(s) - 1) : s[1 + i] = Body[i]
  BY <1>0 DEF OneRequest, BodyLast
<1>5. Len(<<>>) + Len(t) + h = Len(s) - 1 + h
  BY <1>0
<1>6. ASSUME Len(s) - 1 + h = BodyLen, NEW i \in 1..Len(t) PROVE t[i] = Body[0 + i]
  BY <1>0, <1>1, <1>4, <1>6
<1> QED BY <1>0, <1>3, <1>4, <1>5, <1>6 DEF Follows

\* To which request a line belongs.
LineFits(x, p) ==
  /\ x \in {"PUT", "Content-Length"} => p \in Uploads
  /\ x = "GET" => p = "get"
  /\ x = "DIR" => p = "dir"
  /\ x = "DELETE" => p = "delete"
  /\ x = "RUN" => p = "run"
  /\ x = "NEWFOLDER" => p = "newfolder"
  /\ x = "Expect" => p = "putexpect"
  /\ x = "urlencoded" => p = "putform"
  /\ p # "none"

LEMMA LineOf ==
  ASSUME NEW p \in Kinds \cup {"none"}, NEW x \in Of(p)
  PROVE  LineFits(x, p)
<1>0. p # "none" /\ p \in Kinds /\ \E i \in 1..Len(Lines(p)) : x = Lines(p)[i]
  BY DEF Of
<1>1. ASSUME NEW a, NEW b, NEW i \in 1..Len(<<a, b>>) PROVE <<a, b>>[i] \in {a, b}
  OBVIOUS
<1>2. ASSUME NEW a, NEW b, NEW c, NEW i \in 1..Len(<<a, b, c>>) PROVE <<a, b, c>>[i] \in {a, b, c}
  OBVIOUS
<1>3. ASSUME NEW a, NEW b, NEW c, NEW d, NEW i \in 1..Len(<<a, b, c, d>>)
      PROVE  <<a, b, c, d>>[i] \in {a, b, c, d}
  OBVIOUS
<1>4. CASE p = "put"
  <2>1. x \in {"PUT", "Content-Length", "end"}
    BY <1>0, <1>2, <1>4 DEF Lines
  <2> QED BY <1>4, <2>1 DEF LineFits, Uploads
<1>5. CASE p = "putexpect"
  <2>1. x \in {"PUT", "Content-Length", "Expect", "end"}
    BY <1>0, <1>3, <1>5 DEF Lines
  <2> QED BY <1>5, <2>1 DEF LineFits, Uploads
<1>6. CASE p = "putform"
  <2>1. x \in {"PUT", "Content-Length", "urlencoded", "end"}
    BY <1>0, <1>2, <1>3, <1>6 DEF Lines
  <2> QED BY <1>6, <2>1 DEF LineFits, Uploads
<1>7. CASE p = "putnolen"
  <2>1. x \in {"PUT", "end"}
    BY <1>0, <1>1, <1>7 DEF Lines
  <2> QED BY <1>7, <2>1 DEF LineFits, Uploads
<1>8. CASE p = "get"
  <2>1. x \in {"GET", "end"}
    BY <1>0, <1>1, <1>8 DEF Lines
  <2> QED BY <1>8, <2>1 DEF LineFits
<1>9. CASE p = "dir"
  <2>1. x \in {"DIR", "end"}
    BY <1>0, <1>1, <1>9 DEF Lines
  <2> QED BY <1>9, <2>1 DEF LineFits
<1>10. CASE p = "delete"
  <2>1. x \in {"DELETE", "end"}
    BY <1>0, <1>1, <1>10 DEF Lines
  <2> QED BY <1>10, <2>1 DEF LineFits
<1>11. CASE p = "run"
  <2>1. x \in {"RUN", "end"}
    BY <1>0, <1>1, <1>11 DEF Lines
  <2> QED BY <1>11, <2>1 DEF LineFits
<1>12. CASE p = "newfolder"
  <2>1. x \in {"NEWFOLDER", "end"}
    BY <1>0, <1>1, <1>12 DEF Lines
  <2> QED BY <1>12, <2>1 DEF LineFits
<1> QED BY <1>0, <1>4, <1>5, <1>6, <1>7, <1>8, <1>9, <1>10, <1>11, <1>12 DEF Kinds

\* GET and DIR come once.
LEMMA SourceOnce ==
  ASSUME NEW s, NEW t, Len(s) \in Nat, Len(t) \in Nat, 0 < Len(s), Without(t, s, 1),
         s[1] \in {"GET", "DIR"}, NEW p \in Kinds \cup {"none"}, NEW h, OneRequest(s, p, h)
  PROVE  p \in {"get", "dir"} /\ \A i \in 1..Len(t) : t[i] \notin {"GET", "DIR"}
<1>0. 1 \in 1..Len(s)
  OBVIOUS
<1>1. ASSUME NEW i \in 1..Len(t) PROVE t[i] = s[1 + i] /\ 1 + i \in 1..Len(s) /\ 1 < 1 + i
  BY DEF Without
<1>2. "GET" \notin Bytes /\ "DIR" \notin Bytes
  BY TokensAre DEF LineTokens
<1>3. s[1] \in Of(p)
  BY <1>0, <1>2 DEF OneRequest, Belongs
<1>4. s[1] = "GET" => p = "get"
  BY <1>3, LineOf DEF LineFits
<1>5. s[1] = "DIR" => p = "dir"
  BY <1>3, LineOf DEF LineFits
<1>6. ASSUME NEW i \in 1..Len(t), t[i] \in {"GET", "DIR"} PROVE FALSE
  <2>1. t[i] # s[1]
    BY <1>0, <1>1, <1>2 DEF OneRequest, InOrder
  <2>2. t[i] \in Of(p)
    BY <1>1, <1>2, <1>6 DEF OneRequest, Belongs
  <2>3. (t[i] = "GET" => p = "get") /\ (t[i] = "DIR" => p = "dir")
    BY <2>2, LineOf DEF LineFits
  <2> QED BY <1>4, <1>5, <1>6, <2>1, <2>3
<1> QED BY <1>4, <1>5, <1>6

\* A request is made.
LEMMA RequestMade ==
  ASSUME NEW s \in Seq(Tokens), Quiet(s), NEW r \in Kinds, NEW b, b = Body \/ b = <<>>,
         NEW h \in Nat, Len(b) + h =< BodyLen, h = 0 \/ b = <<>>
  PROVE  OneRequest((s \o Lines(r)) \o b, r, h)
<1>1. PICK l : l = Lines(r) /\ IsHead(l)
  BY LinesAre
<1>2. l \in Seq(Tokens) /\ b \in Seq(Tokens) /\ Quiet(b)
  <2>1. LineTokens \subseteq Tokens
    BY TokensAre
  <2>2. l \in Seq(Tokens)
    BY <1>1, <2>1, SeqMonotonic DEF IsHead
  <2>3. <<>> \in Seq(Tokens) /\ Quiet(<<>>)
    BY DEF Quiet
  <2> QED BY <2>2, <2>3, BodyIs
<1>3. PICK x : x = (s \o l) \o b
  OBVIOUS
<1>4. /\ Len(x) = Len(s) + Len(l) + Len(b)
      /\ \A i \in 1..Len(s) : x[i] = s[i]
      /\ \A i \in 1..Len(l) : x[Len(s) + i] = l[i]
      /\ \A i \in 1..Len(b) : x[Len(s) + Len(l) + i] = b[i]
  BY <1>2, <1>3, Pieces
<1>5. PICK n \in Nat : n = Len(s)
  OBVIOUS
<1>6. PICK m \in Nat \ {0} : m = Len(l)
  BY <1>1 DEF IsHead
<1>7. PICK k \in Nat : k = Len(b)
  BY <1>2
<1>8. ASSUME NEW i \in 1..(n + m + k)
      PROVE  \/ i \in 1..n /\ x[i] \in Bytes
             \/ i - n \in 1..m /\ x[i] = l[i - n] /\ i = n + (i - n)
             \/ i - (n + m) \in 1..k /\ x[i] = b[i - (n + m)] /\ x[i] \in Bytes
  <2>1. CASE i =< n
    <3>1. i \in 1..n
      BY <2>1
    <3> QED BY <1>4, <1>5, <3>1 DEF Quiet
  <2>2. CASE n < i /\ i =< n + m
    <3>1. i - n \in 1..m /\ i = n + (i - n)
      BY <2>2
    <3> QED BY <1>4, <1>5, <1>6, <3>1
  <2>3. CASE n + m < i
    <3>1. i - (n + m) \in 1..k /\ i = n + m + (i - (n + m))
      BY <2>3
    <3> QED BY <1>2, <1>4, <1>5, <1>6, <1>7, <3>1 DEF Quiet
  <2> QED BY <2>1, <2>2, <2>3
<1>9. Len(x) = n + m + k
  BY <1>4, <1>5, <1>6, <1>7
<1>10. /\ \A i \in 1..m : l[i] \in LineTokens /\ l[i] \notin Bytes
       /\ \A i, j \in 1..m : i < j => l[i] # l[j]
       /\ l[m] = "end"
  <2>1. \A i \in 1..Len(l) : l[i] \in LineTokens
    BY <1>1 DEF IsHead
  <2> QED BY <1>1, <1>6, <2>1, TokensAre DEF IsHead
<1>11. Belongs(x, r)
  <2>1. r # "none"
    BY DEF Kinds
  <2>2. \A i \in 1..m : l[i] \in Of(r)
    BY <1>1, <1>6, <2>1 DEF Of
  <2> QED BY <1>8, <1>9, <2>2 DEF Belongs
<1>12. ASSUME NEW i \in 1..(n + m + k), x[i] \notin Bytes
       PROVE  i - n \in 1..m /\ x[i] = l[i - n]
  BY <1>8, <1>12
<1>13. ASSUME NEW i \in 1..(n + m + k), x[i] = "end" PROVE i = n + m
  <2>1. i - n \in 1..m /\ l[i - n] = "end"
    BY <1>12, <1>13, TokensAre
  <2>2. i - n = m
    <3>1. ASSUME i - n < m PROVE FALSE
      <4>1. m \in 1..m
        OBVIOUS
      <4> QED BY <1>10, <2>1, <3>1, <4>1
    <3> QED BY <2>1, <3>1
  <2> QED BY <2>2
<1>14. InOrder(x)
  <2>1. ASSUME NEW i \in 1..(n + m + k), NEW j \in 1..(n + m + k), i < j, x[i] \notin Bytes
        PROVE  x[j] # x[i] /\ (x[i] = "end" => x[j] \in Bytes)
    <3>1. i - n \in 1..m /\ x[i] = l[i - n]
      BY <1>12, <2>1
    <3>2. CASE x[j] \in Bytes
      BY <2>1, <3>2
    <3>3. CASE x[j] \notin Bytes
      <4>1. j - n \in 1..m /\ x[j] = l[j - n]
        BY <1>12, <3>3
      <4>2. i - n < j - n
        BY <2>1
      <4>3. x[j] # x[i]
        BY <1>10, <3>1, <4>1, <4>2
      <4>4. x[i] # "end"
        BY <1>13, <2>1, <4>1
      <4> QED BY <4>3, <4>4
    <3> QED BY <3>2, <3>3
  <2> QED BY <1>9, <2>1 DEF InOrder
<1>15. BodyLast(x, h)
  <2>1. ASSUME NEW e \in 1..Len(x), x[e] = "end"
        PROVE  /\ Len(x) - e + h =< BodyLen
               /\ Len(x) - e + h = BodyLen => \A i \in 1..(Len(x) - e) : x[e + i] = Body[i]
    <3>1. e = n + m /\ Len(x) - e = k
      BY <1>9, <1>13, <2>1
    <3>2. ASSUME NEW i \in 1..k PROVE x[e + i] = Body[i]
      <4>1. b = Body
        BY <1>7, EmptySeq
      <4> QED BY <1>4, <1>5, <1>6, <1>7, <3>1, <4>1
    <3> QED BY <1>7, <3>1, <3>2
  <2> QED BY <2>1 DEF BodyLast
<1> QED BY <1>1, <1>3, <1>11, <1>14, <1>15 DEF OneRequest

LEMMA BodySent ==
  ASSUME NEW s \in Seq(Tokens), NEW p, OneRequest(s, p, BodyLen)
  PROVE  OneRequest(s \o Body, p, 0) /\ (Quiet(s) => Quiet(s \o Body))
<1>1. PICK x : x = s \o Body
  OBVIOUS
<1>2. PICK n \in Nat : n = Len(s)
  OBVIOUS
<1>3. PICK k \in Nat : k = BodyLen /\ 0 < k
  BY BodyIs
<1>4. /\ Len(x) = n + k
      /\ \A i \in 1..(n + k) : x[i] = IF i =< n THEN s[i] ELSE Body[i - n]
  BY <1>1, <1>2, <1>3, BodyIs, ConcatProperties
<1>5. ASSUME NEW i \in 1..(n + k)
      PROVE  \/ i \in 1..n /\ x[i] = s[i]
             \/ ~(i =< n) /\ i - n \in 1..k /\ x[i] = Body[i - n] /\ x[i] \in Bytes
  <2>1. CASE i =< n
    BY <1>4, <2>1
  <2>2. CASE ~(i =< n)
    <3>1. i - n \in 1..k
      BY <2>2
    <3> QED BY <1>3, <1>4, <2>2, <3>1, BodyIs DEF Quiet
  <2> QED BY <2>1, <2>2
<1>6. Belongs(x, p)
  BY <1>2, <1>4, <1>5 DEF OneRequest, Belongs
<1>7. ASSUME NEW i \in 1..(n + k), x[i] \notin Bytes PROVE i \in 1..n /\ x[i] = s[i]
  BY <1>5, <1>7
<1>8. InOrder(x)
  <2>1. ASSUME NEW i \in 1..(n + k), NEW j \in 1..(n + k), i < j, x[i] \notin Bytes
        PROVE  x[j] # x[i] /\ (x[i] = "end" => x[j] \in Bytes)
    <3>1. i \in 1..n /\ x[i] = s[i]
      BY <1>7, <2>1
    <3>2. CASE x[j] \in Bytes
      BY <2>1, <3>2
    <3>3. CASE x[j] \notin Bytes
      <4>1. j \in 1..n /\ x[j] = s[j]
        BY <1>7, <3>3
      <4> QED BY <1>2, <2>1, <3>1, <4>1 DEF OneRequest, InOrder
    <3> QED BY <3>2, <3>3
  <2> QED BY <1>4, <2>1 DEF InOrder
<1>9. BodyLast(x, 0)
  <2>1. ASSUME NEW e \in 1..Len(x), x[e] = "end"
        PROVE  /\ Len(x) - e + 0 =< BodyLen
               /\ Len(x) - e + 0 = BodyLen => \A i \in 1..(Len(x) - e) : x[e + i] = Body[i]
    <3>1. e \in 1..n /\ s[e] = "end"
      BY <1>4, <1>7, <2>1, TokensAre
    <3>2. n - e + k =< k
      BY <1>2, <1>3, <3>1 DEF OneRequest, BodyLast
    <3>3. e = n /\ Len(x) - e = k
      BY <1>4, <3>1, <3>2
    <3>4. ASSUME NEW i \in 1..k PROVE x[e + i] = Body[i]
      <4>1. e + i \in 1..(n + k) /\ ~(e + i =< n) /\ (e + i) - n = i
        BY <3>3
      <4> QED BY <1>4, <4>1
    <3> QED BY <1>3, <3>3, <3>4
  <2> QED BY <2>1 DEF BodyLast
<1>10. Quiet(s) => Quiet(x)
  BY <1>2, <1>4, <1>5 DEF Quiet
<1> QED BY <1>1, <1>6, <1>8, <1>9, <1>10 DEF OneRequest

\* The client gives up the body that it held back.
LEMMA HeldDropped ==
  ASSUME NEW s, Len(s) \in Nat, NEW p, NEW h \in {0, BodyLen}, OneRequest(s, p, h)
  PROVE  OneRequest(s, p, 0)
<1>1. BodyLen \in Nat /\ 0 < BodyLen
  BY BodyIs
<1>2. CASE h = BodyLen
  <2>1. ASSUME NEW e \in 1..Len(s), s[e] = "end"
        PROVE  Len(s) - e + 0 =< BodyLen /\ Len(s) - e + 0 # BodyLen
    <3>1. Len(s) - e + BodyLen =< BodyLen
      BY <1>2, <2>1 DEF OneRequest, BodyLast
    <3>2. Len(s) - e = 0
      BY <1>1, <3>1
    <3> QED BY <1>1, <3>2
  <2> QED BY <2>1 DEF OneRequest, BodyLast
<1> QED BY <1>2

-----------------------------------------------------------------------------
(* The body.                                                                *)

LEMMA FollowsTyped ==
  ASSUME NEW d \in Seq(Tokens), NEW s \in Seq(Tokens)
  PROVE  Len(d) \in Nat /\ Len(s) \in Nat /\ BodyLen \in Nat /\ 0 < BodyLen
BY BodyIs

LEMMA FollowsSpoilt ==
  ASSUME NEW d, NEW s, NEW h, NEW sp, NEW sp2, Follows(d, s, h, sp), sp \subseteq sp2
  PROVE  Follows(d, s, h, sp2)
BY DEF Follows

\* What lay too long in uip_buf is no longer what it was.
LEMMA FollowsStale ==
  ASSUME NEW d \in Seq(Tokens), NEW s \in Seq(Tokens), NEW t \in Seq(Tokens), NEW h \in Nat,
         NEW sp, NEW sp2, Follows(d, s, h, sp), Len(t) =< Len(s), "stale" \in sp2
  PROVE  Follows(d, t, h, sp2)
BY FollowsTyped DEF Follows

\* What is lost of it is lost for good.
LEMMA FollowsLost ==
  ASSUME NEW d \in Seq(Tokens), NEW s \in Seq(Tokens), NEW t \in Seq(Tokens), NEW h \in Nat,
         NEW sp, NEW sp2, Follows(d, s, h, sp), Len(t) < Len(s)
  PROVE  Follows(d, t, h, sp2)
<1>1. /\ Len(d) \in Nat /\ Len(s) \in Nat /\ Len(t) \in Nat /\ BodyLen \in Nat
      /\ Len(d) + Len(s) + h =< BodyLen
  BY FollowsTyped DEF Follows
<1>2. Len(d) + Len(t) + h < BodyLen
  BY <1>1
<1>3. Len(d) + Len(t) + h =< BodyLen /\ Len(d) + Len(t) + h # BodyLen
  BY <1>1, <1>2
<1> QED BY <1>3 DEF Follows

LEMMA FollowsDropped ==
  ASSUME NEW d \in Seq(Tokens), NEW s \in Seq(Tokens), NEW h \in {0, BodyLen},
         NEW sp, Follows(d, s, h, sp)
  PROVE  Follows(d, s, 0, sp)
<1>1. CASE h = BodyLen
  <2>1. /\ Len(d) \in Nat /\ Len(s) \in Nat /\ BodyLen \in Nat /\ 0 < BodyLen
        /\ Len(d) + Len(s) + BodyLen =< BodyLen
    BY <1>1, FollowsTyped DEF Follows
  <2>2. Len(d) + Len(s) + 0 =< BodyLen /\ Len(d) + Len(s) + 0 # BodyLen
    BY <2>1
  <2> QED BY <2>2 DEF Follows
<1> QED BY <1>1

LEMMA FollowsSent ==
  ASSUME NEW d \in Seq(Tokens), NEW s \in Seq(Tokens), NEW sp, Follows(d, s, BodyLen, sp)
  PROVE  Follows(d, s \o Body, 0, sp)
<1>1. /\ Len(d) \in Nat /\ Len(s) \in Nat /\ BodyLen \in Nat /\ 0 < BodyLen
      /\ Len(d) + Len(s) + BodyLen =< BodyLen
  BY FollowsTyped DEF Follows
<1>2. Len(d) = 0 /\ Len(s) = 0
  BY <1>1
<1>3. s = <<>>
  BY <1>2, EmptySeq
<1>4. s \o Body = Body
  BY <1>3, BodyIs, ConcatEmptySeq
<1>5. Len(d) + Len(s \o Body) + 0 = BodyLen
  BY <1>1, <1>2, <1>4, BodyIs
<1>6. ASSUME NEW i \in 1..Len(s \o Body) PROVE (s \o Body)[i] = Body[Len(d) + i]
  BY <1>2, <1>4
<1>7. \A i \in 1..Len(d) : d[i] = Body[i]
  BY <1>2
<1> QED BY <1>1, <1>5, <1>6, <1>7 DEF Follows

\* A piece of the stream goes to what is behind it.
LEMMA FollowsRead ==
  ASSUME NEW d \in Seq(Tokens), NEW s \in Seq(Tokens), NEW t \in Seq(Tokens), NEW x \in Seq(Tokens),
         NEW n \in 0..Len(s), Without(t, s, n), Len(x) = n, \A i \in 1..n : x[i] = s[i],
         NEW h \in Nat, NEW sp, Follows(d, s, h, sp)
  PROVE  Follows(d \o x, t, h, sp)
<1>1. /\ Len(d) \in Nat /\ Len(s) \in Nat /\ BodyLen \in Nat /\ n \in Nat /\ Len(t) = Len(s) - n
      /\ n =< Len(s)
  BY FollowsTyped DEF Without
<1>2. PICK y : y = d \o x
  OBVIOUS
<1>3. /\ y \in Seq(Tokens) /\ Len(y) = Len(d) + n
      /\ \A i \in 1..(Len(d) + n) : y[i] = IF i =< Len(d) THEN d[i] ELSE x[i - Len(d)]
  <2>1. /\ d \o x \in Seq(Tokens) /\ Len(d \o x) = Len(d) + Len(x)
        /\ \A i \in 1..(Len(d) + Len(x)) : (d \o x)[i] = IF i =< Len(d) THEN d[i] ELSE x[i - Len(d)]
    BY ConcatProperties, Zenon
  <2> QED BY <1>2, <2>1, Zenon
<1>4. Len(y) + Len(t) + h = Len(d) + Len(s) + h
  BY <1>1, <1>3
<1>5. ASSUME Len(y) + Len(t) + h = BodyLen, "stale" \notin sp
      PROVE  /\ \A i \in 1..Len(y) : y[i] = Body[i]
             /\ \A i \in 1..Len(t) : t[i] = Body[Len(y) + i]
  <2>1. /\ \A i \in 1..Len(d) : d[i] = Body[i]
        /\ \A i \in 1..Len(s) : s[i] = Body[Len(d) + i]
    BY <1>4, <1>5 DEF Follows
  <2>2. ASSUME NEW i \in 1..Len(y) PROVE y[i] = Body[i]
    <3>1. CASE i =< Len(d)
      BY <1>1, <1>3, <2>1, <3>1
    <3>2. CASE ~(i =< Len(d))
      <4>1. /\ i - Len(d) \in 1..n /\ i - Len(d) \in 1..Len(s) /\ Len(d) + (i - Len(d)) = i
            /\ i \in 1..(Len(d) + n)
        BY <1>1, <1>3, <3>2
      <4> QED BY <1>3, <2>1, <3>2, <4>1
    <3> QED BY <3>1, <3>2
  <2>3. ASSUME NEW i \in 1..Len(t) PROVE t[i] = Body[Len(y) + i]
    <3>1. n + i \in 1..Len(s) /\ Len(d) + (n + i) = Len(y) + i
      BY <1>1, <1>3
    <3>2. t[i] = s[n + i]
      BY DEF Without
    <3> QED BY <2>1, <3>1, <3>2
  <2> QED BY <2>2, <2>3
<1>6. Len(y) + Len(t) + h =< BodyLen
  BY <1>4 DEF Follows
<1> QED BY <1>2, <1>5, <1>6 DEF Follows

\* All that was to come is there.
LEMMA Stored ==
  ASSUME NEW d \in Seq(Tokens), NEW b \in Seq(Tokens), NEW s \in Seq(Tokens), NEW h \in Nat,
         NEW sp, Follows(d \o b, s, h, sp), Len(d) = BodyLen, "stale" \notin sp
  PROVE  d = Body
<1>0. Len(d) \in Nat /\ Len(b) \in Nat
  OBVIOUS
<1>1. /\ Len(d \o b) = Len(d) + Len(b) /\ Len(d) \in Nat /\ Len(b) \in Nat
      /\ \A i \in 1..(Len(d) + Len(b)) : (d \o b)[i] = IF i =< Len(d) THEN d[i] ELSE b[i - Len(d)]
  BY <1>0, ConcatProperties, Zenon
<1>2. Len(d \o b) + Len(s) + h =< BodyLen /\ BodyLen \in Nat /\ Len(s) \in Nat
  BY BodyIs DEF Follows
<1>3. Len(d \o b) + Len(s) + h = BodyLen /\ Len(d \o b) = Len(d)
  BY <1>1, <1>2
<1>4. \A i \in 1..Len(d \o b) : (d \o b)[i] = Body[i]
  BY <1>3 DEF Follows
<1>5. ASSUME NEW i \in 1..Len(d) PROVE d[i] = Body[i]
  <2>1. i \in 1..(Len(d) + Len(b)) /\ i =< Len(d) /\ i \in 1..Len(d \o b)
    BY <1>1, <1>3
  <2> QED BY <1>1, <1>4, <2>1
<1> QED BY <1>5, BodyIs, SeqEqual

-----------------------------------------------------------------------------
(* The stream of a thread.                                                  *)

\* A state without its file.
LEMMA FileClosed ==
  ASSUME NEW r \in States, NEW f \in BOOLEAN, NEW b \in Texts
  PROVE  [r EXCEPT !.fd = f, !.buf = b] \in States
BY DEF States

LEMMA StreamIs ==
  ASSUME NEW s \in States, NEW c \in Callbacks, NEW q \in Seq(Tokens)
  PROVE  /\ s.rd \in Seq(Tokens) /\ Unread(s, c) \in Seq(Tokens)
         /\ Stream(s, c, q) \in Seq(Tokens) /\ Len(Stream(s, c, q)) \in Nat
         /\ Len(Stream(s, c, q)) = Len(s.rd) + Len(Unread(s, c)) + Len(q)
<1>1. s.rd \in Seq(Tokens) /\ c.data \in Seq(Tokens) /\ <<>> \in Seq(Tokens)
  BY DEF States, Callbacks, Texts
<1>2. Unread(s, c) \in Seq(Tokens)
  BY <1>1 DEF Unread
<1>3. /\ Stream(s, c, q) \in Seq(Tokens)
      /\ Len(Stream(s, c, q)) = Len(s.rd) + Len(Unread(s, c)) + Len(q)
  BY <1>1, <1>2, Pieces DEF Stream
<1> QED BY <1>1, <1>2, <1>3

LEMMA StreamSame ==
  ASSUME NEW s, NEW t, NEW c, NEW q, t.rd = s.rd, t.ps = "READ" <=> s.ps = "READ"
  PROVE  Stream(t, c, q) = Stream(s, c, q) /\ Unread(t, c) = Unread(s, c)
BY DEF Stream, Unread

LEMMA QuietStream ==
  ASSUME NEW s \in States, NEW c \in Callbacks, NEW q \in Seq(Tokens)
  PROVE  Quiet(Stream(s, c, q)) <=> Quiet(s.rd) /\ Quiet(Unread(s, c)) /\ Quiet(q)
<1>1. PICK a \in Seq(Tokens) : a = s.rd
  BY StreamIs
<1>2. PICK b \in Seq(Tokens) : b = Unread(s, c)
  BY StreamIs
<1>3. PICK x : x = (a \o b) \o q
  OBVIOUS
<1>4. /\ Len(x) = Len(a) + Len(b) + Len(q)
      /\ \A i \in 1..Len(a) : x[i] = a[i]
      /\ \A i \in 1..Len(b) : x[Len(a) + i] = b[i]
      /\ \A i \in 1..Len(q) : x[Len(a) + Len(b) + i] = q[i]
  BY <1>3, Pieces
<1>5. PICK l \in Nat : l = Len(a)
  OBVIOUS
<1>6. PICK m \in Nat : m = Len(b)
  OBVIOUS
<1>7. PICK n \in Nat : n = Len(q)
  OBVIOUS
<1>8. ASSUME Quiet(x) PROVE Quiet(a) /\ Quiet(b) /\ Quiet(q)
  <2>1. \A i \in 1..(l + m + n) : x[i] \in Bytes
    BY <1>4, <1>5, <1>6, <1>7, <1>8 DEF Quiet
  <2>2. ASSUME NEW i \in 1..l PROVE a[i] \in Bytes
    <3>1. i \in 1..(l + m + n)
      OBVIOUS
    <3> QED BY <1>4, <1>5, <2>1, <3>1
  <2>3. ASSUME NEW i \in 1..m PROVE b[i] \in Bytes
    <3>1. l + i \in 1..(l + m + n)
      OBVIOUS
    <3> QED BY <1>4, <1>5, <1>6, <2>1, <3>1
  <2>4. ASSUME NEW i \in 1..n PROVE q[i] \in Bytes
    <3>1. l + m + i \in 1..(l + m + n)
      OBVIOUS
    <3> QED BY <1>4, <1>5, <1>6, <1>7, <2>1, <3>1
  <2> QED BY <1>5, <1>6, <1>7, <2>2, <2>3, <2>4 DEF Quiet
<1>9. ASSUME Quiet(a), Quiet(b), Quiet(q) PROVE Quiet(x)
  <2>1. ASSUME NEW i \in 1..(l + m + n) PROVE x[i] \in Bytes
    <3>1. CASE i =< l
      <4>1. i \in 1..l
        BY <3>1
      <4> QED BY <1>4, <1>5, <1>9, <4>1 DEF Quiet
    <3>2. CASE l < i /\ i =< l + m
      <4>1. PICK j : j = i - l
        OBVIOUS
      <4>2. j \in 1..m /\ i = l + j
        BY <3>2, <4>1
      <4> QED BY <1>4, <1>5, <1>6, <1>9, <4>2 DEF Quiet
    <3>3. CASE l + m < i
      <4>1. PICK j : j = i - (l + m)
        OBVIOUS
      <4>2. j \in 1..n /\ i = l + m + j
        BY <3>3, <4>1
      <4> QED BY <1>4, <1>5, <1>6, <1>7, <1>9, <4>2 DEF Quiet
    <3> QED BY <3>1, <3>2, <3>3
  <2> QED BY <1>4, <1>5, <1>6, <1>7, <2>1 DEF Quiet
<1> QED BY <1>1, <1>2, <1>3, <1>8, <1>9 DEF Stream

\* A line is read, or the beginning of what is left of a segment.
LEMMA StreamRead ==
  ASSUME NEW s \in States, NEW t \in States, NEW c \in Callbacks, NEW q \in Seq(Tokens),
         NEW k \in 0..Len(s.rd), Without(t.rd, s.rd, k), t.ps = "READ" <=> s.ps = "READ"
  PROVE  Without(Stream(t, c, q), Stream(s, c, q), k)
<1>1. Unread(t, c) = Unread(s, c)
  BY DEF Unread
<1>2. PICK a \in Seq(Tokens) : a = s.rd
  BY StreamIs
<1>3. PICK a2 \in Seq(Tokens) : a2 = t.rd
  BY StreamIs
<1>4. PICK b \in Seq(Tokens) : b = Unread(s, c)
  BY StreamIs
<1>5. k \in 0..Len(a) /\ Without(a2, a, k)
  BY <1>2, <1>3
<1>6. Without((a2 \o b) \o q, (a \o b) \o q, k)
  BY <1>5, PiecesWithout
<1> QED BY <1>1, <1>2, <1>3, <1>4, <1>6 DEF Stream

LEMMA LineRead ==
  ASSUME NEW s \in States, NEW t \in States, NEW c \in Callbacks, NEW q \in Seq(Tokens),
         s.rd # <<>>, t.rd = Tail(s.rd), t.ps = s.ps
  PROVE  /\ Without(Stream(t, c, q), Stream(s, c, q), 1)
         /\ 0 < Len(Stream(s, c, q)) /\ Stream(s, c, q)[1] = Head(s.rd)
<1>1. PICK a \in Seq(Tokens) : a = s.rd /\ a # <<>>
  BY StreamIs
<1>2. PICK b \in Seq(Tokens) : b = Unread(s, c)
  BY StreamIs
<1>3. Len(a) \in Nat \ {0} /\ Head(a) = a[1]
  BY <1>1, EmptySeq
<1>4. Without(Tail(a), a, 1)
  <2>1. Len(Tail(a)) = Len(a) - 1 /\ \A i \in 1..Len(Tail(a)) : Tail(a)[i] = a[i + 1]
    BY <1>1, HeadTailProperties
  <2>2. \A i \in 1..Len(Tail(a)) : i + 1 = 1 + i
    BY <1>3, <2>1
  <2> QED BY <2>1, <2>2 DEF Without
<1>5. 1 \in 0..Len(a) /\ 1 \in 1..Len(a)
  BY <1>3
<1>6. Without(Stream(t, c, q), Stream(s, c, q), 1)
  BY <1>1, <1>4, <1>5, StreamRead
<1>7. /\ Len((a \o b) \o q) = Len(a) + Len(b) + Len(q)
      /\ ((a \o b) \o q)[1] = a[1]
  BY <1>5, Pieces
<1>8. 0 < Len((a \o b) \o q)
  BY <1>3, <1>7
<1> QED BY <1>1, <1>2, <1>3, <1>6, <1>7, <1>8 DEF Stream

\* The segment of the callback becomes what is left to read.
LEMMA SegmentRead ==
  ASSUME NEW s \in States, NEW t \in States, NEW c \in Callbacks, NEW q \in Seq(Tokens),
         s.rd = <<>>, "newdata" \in c.flags, s.ps # "READ", t.rd = c.data, t.ps = "READ"
  PROVE  Stream(t, c, q) = Stream(s, c, q)
<1>1. PICK b \in Seq(Tokens) : b = c.data
  BY DEF Callbacks
<1>2. Unread(t, c) = <<>> /\ Unread(s, c) = b
  BY <1>1 DEF Unread
<1>3. b \o <<>> = b /\ <<>> \o b = b
  BY ConcatEmptySeq
<1> QED BY <1>1, <1>2, <1>3 DEF Stream

LEMMA StreamAdded ==
  ASSUME NEW s \in States, NEW c \in Callbacks, NEW q \in Seq(Tokens), NEW x \in Seq(Tokens)
  PROVE  Stream(s, c, q \o x) = Stream(s, c, q) \o x
<1>1. PICK a \in Seq(Tokens) : a = s.rd \o Unread(s, c)
  BY StreamIs, ConcatProperties
<1>2. (a \o q) \o x = a \o (q \o x)
  BY ConcatAssociative
<1> QED BY <1>1, <1>2 DEF Stream

LEMMA Regrouped ==
  \A a, b, c \in Seq(Tokens) : (a \o b) \o c = a \o (b \o c)
BY ConcatAssociative

\* uIP calls with a segment: nothing changes of the stream.
LEMMA SegmentComes ==
  ASSUME NEW s \in States, NEW c \in Callbacks, NEW q \in Seq(Tokens), NEW k \in 0..Len(q),
         NEW i \in Callbacks, "newdata" \notin i.flags,
         s.ps # "READ", c.data = SubSeq(q, 1, k), "newdata" \in c.flags <=> k > 0
  PROVE  Stream(s, c, SubSeq(q, k + 1, Len(q))) = Stream(s, i, q)
<1>1. PICK a \in Seq(Tokens) : a = s.rd
  BY StreamIs
<1>2. Unread(s, i) = <<>> /\ Stream(s, i, q) = a \o q
  <2>1. a \o <<>> = a
    BY ConcatEmptySeq
  <2> QED BY <1>1, <2>1 DEF Stream, Unread
<1>3. CASE k = 0
  <2>1. Unread(s, c) = <<>> /\ SubSeq(q, k + 1, Len(q)) = q
    BY <1>3, SubSeqFull DEF Unread
  <2>2. a \o <<>> = a
    BY ConcatEmptySeq
  <2> QED BY <1>1, <1>2, <2>1, <2>2 DEF Stream
<1>4. CASE k > 0
  <2>1. Unread(s, c) = SubSeq(q, 1, k)
    BY <1>4 DEF Unread
  <2>2. PICK x \in Seq(Tokens) : x = SubSeq(q, 1, k)
    BY WithoutFirst
  <2>3. PICK y \in Seq(Tokens) : y = SubSeq(q, k + 1, Len(q))
    BY WithoutFirst
  <2>4. x \o y = q
    <3>1. Len(q) \in Nat /\ k \in Nat /\ k =< Len(q)
      OBVIOUS
    <3>2. 1 \in 1..(Len(q) + 1) /\ k \in (1 - 1)..Len(q) /\ Len(q) \in k..Len(q)
      BY <3>1
    <3>3. SubSeq(q, 1, k) \o SubSeq(q, k + 1, Len(q)) = SubSeq(q, 1, Len(q))
      BY <3>2, ConcatAdjacentSubSeq
    <3> QED BY <2>2, <2>3, <3>3, SubSeqFull
  <2>5. (a \o x) \o y = a \o (x \o y)
    <3>1. a \in Seq(Tokens) /\ x \in Seq(Tokens) /\ y \in Seq(Tokens)
      BY <1>1, <2>2, <2>3
    <3> QED BY <3>1, Regrouped, Zenon
  <2>6. Stream(s, c, SubSeq(q, k + 1, Len(q))) = (a \o x) \o y
    BY <1>1, <2>1, <2>2, <2>3, Zenon DEF Stream
  <2> QED BY <1>2, <2>4, <2>5, <2>6, Zenon
<1> QED BY <1>3, <1>4

-----------------------------------------------------------------------------
(* The thread runs.                                                         *)

LEMMA NullIsNone == Null \notin States /\ Null \notin Replies /\ ~Idle.live /\ Idle.flags = {}
                    /\ Idle \in Callbacks
<1>1. ASSUME NEW s \in States PROVE s # Null
  <2>1. "pc" \in DOMAIN s
    BY DEF States
  <2>2. "pc" \notin DOMAIN Null
    BY DEF Null
  <2> QED BY <2>1, <2>2
<1>2. ASSUME NEW s \in Replies PROVE s # Null
  <2>1. "code" \in DOMAIN s
    BY DEF Replies
  <2>2. "code" \notin DOMAIN Null
    BY DEF Null
  <2> QED BY <2>1, <2>2
<1>3. Idle \in Callbacks /\ ~Idle.live /\ Idle.flags = {}
  <2>1. {} \in SUBSET Flags /\ <<>> \in Seq(Tokens) /\ FALSE \in BOOLEAN
    OBVIOUS
  <2> QED BY <2>1 DEF Idle, Callbacks
<1> QED BY <1>1, <1>2, <1>3

LEMMA RunningIs ==
  ASSUME HttpInv, NEW pc, Running(pc)
  PROVE  /\ st \in States /\ st # Null /\ st.pc = pc /\ cb.live /\ conn \in {"open", "fin"}
         /\ cb \in Callbacks /\ client \in ClientSet /\ client.queue \in Seq(Tokens)
         /\ client.pending \in Kinds \cup {"none"} /\ client.holds \in BOOLEAN
         /\ Held(client.holds) \in {0, BodyLen} /\ Held(client.holds) \in Nat
         /\ st.rd \in Seq(Tokens) /\ st.buf \in Seq(Tokens) /\ disk \in Seq(Tokens)
         /\ (pc # "sending" => out = Null)
         /\ (pc \notin {"top", "header"} => conn = "open")
         /\ (pc \notin {"top", "header", "exit"} /\ ~(pc = "result" /\ st.code = 0)
               => "close" \notin cb.flags)
         /\ (conn # "open" => Parked(st, Null) /\ "newdata" \notin cb.flags)
         /\ Closing(st, cb, out) /\ Connection(conn, st, cb, out) /\ Sources(st, open)
         /\ InHand(st, cb, out, client.pending, client.queue)
         /\ Uploaded(st, cb, out, client, disk, spoilt)
         /\ (conn = "open" /\ ~Overread(st, cb) =>
               OneRequest(Stream(st, cb, client.queue), client.pending, Held(client.holds)))
         /\ Len(st.buf) =< BufSize /\ -1 =< st.src
<1>1. /\ st # Null /\ cb.live /\ st.pc = pc
  BY DEF Running
<1>2. /\ Connection(conn, st, cb, out) /\ Sources(st, open)
      /\ InHand(st, cb, out, client.pending, client.queue)
      /\ Uploaded(st, cb, out, client, disk, spoilt)
      /\ (conn \in {"syn", "open"} /\ ~Overread(st, cb) =>
               OneRequest(Stream(st, cb, client.queue), client.pending, Held(client.holds)))
  BY <1>1 DEF HttpInv
<1>3. st \in States /\ cb \in Callbacks /\ client \in ClientSet /\ disk \in Seq(Tokens)
      /\ Len(st.buf) =< BufSize /\ -1 =< st.src
  BY <1>1 DEF HttpInv, Typed
<1>4. /\ client.queue \in Seq(Tokens) /\ client.pending \in Requests \cup {"none"}
      /\ client.holds \in BOOLEAN
  BY <1>3 DEF ClientSet
<1>5. client.pending \in Kinds \cup {"none"}
  BY <1>4, HttpAssumption
<1>6. Held(client.holds) \in {0, BodyLen} /\ Held(client.holds) \in Nat
  BY BodyIs DEF Held
<1>7. st.rd \in Seq(Tokens) /\ st.buf \in Seq(Tokens)
  BY <1>3 DEF States, Texts
<1>8. /\ conn \in {"open", "fin"}
      /\ (pc # "sending" => out = Null)
      /\ (conn # "open" => Parked(st, out) /\ "newdata" \notin cb.flags)
      /\ Closing(st, cb, out)
  BY <1>1, <1>2 DEF Connection
<1>9. conn # "open" => Parked(st, Null) /\ pc \in {"top", "header"}
  BY <1>1, <1>8 DEF Parked
<1>10. pc \notin {"top", "header", "exit"} /\ ~(pc = "result" /\ st.code = 0)
               => "close" \notin cb.flags
  BY <1>1, <1>8 DEF Closing, Parked
<1> QED BY <1>1, <1>2, <1>3, <1>4, <1>5, <1>6, <1>7, <1>8, <1>9, <1>10

\* The thread has gone on, and waits for no acknowledgement.
LEMMA GoesOn ==
  ASSUME HttpInv, NEW pc, Running(pc), out = Null, NEW t \in States, st' = t,
         UNCHANGED <<conn, cb, out, client, said>>,
         Len(t.buf) =< BufSize, -1 =< t.src, t.pc # "sending", t.idle = st.idle,
         conn # "open" => Parked(t, Null), Closing(t, cb, Null),
         disk' \in Seq(Tokens), open' \in [fd : Int, src : Int],
         Sources(t, open'),
         InHand(t, cb, Null, client.pending, client.queue),
         Uploaded(t, cb, Null, client, disk', spoilt'),
         t.pc = "runs" => Started(st, Null),
         conn = "open" /\ ~Overread(t, cb) =>
            OneRequest(Stream(t, cb, client.queue), client.pending, Held(client.holds))
  PROVE  HttpInv'
<1>1. /\ st # Null /\ cb.live /\ t # Null /\ conn \in {"open", "fin"}
      /\ (conn # "open" => "newdata" \notin cb.flags)
  BY RunningIs, NullIsNone DEF Running
<1>2. Typed'
  BY <1>1 DEF HttpInv, Typed
<1>3. Connection(conn', t, cb', out')
  BY <1>1 DEF Connection
<1>4. ReplyFits(t, out', client.pending')
  BY DEF ReplyFits
<1>5. ~Started(t, Null) \/ Started(st, Null)
  BY DEF Started
<1>6. said.ran + One(t.idle) + One(Started(t, Null)) =< said.told
  <2>1. said.ran \in Nat /\ said.told \in Nat
    BY DEF HttpInv, Typed
  <2>2. said.ran + One(st.idle) + One(Started(st, Null)) =< said.told
    BY <1>1 DEF HttpInv
  <2>3. One(Started(t, Null)) =< One(Started(st, Null)) /\ One(Started(t, Null)) \in Nat
        /\ One(Started(st, Null)) \in Nat /\ One(st.idle) \in Nat
    BY <1>5 DEF One
  <2> QED BY <2>1, <2>2, <2>3
<1>7. "idle" \in cb.flags => t.idle
  BY <1>1 DEF HttpInv
<1>8. client.holds => client.pending \in {"none", "putexpect"}
  BY DEF HttpInv
<1> QED BY <1>1, <1>2, <1>3, <1>4, <1>6, <1>7, <1>8 DEF HttpInv

\* The thread has gone on, and has read nothing.
LEMMA Onward ==
  ASSUME HttpInv, NEW pc, Running(pc), pc # "header", out = Null, conn = "open",
         NEW t \in States, st' = t, UNCHANGED <<conn, cb, out, client, said>>,
         t.rd = st.rd, t.ps = "READ" <=> st.ps = "READ", t.idle = st.idle,
         Len(t.buf) =< BufSize, -1 =< t.src, t.pc \notin {"sending", "header"},
         Closing(t, cb, Null), disk' \in Seq(Tokens), open' \in [fd : Int, src : Int],
         Sources(t, open'), Overread(st, cb) => Overread(t, cb),
         Serving(t, Null) => Serving(st, Null),
         Serving(t, Null) /\ Matches(st, client.pending) => Matches(t, client.pending),
         Uploaded(t, cb, Null, client, disk', spoilt'), Undecided(t),
         t.pc = "runs" => Started(st, Null)
  PROVE  HttpInv'
<1>1. Stream(t, cb, client.queue) = Stream(st, cb, client.queue)
  BY StreamSame
<1>2. /\ InHand(st, cb, Null, client.pending, client.queue) /\ st.pc = pc
      /\ (~Overread(st, cb) =>
             OneRequest(Stream(st, cb, client.queue), client.pending, Held(client.holds)))
  BY RunningIs
<1>3. InHand(t, cb, Null, client.pending, client.queue)
  <2>1. t.pc # "header" => Quiet(t.rd) \/ Overread(t, cb)
    BY <1>2 DEF InHand
  <2>2. Serving(t, Null) => client.pending # "none" /\ Matches(t, client.pending)
           /\ (Quiet(Stream(t, cb, client.queue)) \/ Overread(t, cb))
    BY <1>1, <1>2 DEF InHand
  <2> QED BY <2>1, <2>2 DEF InHand
<1>4. ~Overread(t, cb) =>
         OneRequest(Stream(t, cb, client.queue), client.pending, Held(client.holds))
  BY <1>1, <1>2
<1> QED BY <1>3, <1>4, GoesOn

\* What an upload consists of does not change as long as it is not read.
LEMMA UploadedSame ==
  ASSUME NEW s, NEW t, NEW c, NEW q, Stream(t, c, q) = Stream(s, c, q), NEW o, NEW cl, cl.queue = q,
         NEW d, NEW sp, NEW sp2, sp \subseteq sp2, Uploaded(s, c, o, cl, d, sp)
  PROVE  /\ (\/ s.pc = "continue"
             \/ s.pc = "dispatch" /\ ~AllSent(s)
             \/ s.pc = "sending" /\ s.then = "dispatch" /\ ~AllSent(s)) =>
               Follows(<<>>, Stream(t, c, q), Held(cl.holds), sp2)
         /\ s.pc = "receive" => s.left = BodyLen - Len(d) /\ Len(s.buf) < BufSize
                     /\ Follows(d \o s.buf, Stream(t, c, q), Held(cl.holds), sp2)
         /\ s.pc = "write" /\ "closed" \notin c.flags =>
               s.left = BodyLen - Len(d) /\ Follows(d \o s.buf, Stream(t, c, q), Held(cl.holds), sp2)
         /\ s.pc = "result" /\ s.code = 201 => d = Body \/ "stale" \in sp2
BY FollowsSpoilt DEF Uploaded

LEMMA SentKeeps == ASSUME HttpInv, Sent PROVE HttpInv'
<1>1. /\ Running("sending") /\ "acked" \in cb.flags
      /\ st' = [st EXCEPT !.pc = st.then, !.ps = "NONE"]
      /\ UNCHANGED <<out, client, disk, open, said, spoilt, bounds, conn, cb>>
  BY DEF Sent, GoOn
<1>2. PICK t : t = st' /\ t = [st EXCEPT !.pc = st.then, !.ps = "NONE"]
  BY <1>1
<1>3. /\ st \in States /\ st.pc = "sending" /\ cb.live /\ conn = "open" /\ "close" \notin cb.flags
      /\ Connection(conn, st, cb, out) /\ Sources(st, open) /\ Uploaded(st, cb, out, client, disk, spoilt)
      /\ Len(st.buf) =< BufSize /\ -1 =< st.src /\ disk \in Seq(Tokens)
  BY <1>1, RunningIs
<1>4. /\ out = Null /\ st.then \in {"dispatch", "answered", "runs"} /\ st.ps # "READ"
  BY <1>1, <1>3 DEF Connection
<1>5. /\ t \in States /\ t.pc = st.then /\ t.ps = "NONE" /\ t.rd = st.rd /\ t.idle = st.idle
      /\ t.buf = st.buf /\ t.src = st.src /\ t.begun = st.begun /\ t.code = st.code
      /\ t.handler = st.handler /\ t.expect = st.expect /\ t.form = st.form /\ t.fd = st.fd
      /\ t.left = st.left
  <2>1. st.then \in Pcs
    BY <1>4 DEF Pcs
  <2>2. "NONE" \in Readings
    BY DEF Readings
  <2> QED BY <1>2, <1>3, <2>1, <2>2 DEF States
<1>6. open \in [fd : Int, src : Int]
  BY DEF HttpInv, Typed
<1>7. Closing(t, cb, Null)
  BY <1>3 DEF Closing
<1>8. Sources(t, open')
  BY <1>1, <1>3, <1>4, <1>5 DEF Sources
<1>9. Serving(t, Null) => Serving(st, Null)
  BY <1>3, <1>4, <1>5 DEF Serving, AllSent
<1>10. Matches(st, client.pending) => Matches(t, client.pending)
  BY <1>5 DEF Matches
<1>11. Stream(t, cb, client.queue) = Stream(st, cb, client.queue)
  BY <1>4, <1>5, StreamSame
<1>12. Uploaded(t, cb, Null, client, disk', spoilt')
  <2>1. t.pc = "dispatch" /\ ~AllSent(t) =>
          Follows(<<>>, Stream(t, cb, client.queue), Held(client.holds), spoilt)
    BY <1>3, <1>5, <1>11 DEF Uploaded, AllSent
  <2> QED BY <1>1, <1>4, <1>5, <2>1 DEF Uploaded, Acknowledged
<1>15. Undecided(t)
  <2>1. InHand(st, cb, out, client.pending, client.queue)
    BY <1>1, RunningIs
  <2> QED BY <1>3, <1>4, <1>5, <2>1 DEF InHand, Undecided
<1>13. t.pc = "runs" => Started(st, Null)
  BY <1>3, <1>5 DEF Started, Acknowledged
<1>14. ~Overread(st, cb)
  BY <1>3 DEF Overread
<1> QED BY <1>1, <1>2, <1>3, <1>4, <1>5, <1>6, <1>7, <1>8, <1>9, <1>10, <1>12, <1>13, <1>14, <1>15, Onward

\* A handler is done: its result is still to be sent.
LEMMA ResultReached ==
  ASSUME HttpInv, NEW pc \in {"dispatch", "receive", "write"}, Running(pc),
         NEW t \in States, st' = t, UNCHANGED <<conn, cb, out, client, said>>,
         t.pc = "result", t.rd = st.rd, t.ps = st.ps, t.idle = st.idle,
         t.handler = st.handler, t.expect = st.expect, t.form = st.form,
         t.src = -1, ~t.fd, ~t.begun, Len(t.buf) =< BufSize,
         open' \in [fd : Int, src : Int], open'.fd = 0, open'.src = 0,
         disk' \in Seq(Tokens), t.code # 0 => Serving(st, Null),
         t.code = 201 => client.pending \in Uploads /\ (disk' = Body \/ "stale" \in spoilt'),
         t.code = 401 => client.pending = "putform",
         t.code = 1200 => client.pending = "newfolder",
         Overread(st, cb) => t.code = 500
  PROVE  HttpInv'
<1>0. HttpInv /\ Running(pc) /\ pc \notin {"top", "header", "exit", "sending", "result"}
  OBVIOUS
<1>1. /\ st \in States /\ st.pc = pc /\ conn = "open" /\ "close" \notin cb.flags /\ out = Null
      /\ InHand(st, cb, Null, client.pending, client.queue)
      /\ pc # "header"
  <2>1. /\ st \in States /\ st.pc = pc /\ conn = "open" /\ "close" \notin cb.flags /\ out = Null
        /\ InHand(st, cb, out, client.pending, client.queue)
    BY <1>0, RunningIs
  <2> QED BY <1>0, <2>1
<1>2. Closing(t, cb, Null)
  BY <1>1 DEF Closing
<1>3. Sources(t, open')
  BY DEF Sources
<1>4. Overread(st, cb) => Overread(t, cb)
  BY DEF Overread
<1>5. Serving(t, Null) => Serving(st, Null)
  BY DEF Serving
<1>8. Undecided(t)
  BY DEF Undecided
<1>6. Serving(t, Null) /\ Matches(st, client.pending) => Matches(t, client.pending)
  <2>1. Serving(t, Null) => client.pending # "none"
    BY <1>1, <1>5 DEF InHand
  <2> QED BY <2>1 DEF Matches
<1>7. Uploaded(t, cb, Null, client, disk', spoilt')
  BY DEF Uploaded, Acknowledged
<1> QED BY <1>1, <1>2, <1>3, <1>4, <1>5, <1>6, <1>7, <1>8, Onward

LEMMA HandlerFacts ==
  ASSUME HttpInv, Running("dispatch")
  PROVE  /\ open \in [fd : Int, src : Int] /\ ~st.fd /\ open.fd = 0
         /\ (st.handler # "get" => st.src = -1 /\ ~st.begun /\ open.src = 0 /\ Serving(st, Null))
         /\ (st.handler = "get" => st.src >= 0 /\ open.src = 1)
         /\ (Serving(st, Null) => Matches(st, client.pending))
         /\ ~Overread(st, cb) /\ Stream(st, cb, client.queue) \in Seq(Tokens)
         /\ st.code \in {0, 400, 1200}
<1>1. /\ st \in States /\ st.pc = "dispatch" /\ Sources(st, open) /\ -1 =< st.src
      /\ InHand(st, cb, out, client.pending, client.queue) /\ out = Null
      /\ cb \in Callbacks /\ client.queue \in Seq(Tokens)
  BY RunningIs
<1>2. PICK n : n = st.src
  OBVIOUS
<1>3. n \in Int /\ -1 =< n
  BY <1>1, <1>2 DEF States
<1>4. n = -1 \/ n >= 0
  BY <1>3
<1>5. open \in [fd : Int, src : Int]
  BY DEF HttpInv, Typed
<1>6. /\ (st.fd <=> st.pc \in {"receive", "write"})
      /\ open.fd = (IF st.fd THEN 1 ELSE 0)
      /\ open.src = (IF n >= 0 THEN 1 ELSE 0)
      /\ n >= 0 => st.handler = "get"
      /\ st.handler = "get" => n >= 0
      /\ st.begun => n >= 0
  BY <1>1, <1>2 DEF Sources
<1>7. st.handler # "get" => Serving(st, Null)
  BY <1>1, <1>6 DEF Serving, AllSent
<1>8. Serving(st, Null) => Matches(st, client.pending)
  BY <1>1 DEF InHand
<1>9. ~Overread(st, cb)
  BY <1>1 DEF Overread
<1>10. Stream(st, cb, client.queue) \in Seq(Tokens)
  BY <1>1, StreamIs
<1>13. st.code \in {0, 400, 1200}
  BY <1>1 DEF InHand, Undecided
<1>11. st.handler # "get" => st.src = -1 /\ ~st.begun /\ open.src = 0
  BY <1>2, <1>3, <1>4, <1>6
<1>12. st.handler = "get" => st.src >= 0 /\ open.src = 1
  BY <1>2, <1>6
<1> QED BY <1>1, <1>5, <1>6, <1>7, <1>8, <1>9, <1>10, <1>11, <1>12, <1>13

LEMMA ResultIs ==
  ASSUME NEW s \in States, NEW code \in Results, NEW t, t = Result(s, code)
  PROVE  /\ t \in States /\ t.pc = "result" /\ t.code = code /\ t.rd = s.rd /\ t.ps = s.ps
         /\ t.idle = s.idle /\ t.handler = s.handler /\ t.expect = s.expect /\ t.form = s.form
         /\ t.src = s.src /\ t.fd = s.fd /\ t.begun = s.begun /\ t.buf = s.buf
<1>1. PICK p : p = "result"
  OBVIOUS
<1>2. p \in Pcs
  BY <1>1 DEF Pcs
<1>3. t = [s EXCEPT !.pc = p, !.code = code]
  BY <1>1 DEF Result
<1>4. t \in States
  BY <1>2, <1>3 DEF States
<1> QED BY <1>1, <1>3, <1>4 DEF States

\* A handler ends without having opened anything.
LEMMA HandlerEnds ==
  ASSUME HttpInv, Running("dispatch"), st.handler # "get", NEW code \in Results,
         st' = Result(st, code), UNCHANGED <<conn, cb, out, client, said, open, disk>>,
         code # 201, code = 401 => client.pending = "putform",
         code = 1200 => client.pending = "newfolder"
  PROVE  HttpInv'
<1>1. st \in States /\ Len(st.buf) =< BufSize /\ disk \in Seq(Tokens)
  BY RunningIs
<1>2. PICK t : t = st' /\ t = Result(st, code)
  OBVIOUS
<1>3. /\ t \in States /\ t.pc = "result" /\ t.code = code /\ t.rd = st.rd /\ t.ps = st.ps
      /\ t.idle = st.idle /\ t.handler = st.handler /\ t.expect = st.expect /\ t.form = st.form
      /\ t.src = st.src /\ t.fd = st.fd /\ t.begun = st.begun /\ t.buf = st.buf
  BY <1>1, <1>2, ResultIs
<1>4. /\ open' \in [fd : Int, src : Int] /\ ~t.fd /\ t.src = -1 /\ ~t.begun
      /\ open'.fd = 0 /\ open'.src = 0 /\ Serving(st, Null) /\ ~Overread(st, cb)
  BY <1>3, HandlerFacts
<1> QED BY <1>1, <1>2, <1>3, <1>4, ResultReached

LEMMA DeleteKeeps == ASSUME HttpInv, Delete PROVE HttpInv'
<1>1. /\ Running("dispatch") /\ st.handler \in {"delete", "none"}
      /\ UNCHANGED <<out, client, disk, open, said, spoilt, conn, cb>>
  BY DEF Delete, GoOn
<1>2. PICK code \in IF st.handler = "none" THEN {st.code} ELSE {200, 400} : st' = Result(st, code)
  BY DEF Delete, GoOn
<1>3. code \in {0, 200, 400, 1200} /\ Matches(st, client.pending)
  BY <1>1, <1>2, HandlerFacts
<1>4. code \in Results
  BY <1>3 DEF Results, Responses
<1>5. code = 1200 => client.pending = "newfolder"
  <2>1. code = 1200 => code = st.code
    BY <1>1, <1>2
  <2> QED BY <1>3, <2>1 DEF Matches
<1> QED BY <1>1, <1>2, <1>3, <1>4, <1>5, HandlerEnds

LEMMA RunRefused ==
  ASSUME HttpInv, Running("dispatch"), st.handler = "run", NEW code \in {400, 1404},
         GoOn(Result(st, code)), UNCHANGED <<out, open, said, spoilt, client, disk>>
  PROVE  HttpInv'
<1>1. code \in Results /\ code # 201 /\ code # 401 /\ code # 1200
  BY DEF Results, Responses
<1> QED BY <1>1, HandlerEnds DEF GoOn

LEMMA PostRefused ==
  ASSUME HttpInv, Running("dispatch"), st.handler = "post",
         \/ st.len = -1 /\ GoOn(Result(st, 411))
         \/ st.len >= 0 /\ st.form /\ GoOn(Result(st, 401))
         \/ st.len >= 0 /\ ~st.form /\ GoOn(Result(st, 400)),
         UNCHANGED <<out, open, said, client, disk>>
  PROVE  HttpInv'
<1>1. Matches(st, client.pending)
  BY HandlerFacts
<1>2. PICK code \in {411, 401, 400} : GoOn(Result(st, code)) /\ (code = 401 => st.form)
  OBVIOUS
<1>3. code \in Results /\ code # 201 /\ code # 1200 /\ (code = 401 => client.pending = "putform")
  BY <1>1, <1>2 DEF Results, Responses, Matches
<1> QED BY <1>2, <1>3, HandlerEnds DEF GoOn

\* The file is opened: what has not been read is the body.
LEMMA PostOpens ==
  ASSUME HttpInv, Running("dispatch"), st.handler = "post", st.len >= 0, ~st.form,
         GoOn([st EXCEPT !.pc = "receive", !.fd = TRUE, !.left = st.len, !.buf = <<>>]),
         disk' = <<>>, open' = [open EXCEPT !.fd = @ + 1],
         UNCHANGED <<out, client, said, spoilt>>
  PROVE  HttpInv'
<1>1. /\ st \in States /\ st.pc = "dispatch" /\ conn = "open" /\ "close" \notin cb.flags /\ out = Null
      /\ Uploaded(st, cb, out, client, disk, spoilt) /\ -1 =< st.src
  BY RunningIs
<1>2. /\ open \in [fd : Int, src : Int] /\ ~st.fd /\ open.fd = 0
      /\ st.src = -1 /\ ~st.begun /\ open.src = 0 /\ Serving(st, Null)
      /\ ~Overread(st, cb) /\ Stream(st, cb, client.queue) \in Seq(Tokens)
  BY HandlerFacts
<1>3. st.len = BodyLen /\ st.len \in Lefts /\ BodyLen \in Nat
  <2>1. st.len \in Lengths
    BY <1>1 DEF States
  <2> QED BY <2>1, BodyIs DEF Lengths, Lefts
<1>4. PICK p : p = "receive"
  OBVIOUS
<1>5. PICK e : e = <<>>
  OBVIOUS
<1>6. p \in Pcs /\ e \in Texts /\ Len(e) = 0
  BY <1>4, <1>5 DEF Pcs, Texts
<1>7. PICK t : t = st' /\ t = [st EXCEPT !.pc = p, !.fd = TRUE, !.left = st.len, !.buf = e]
  BY <1>4, <1>5 DEF GoOn
<1>8. t \in States
  BY <1>1, <1>3, <1>6, <1>7 DEF States
<1>9. /\ t.pc = p /\ t.fd /\ t.left = st.len /\ t.buf = e /\ t.rd = st.rd /\ t.ps = st.ps
      /\ t.idle = st.idle /\ t.handler = st.handler /\ t.expect = st.expect /\ t.form = st.form
      /\ t.src = st.src /\ t.begun = st.begun /\ t.code = st.code
  BY <1>1, <1>7 DEF States
<1>10. PICK o : o = open'
  OBVIOUS
<1>11. o \in [fd : Int, src : Int] /\ o.fd = 1 /\ o.src = 0
  BY <1>2, <1>10
<1>12. Sources(t, open')
  BY <1>2, <1>4, <1>9, <1>10, <1>11 DEF Sources
<1>13. Follows(<<>>, Stream(st, cb, client.queue), Held(client.holds), spoilt)
  BY <1>1, <1>2 DEF Uploaded, AllSent
<1>14. Stream(t, cb, client.queue) = Stream(st, cb, client.queue)
  BY <1>9, StreamSame
<1>15. Uploaded(t, cb, Null, client, disk', spoilt')
  <2>1. t.left = BodyLen - Len(e) /\ Len(t.buf) < BufSize /\ e \o t.buf = e
    <3>1. e \o e = e
      BY <1>5, ConcatEmptySeq
    <3> QED BY <1>3, <1>6, <1>9, <3>1, HttpAssumption
  <2> QED BY <1>4, <1>5, <1>9, <1>13, <1>14, <2>1 DEF Uploaded, Acknowledged
<1>16. Closing(t, cb, Null)
  BY <1>1 DEF Closing
<1>17. /\ t.pc \notin {"sending", "header", "runs"} /\ Len(t.buf) =< BufSize /\ -1 =< t.src
       /\ ~Overread(st, cb) /\ Undecided(t)
       /\ (Matches(st, client.pending) => Matches(t, client.pending))
  BY <1>1, <1>2, <1>4, <1>6, <1>9, HttpAssumption DEF Undecided, Matches
<1>18. disk' \in Seq(Tokens)
  OBVIOUS
<1>19. UNCHANGED <<conn, cb>>
  BY DEF GoOn
<1> QED BY <1>1, <1>2, <1>7, <1>8, <1>9, <1>10, <1>11, <1>12, <1>15, <1>16, <1>17, <1>18, <1>19,
            Onward

LEMMA PostKeeps == ASSUME HttpInv, Post PROVE HttpInv'
BY PostRefused, PostOpens DEF Post, bounds

\* The thread receives an upload: what is open, and what there is of the body.
LEMMA ReceivingFacts ==
  ASSUME HttpInv, NEW pc \in {"receive", "write"}, Running(pc)
  PROVE  /\ st \in States /\ st.pc = pc /\ conn = "open" /\ "close" \notin cb.flags /\ out = Null
         /\ cb \in Callbacks /\ client.queue \in Seq(Tokens) /\ Held(client.holds) \in Nat
         /\ open \in [fd : Int, src : Int] /\ st.fd /\ open.fd = 1 /\ st.src = -1 /\ ~st.begun
         /\ open.src = 0 /\ Serving(st, Null) /\ client.pending \in Uploads
         /\ Len(st.buf) =< BufSize /\ disk \in Seq(Tokens) /\ st.buf \in Seq(Tokens)
         /\ Stream(st, cb, client.queue) \in Seq(Tokens)
<1>1. /\ st \in States /\ st.pc = pc /\ conn = "open" /\ "close" \notin cb.flags /\ out = Null
      /\ cb \in Callbacks /\ client.queue \in Seq(Tokens) /\ Held(client.holds) \in Nat
      /\ Len(st.buf) =< BufSize /\ disk \in Seq(Tokens) /\ st.buf \in Seq(Tokens)
      /\ Sources(st, open) /\ InHand(st, cb, Null, client.pending, client.queue) /\ -1 =< st.src
  BY RunningIs
<1>2. PICK n : n = st.src
  OBVIOUS
<1>3. n \in Int /\ -1 =< n
  BY <1>1, <1>2 DEF States
<1>4. /\ st.fd /\ st.handler = "post" /\ open.fd = 1
      /\ open.src = (IF n >= 0 THEN 1 ELSE 0) /\ ~(n >= 0) /\ ~st.begun
  BY <1>1, <1>2 DEF Sources
<1>5. Serving(st, Null)
  BY <1>1 DEF Serving
<1>6. client.pending \in Uploads
  BY <1>1, <1>4, <1>5 DEF InHand, Matches
<1>7. st.src = -1 /\ open.src = 0
  BY <1>2, <1>3, <1>4
<1>8. open \in [fd : Int, src : Int]
  BY DEF HttpInv, Typed
<1>9. Stream(st, cb, client.queue) \in Seq(Tokens)
  BY <1>1, StreamIs
<1> QED BY <1>1, <1>4, <1>5, <1>6, <1>7, <1>8, <1>9

LEMMA ReceivedKeeps == ASSUME HttpInv, Received PROVE HttpInv'
<1>1. /\ Running("receive") /\ st.left = 0
      /\ st' = [Result(st, 201) EXCEPT !.fd = FALSE]
      /\ open' = [open EXCEPT !.fd = @ - 1]
      /\ UNCHANGED <<out, client, disk, said, spoilt, conn, cb>>
  BY DEF Received, GoOn
<1>2. /\ st \in States /\ st.pc = "receive" /\ open \in [fd : Int, src : Int] /\ open.fd = 1
      /\ st.src = -1 /\ ~st.begun /\ open.src = 0 /\ Serving(st, Null)
      /\ client.pending \in Uploads /\ Len(st.buf) =< BufSize /\ disk \in Seq(Tokens)
      /\ st.buf \in Seq(Tokens) /\ Stream(st, cb, client.queue) \in Seq(Tokens)
      /\ Held(client.holds) \in Nat
  BY <1>1, ReceivingFacts
<1>3. disk = Body \/ "stale" \in spoilt
  <2>1. /\ st.left = BodyLen - Len(disk)
        /\ Follows(disk \o st.buf, Stream(st, cb, client.queue), Held(client.holds), spoilt)
    BY <1>1, <1>2, RunningIs DEF Uploaded
  <2>2. Len(disk) = BodyLen
    BY <1>1, <1>2, <2>1, BodyIs
  <2> QED BY <1>2, <2>1, <2>2, Stored
<1>4. PICK r : r = Result(st, 201)
  OBVIOUS
<1>5. 201 \in Results
  BY DEF Results, Responses
<1>6. /\ r \in States /\ r.pc = "result" /\ r.code = 201 /\ r.rd = st.rd /\ r.ps = st.ps
      /\ r.idle = st.idle /\ r.handler = st.handler /\ r.expect = st.expect /\ r.form = st.form
      /\ r.src = st.src /\ r.begun = st.begun /\ r.buf = st.buf
  BY <1>2, <1>4, <1>5, ResultIs
<1>7. PICK t : t = st' /\ t = [r EXCEPT !.fd = FALSE]
  BY <1>1, <1>4
<1>8. t \in States
  BY <1>6, <1>7 DEF States
<1>9. /\ t.pc = r.pc /\ ~t.fd /\ t.code = r.code /\ t.rd = r.rd /\ t.ps = r.ps
      /\ t.idle = r.idle /\ t.handler = r.handler /\ t.expect = r.expect /\ t.form = r.form
      /\ t.src = r.src /\ t.begun = r.begun /\ t.buf = r.buf
  BY <1>6, <1>7 DEF States
<1>10. open' \in [fd : Int, src : Int] /\ open'.fd = 0 /\ open'.src = 0
  BY <1>1, <1>2
<1>11. ~Overread(st, cb)
  BY <1>2 DEF Overread
<1>12. /\ t.pc = "result" /\ ~t.fd /\ t.code = 201 /\ t.rd = st.rd /\ t.ps = st.ps
       /\ t.idle = st.idle /\ t.handler = st.handler /\ t.expect = st.expect /\ t.form = st.form
       /\ t.src = -1 /\ ~t.begun /\ Len(t.buf) =< BufSize
  BY <1>2, <1>6, <1>9
<1>13. t.code # 401 /\ t.code # 1200
  BY <1>12
<1>14. PICK pc \in {"dispatch", "receive", "write"} : Running(pc)
  BY <1>1
<1>15. st' = t /\ UNCHANGED <<conn, cb, out, client, said>> /\ disk' \in Seq(Tokens)
  BY <1>1, <1>2, <1>7
<1>16. t.code # 0 => Serving(st, Null)
  BY <1>2
<1>17. client.pending \in Uploads /\ (disk' = Body \/ "stale" \in spoilt')
  BY <1>1, <1>2, <1>3
<1> QED BY <1>8, <1>10, <1>11, <1>12, <1>13, <1>14, <1>15, <1>16, <1>17, ResultReached

LEMMA WriteFails ==
  ASSUME HttpInv, Running("write"),
         GoOn([Result(st, 500) EXCEPT !.fd = FALSE, !.buf = <<>>]),
         open' = [open EXCEPT !.fd = @ - 1], disk' \in {disk, disk \o st.buf},
         UNCHANGED <<out, client, said, spoilt>>
  PROVE  HttpInv'
<1>2. /\ st \in States /\ open \in [fd : Int, src : Int] /\ open.fd = 1
      /\ st.src = -1 /\ ~st.begun /\ open.src = 0 /\ Serving(st, Null)
      /\ disk \in Seq(Tokens) /\ st.buf \in Seq(Tokens)
  BY ReceivingFacts
<1>3. disk' \in Seq(Tokens)
  <2>1. disk \o st.buf \in Seq(Tokens)
    BY <1>2, ConcatProperties
  <2> QED BY <1>2, <2>1
<1>4. PICK r : r = Result(st, 500)
  OBVIOUS
<1>5. 500 \in Results
  BY DEF Results, Responses
<1>6. /\ r \in States /\ r.pc = "result" /\ r.code = 500 /\ r.rd = st.rd /\ r.ps = st.ps
      /\ r.idle = st.idle /\ r.handler = st.handler /\ r.expect = st.expect /\ r.form = st.form
      /\ r.src = st.src /\ r.begun = st.begun
  BY <1>2, <1>4, <1>5, ResultIs
<1>7. PICK e : e = <<>>
  OBVIOUS
<1>8. PICK t : t = st' /\ t = [r EXCEPT !.fd = FALSE, !.buf = e]
  BY <1>4, <1>7 DEF GoOn
<1>9. e \in Texts /\ Len(e) =< BufSize
  BY <1>7, HttpAssumption DEF Texts
<1>10. t \in States
  <2>1. r \in States
    BY <1>6
  <2> QED BY <1>8, <1>9, <2>1, FileClosed
<1>11. /\ t.pc = r.pc /\ ~t.fd /\ t.code = r.code /\ t.rd = r.rd /\ t.ps = r.ps
       /\ t.idle = r.idle /\ t.handler = r.handler /\ t.expect = r.expect /\ t.form = r.form
       /\ t.src = r.src /\ t.begun = r.begun /\ t.buf = e
  BY <1>6, <1>8 DEF States
<1>12. open' \in [fd : Int, src : Int] /\ open'.fd = 0 /\ open'.src = 0
  BY <1>2
<1>13. UNCHANGED <<conn, cb>>
  BY DEF GoOn
<1>14. /\ t.pc = "result" /\ ~t.fd /\ t.code = 500 /\ t.rd = st.rd /\ t.ps = st.ps
       /\ t.idle = st.idle /\ t.handler = st.handler /\ t.expect = st.expect /\ t.form = st.form
       /\ t.src = -1 /\ ~t.begun /\ Len(t.buf) =< BufSize
  BY <1>2, <1>6, <1>9, <1>11
<1>15. t.code # 401 /\ t.code # 1200 /\ t.code # 201
  BY <1>14
<1>16. t.code = 201 => client.pending \in Uploads /\ (disk' = Body \/ "stale" \in spoilt')
  BY <1>15
<1>17. Running("write") /\ "write" \in {"dispatch", "receive", "write"}
  OBVIOUS
<1>18. /\ t.code = 401 => client.pending = "putform"
       /\ t.code = 1200 => client.pending = "newfolder"
       /\ t.code # 0 => Serving(st, Null)
       /\ Overread(st, cb) => t.code = 500
  BY <1>2, <1>14, <1>15
<1>19. st' = t /\ UNCHANGED <<conn, cb, out, client, said>>
  BY <1>8, <1>13
<1> QED BY <1>3, <1>10, <1>12, <1>14, <1>16, <1>17, <1>18, <1>19, ResultReached

\* What the buffer held is in the file.
LEMMA WriteGoesOn ==
  ASSUME HttpInv, Running("write"), "closed" \notin cb.flags, disk' = disk \o st.buf,
         GoOn([st EXCEPT !.pc = "receive", !.buf = <<>>,
                 !.left = IF Len(st.buf) > @ THEN Wrapped ELSE @ - Len(st.buf)]),
         UNCHANGED <<out, client, said, spoilt, open>>
  PROVE  HttpInv'
<1>1. /\ st \in States /\ st.pc = "write" /\ conn = "open" /\ "close" \notin cb.flags /\ out = Null
      /\ open \in [fd : Int, src : Int] /\ st.fd /\ open.fd = 1 /\ st.src = -1 /\ ~st.begun
      /\ open.src = 0 /\ Serving(st, Null) /\ disk \in Seq(Tokens) /\ st.buf \in Seq(Tokens)
      /\ Stream(st, cb, client.queue) \in Seq(Tokens) /\ Held(client.holds) \in Nat
  BY ReceivingFacts
<1>2. /\ st.left = BodyLen - Len(disk)
      /\ Follows(disk \o st.buf, Stream(st, cb, client.queue), Held(client.holds), spoilt)
      /\ Sources(st, open)
  BY <1>1, RunningIs DEF Uploaded
<1>3. Len(disk \o st.buf) = Len(disk) + Len(st.buf) /\ disk \o st.buf \in Seq(Tokens)
  BY <1>1, ConcatProperties
<1>4. PICK n : n = Len(st.buf)
  OBVIOUS
<1>5. PICK d : d = Len(disk)
  OBVIOUS
<1>6. PICK f : f = st.left - n
  OBVIOUS
<1>7. n \in Nat /\ d \in Nat /\ BodyLen \in Nat
  BY <1>1, <1>4, <1>5, BodyIs
<1>8. d + n =< BodyLen
  <2>1. PICK l \in Nat : l = Len(Stream(st, cb, client.queue))
    BY <1>1
  <2>2. PICK h \in Nat : h = Held(client.holds)
    BY <1>1
  <2>3. d + n + l + h =< BodyLen
    BY <1>2, <1>3, <1>4, <1>5, <2>1, <2>2 DEF Follows
  <2> QED BY <1>7, <2>3
<1>9. st.left = BodyLen - d /\ f = BodyLen - (d + n) /\ f \in Lefts /\ ~(n > st.left)
  BY <1>2, <1>5, <1>6, <1>7, <1>8 DEF Lefts
<1>10. PICK p : p = "receive"
  OBVIOUS
<1>11. PICK e : e = <<>>
  OBVIOUS
<1>12. p \in Pcs /\ e \in Texts /\ Len(e) = 0
  BY <1>10, <1>11 DEF Pcs, Texts
<1>13. PICK t : t = st' /\ t = [st EXCEPT !.pc = p, !.buf = e, !.left = f]
  BY <1>1, <1>4, <1>6, <1>9, <1>10, <1>11 DEF GoOn, States
<1>14. t \in States
  BY <1>1, <1>9, <1>12, <1>13 DEF States
<1>15. /\ t.pc = p /\ t.fd = st.fd /\ t.left = f /\ t.buf = e /\ t.rd = st.rd /\ t.ps = st.ps
       /\ t.idle = st.idle /\ t.handler = st.handler /\ t.expect = st.expect /\ t.form = st.form
       /\ t.src = st.src /\ t.begun = st.begun /\ t.code = st.code
  BY <1>1, <1>13 DEF States
<1>16. Sources(t, open')
  BY <1>1, <1>2, <1>10, <1>15 DEF Sources
<1>17. Stream(t, cb, client.queue) = Stream(st, cb, client.queue)
  BY <1>15, StreamSame
<1>18. Uploaded(t, cb, Null, client, disk', spoilt')
  <2>1. PICK x \in Seq(Tokens) : x = disk \o st.buf
    BY <1>3
  <2>2. x \o e = x
    BY <1>11, ConcatEmptySeq
  <2>3. t.left = BodyLen - Len(x) /\ Len(t.buf) < BufSize
    BY <1>3, <1>4, <1>5, <1>9, <1>12, <1>15, <2>1, HttpAssumption
  <2> QED BY <1>2, <1>10, <1>15, <1>17, <2>1, <2>2, <2>3 DEF Uploaded, Acknowledged
<1>19. Closing(t, cb, Null)
  BY <1>1 DEF Closing
<1>20. /\ t.pc \notin {"sending", "header", "runs"} /\ Len(t.buf) =< BufSize /\ -1 =< t.src
       /\ ~Overread(st, cb) /\ Undecided(t)
       /\ (Matches(st, client.pending) => Matches(t, client.pending))
  BY <1>1, <1>10, <1>12, <1>15, HttpAssumption DEF Undecided, Matches, Overread
<1>21. UNCHANGED <<conn, cb>> /\ disk' \in Seq(Tokens)
  BY <1>3 DEF GoOn
<1> QED BY <1>1, <1>13, <1>14, <1>15, <1>16, <1>18, <1>19, <1>20, <1>21, Onward

LEMMA WriteKeeps == ASSUME HttpInv, Write PROVE HttpInv'
<1>1. /\ Running("write") /\ UNCHANGED <<out, client, said, spoilt>>
  BY DEF Write
<1>2. CASE /\ GoOn([Result(st, 500) EXCEPT !.fd = FALSE, !.buf = <<>>])
           /\ open' = [open EXCEPT !.fd = @ - 1] /\ disk' \in {disk, disk \o st.buf}
  BY <1>1, <1>2, WriteFails
<1>3. CASE /\ "closed" \notin cb.flags /\ disk' = disk \o st.buf /\ UNCHANGED open
           /\ GoOn([st EXCEPT !.pc = "receive", !.buf = <<>>,
                      !.left = IF Len(st.buf) > @ THEN Wrapped ELSE @ - Len(st.buf)])
  BY <1>1, <1>3, WriteGoesOn
<1> QED BY <1>2, <1>3 DEF Write

\* Nothing is read of the file: it is closed.
LEMMA GetEnds ==
  ASSUME HttpInv, Running("dispatch"), st.handler = "get",
         GoOn([Result(st, IF st.src = 0 THEN 0 ELSE 400) EXCEPT !.src = -1, !.begun = FALSE]),
         open' = [open EXCEPT !.src = @ - 1], UNCHANGED <<out, client, said, disk>>
  PROVE  HttpInv'
<1>1. /\ st \in States /\ st.pc = "dispatch" /\ Len(st.buf) =< BufSize /\ disk \in Seq(Tokens)
  BY RunningIs
<1>2. /\ open \in [fd : Int, src : Int] /\ ~st.fd /\ open.fd = 0 /\ open.src = 1
      /\ ~Overread(st, cb)
  BY HandlerFacts
<1>3. PICK code : code = IF st.src = 0 THEN 0 ELSE 400
  OBVIOUS
<1>4. PICK r : r = Result(st, code)
  OBVIOUS
<1>5. code \in Results /\ code \in {0, 400}
  BY <1>3 DEF Results, Responses
<1>6. /\ r \in States /\ r.pc = "result" /\ r.code = code /\ r.rd = st.rd /\ r.ps = st.ps
      /\ r.idle = st.idle /\ r.handler = st.handler /\ r.expect = st.expect /\ r.form = st.form
      /\ r.fd = st.fd /\ r.buf = st.buf
  BY <1>1, <1>4, <1>5, ResultIs
<1>7. PICK m : m = -1
  OBVIOUS
<1>8. PICK t : t = st' /\ t = [r EXCEPT !.src = m, !.begun = FALSE]
  BY <1>3, <1>4, <1>7 DEF GoOn
<1>9. t \in States
  <2>1. m \in Int
    BY <1>7
  <2>2. PICK x : x = [r EXCEPT !.src = m]
    OBVIOUS
  <2>3. x \in States
    BY <1>6, <2>1, <2>2 DEF States
  <2>4. PICK no \in BOOLEAN : no = FALSE
    OBVIOUS
  <2>5. t = [x EXCEPT !.begun = no]
    BY <1>6, <1>8, <2>2, <2>4 DEF States
  <2> QED BY <2>3, <2>4, <2>5 DEF States
<1>10. /\ t.pc = r.pc /\ t.fd = r.fd /\ t.code = r.code /\ t.rd = r.rd /\ t.ps = r.ps
       /\ t.idle = r.idle /\ t.handler = r.handler /\ t.expect = r.expect /\ t.form = r.form
       /\ t.src = m /\ ~t.begun /\ t.buf = r.buf
  BY <1>6, <1>8 DEF States
<1>11. /\ t.pc = "result" /\ ~t.fd /\ t.code = code /\ t.rd = st.rd /\ t.ps = st.ps
       /\ t.idle = st.idle /\ t.handler = st.handler /\ t.expect = st.expect /\ t.form = st.form
       /\ t.src = -1 /\ ~t.begun /\ Len(t.buf) =< BufSize
  BY <1>1, <1>2, <1>6, <1>7, <1>10
<1>12. t.code # 0 => Serving(st, Null)
  BY <1>1, <1>3, <1>11 DEF Serving, AllSent
<1>13. t.code # 401 /\ t.code # 1200 /\ t.code # 201
  BY <1>5, <1>11
<1>14. open' \in [fd : Int, src : Int] /\ open'.fd = 0 /\ open'.src = 0
  BY <1>2
<1>15. st' = t /\ UNCHANGED <<conn, cb, out, client, said>> /\ disk' \in Seq(Tokens)
  BY <1>1, <1>8 DEF GoOn
<1> QED BY <1>2, <1>9, <1>11, <1>12, <1>13, <1>14, <1>15, ResultReached

LEMMA ContinueGoesOn ==
  ASSUME HttpInv, Running("continue"), GoOn([st EXCEPT !.pc = "dispatch"]),
         UNCHANGED <<out, open, said, spoilt, client, disk>>
  PROVE  HttpInv'
<1>1. /\ st \in States /\ st.pc = "continue" /\ conn = "open" /\ "close" \notin cb.flags /\ out = Null
      /\ Uploaded(st, cb, out, client, disk, spoilt) /\ -1 =< st.src /\ Len(st.buf) =< BufSize
      /\ Sources(st, open) /\ disk \in Seq(Tokens) /\ InHand(st, cb, out, client.pending, client.queue)
  BY RunningIs
<1>2. open \in [fd : Int, src : Int]
  BY DEF HttpInv, Typed
<1>3. PICK p : p = "dispatch"
  OBVIOUS
<1>4. PICK t : t = st' /\ t = [st EXCEPT !.pc = p]
  BY <1>3 DEF GoOn
<1>5. t \in States
  <2>1. p \in Pcs
    BY <1>3 DEF Pcs
  <2> QED BY <1>1, <1>4, <2>1 DEF States
<1>6. /\ t.pc = p /\ t.fd = st.fd /\ t.code = st.code /\ t.rd = st.rd /\ t.ps = st.ps
      /\ t.idle = st.idle /\ t.handler = st.handler /\ t.expect = st.expect /\ t.form = st.form
      /\ t.src = st.src /\ t.begun = st.begun /\ t.buf = st.buf
  BY <1>1, <1>4 DEF States
<1>7. Sources(t, open')
  BY <1>1, <1>3, <1>6 DEF Sources
<1>8. Stream(t, cb, client.queue) = Stream(st, cb, client.queue)
  BY <1>6, StreamSame
<1>9. Uploaded(t, cb, Null, client, disk', spoilt')
  BY <1>1, <1>3, <1>6, <1>8 DEF Uploaded, Acknowledged
<1>10. Closing(t, cb, Null) /\ ~Overread(st, cb) /\ Serving(st, Null)
  BY <1>1 DEF Closing, Overread, Serving
<1>11. Undecided(t) /\ (Matches(st, client.pending) => Matches(t, client.pending))
  BY <1>1, <1>3, <1>6 DEF Undecided, InHand, Matches
<1>12. t.pc \notin {"sending", "header", "runs"}
  BY <1>3, <1>6
<1>13. UNCHANGED <<conn, cb>>
  BY DEF GoOn
<1> QED BY <1>1, <1>2, <1>4, <1>5, <1>6, <1>7, <1>9, <1>10, <1>11, <1>12, <1>13, Onward

\* Nothing is left to be said, or there is nothing to say it with.
LEMMA ResultOver ==
  ASSUME HttpInv, NEW pc \in {"result", "answered"}, Running(pc), NEW t \in States, st' = t,
         UNCHANGED <<conn, cb, out, client, said, open, disk>>, t.pc \in {"answered", "top"},
         t.rd = st.rd, t.ps = st.ps, t.idle = st.idle, t.handler = st.handler,
         t.src = st.src, t.fd = st.fd, t.begun = st.begun, t.buf = st.buf,
         ~Overread(st, cb), t.pc = "answered" => pc = "result" /\ st.code # 0
  PROVE  HttpInv'
<1>1. /\ st \in States /\ st.pc = pc /\ conn = "open" /\ out = Null
      /\ -1 =< st.src /\ Len(st.buf) =< BufSize /\ Closing(st, cb, out)
      /\ (pc = "answered" \/ st.code # 0 => "close" \notin cb.flags)
      /\ Sources(st, open) /\ disk \in Seq(Tokens) /\ InHand(st, cb, out, client.pending, client.queue)
  BY RunningIs
<1>2. open \in [fd : Int, src : Int]
  BY DEF HttpInv, Typed
<1>3. Sources(t, open')
  BY <1>1 DEF Sources
<1>4. Closing(t, cb, Null)
  <2>1. CASE "close" \notin cb.flags
    BY <2>1 DEF Closing
  <2>2. CASE "close" \in cb.flags
    <3>1. t.pc = "top" /\ "newdata" \notin cb.flags /\ Quiet(st.rd) /\ st.src = -1 /\ ~st.fd
      BY <1>1, <2>2 DEF Closing, Parked
    <3> QED BY <3>1 DEF Closing, Parked
  <2> QED BY <2>1, <2>2
<1>5. Uploaded(t, cb, Null, client, disk', spoilt')
  BY DEF Uploaded, Acknowledged
<1>6. ~Serving(t, Null) /\ Undecided(t)
  BY DEF Serving, Undecided
<1> QED BY <1>1, <1>2, <1>3, <1>4, <1>5, <1>6, Onward

LEMMA AnswerOmitted ==
  ASSUME HttpInv, Running("result"), st.code # 0, st.code \notin Responses,
         GoOn([st EXCEPT !.pc = "answered"]), UNCHANGED <<out, open, said, client, disk>>
  PROVE  HttpInv'
<1>1. st \in States /\ st.pc = "result"
  BY RunningIs
<1>2. PICK p : p = "answered"
  OBVIOUS
<1>3. PICK t : t = st' /\ t = [st EXCEPT !.pc = p]
  BY <1>2 DEF GoOn
<1>4. t \in States
  <2>1. p \in Pcs
    BY <1>2 DEF Pcs
  <2> QED BY <1>1, <1>3, <2>1 DEF States
<1>5. /\ t.pc = p /\ t.rd = st.rd /\ t.ps = st.ps /\ t.idle = st.idle /\ t.handler = st.handler
      /\ t.src = st.src /\ t.fd = st.fd /\ t.begun = st.begun /\ t.buf = st.buf
  BY <1>1, <1>3 DEF States
<1>6. ~Overread(st, cb)
  BY <1>1 DEF Overread, Responses
<1>7. UNCHANGED <<conn, cb>>
  BY DEF GoOn
<1> QED BY <1>2, <1>3, <1>4, <1>5, <1>6, <1>7, ResultOver

LEMMA Next200Keeps == ASSUME HttpInv, Next200 PROVE HttpInv'
<1>1. /\ st' = [st EXCEPT !.pc = "top", !.code = 0]
      /\ UNCHANGED <<conn, cb, out, client, disk, open, said>>
  BY DEF Next200, GoOn
<1>2. PICK pc \in {"result", "answered"} : Running(pc) /\ (pc = "result" => st.code = 0)
  BY DEF Next200
<1>3. st \in States /\ st.pc = pc
  BY <1>2, RunningIs
<1>4. PICK p : p = "top"
  OBVIOUS
<1>5. PICK z : z = 0
  OBVIOUS
<1>6. PICK t : t = st' /\ t = [st EXCEPT !.pc = p, !.code = z]
  BY <1>1, <1>4, <1>5
<1>7. t \in States
  <2>1. p \in Pcs /\ z \in Results
    BY <1>4, <1>5 DEF Pcs, Results
  <2> QED BY <1>3, <1>6, <2>1 DEF States
<1>8. /\ t.pc = p /\ t.rd = st.rd /\ t.ps = st.ps /\ t.idle = st.idle /\ t.handler = st.handler
      /\ t.src = st.src /\ t.fd = st.fd /\ t.begun = st.begun /\ t.buf = st.buf
  BY <1>3, <1>6 DEF States
<1>9. ~Overread(st, cb)
  BY <1>2, <1>3 DEF Overread
<1> QED BY <1>1, <1>2, <1>4, <1>6, <1>7, <1>8, <1>9, ResultOver

-----------------------------------------------------------------------------
(* The head of a request is read.                                           *)

LEMMA TopKeeps == ASSUME HttpInv, Top PROVE HttpInv'
<1>1. /\ Running("top") /\ st' = Reset(st)
      /\ UNCHANGED <<out, client, disk, open, said, spoilt, conn, cb>>
  BY DEF Top, GoOn
<1>2. /\ st \in States /\ st.pc = "top" /\ out = Null /\ Len(st.buf) =< BufSize /\ -1 =< st.src
      /\ (conn # "open" => Parked(st, Null)) /\ Closing(st, cb, out) /\ Sources(st, open)
      /\ InHand(st, cb, out, client.pending, client.queue) /\ disk \in Seq(Tokens)
      /\ (conn = "open" /\ ~Overread(st, cb) =>
               OneRequest(Stream(st, cb, client.queue), client.pending, Held(client.holds)))
  BY <1>1, RunningIs
<1>3. open \in [fd : Int, src : Int]
  BY DEF HttpInv, Typed
<1>4. PICK p : p = "header"
  OBVIOUS
<1>5. PICK l : l = -1
  OBVIOUS
<1>6. PICK h : h = "none"
  OBVIOUS
<1>7. PICK z : z = 0
  OBVIOUS
<1>8. PICK t : t = st' /\ t = [st EXCEPT !.pc = p, !.expect = FALSE, !.len = l, !.handler = h,
                                          !.form = FALSE, !.fd = FALSE, !.code = z]
  BY <1>1, <1>4, <1>5, <1>6, <1>7 DEF Reset
<1>9. t \in States
  <2>1. p \in Pcs /\ l \in Lengths /\ h \in Handlers /\ z \in Results
    BY <1>4, <1>5, <1>6, <1>7 DEF Pcs, Lengths, Handlers, Results
  <2> QED BY <1>2, <1>8, <2>1 DEF States
<1>10. /\ t.pc = p /\ ~t.expect /\ t.len = l /\ t.handler = h /\ ~t.form /\ ~t.fd /\ t.code = z
       /\ t.rd = st.rd /\ t.ps = st.ps /\ t.idle = st.idle /\ t.src = st.src /\ t.begun = st.begun
       /\ t.buf = st.buf
  BY <1>2, <1>8 DEF States
<1>11. Stream(t, cb, client.queue) = Stream(st, cb, client.queue)
  BY <1>10, StreamSame
<1>12. ~st.fd /\ ~(st.src >= 0) /\ ~st.begun
  BY <1>2 DEF Sources
<1>13. Sources(t, open')
  BY <1>1, <1>2, <1>4, <1>6, <1>10, <1>12 DEF Sources
<1>14. Fresh(t)
  BY <1>5, <1>6, <1>7, <1>10 DEF Fresh
<1>15. Parked(st, Null) => Parked(t, Null)
  BY <1>4, <1>10, <1>14 DEF Parked
<1>16. Closing(t, cb, Null)
  BY <1>2, <1>15 DEF Closing
<1>17. InHand(t, cb, Null, client.pending, client.queue)
  <2>1. Matches(t, client.pending)
    BY <1>14 DEF Matches, Fresh
  <2>2. ~Serving(t, Null) /\ Undecided(t) /\ Known(t, client.pending)
    BY <1>4, <1>6, <1>7, <1>10 DEF Serving, Undecided, Known
  <2> QED BY <1>4, <1>10, <1>12, <2>1, <2>2 DEF InHand
<1>18. Uploaded(t, cb, Null, client, disk', spoilt')
  BY <1>4, <1>10 DEF Uploaded, Acknowledged
<1>19. ~Overread(st, cb) /\ t.pc \notin {"sending", "runs"}
  BY <1>2, <1>4, <1>10 DEF Overread
<1> QED BY <1>1, <1>2, <1>3, <1>8, <1>9, <1>10, <1>11, <1>13, <1>15, <1>16, <1>17, <1>18, <1>19, GoesOn

LEMMA HeaderFacts ==
  ASSUME HttpInv, Running("header")
  PROVE  /\ st \in States /\ st.pc = "header" /\ out = Null /\ cb \in Callbacks
         /\ Len(st.buf) =< BufSize /\ -1 =< st.src /\ client.queue \in Seq(Tokens)
         /\ client.pending \in Kinds \cup {"none"} /\ disk \in Seq(Tokens)
         /\ Held(client.holds) \in Nat /\ st.rd \in Seq(Tokens)
         /\ open \in [fd : Int, src : Int] /\ ~st.fd /\ open.fd = 0
         /\ open.src = (IF st.src >= 0 THEN 1 ELSE 0) /\ (st.src >= 0 <=> st.handler = "get")
         /\ ~st.begun /\ Matches(st, client.pending) /\ Known(st, client.pending)
         /\ (conn # "open" \/ "close" \in cb.flags =>
                Parked(st, Null) /\ Fresh(st) /\ Quiet(st.rd) /\ "newdata" \notin cb.flags)
         /\ ~Overread(st, cb)
         /\ (conn = "open" =>
               OneRequest(Stream(st, cb, client.queue), client.pending, Held(client.holds)))
         /\ (st.src >= 0 => \A i \in 1..Len(Stream(st, cb, client.queue)) :
                               Stream(st, cb, client.queue)[i] \notin {"GET", "DIR"})
<1>1. /\ st \in States /\ st.pc = "header" /\ out = Null /\ cb \in Callbacks
      /\ Len(st.buf) =< BufSize /\ -1 =< st.src /\ client.queue \in Seq(Tokens)
      /\ client.pending \in Kinds \cup {"none"} /\ disk \in Seq(Tokens)
      /\ Held(client.holds) \in Nat /\ st.rd \in Seq(Tokens)
      /\ Sources(st, open) /\ InHand(st, cb, Null, client.pending, client.queue)
      /\ (conn # "open" => Parked(st, Null) /\ "newdata" \notin cb.flags)
      /\ Closing(st, cb, Null)
      /\ (conn = "open" /\ ~Overread(st, cb) =>
               OneRequest(Stream(st, cb, client.queue), client.pending, Held(client.holds)))
  BY RunningIs
<1>2. open \in [fd : Int, src : Int]
  BY DEF HttpInv, Typed
<1>3. ~Overread(st, cb)
  BY <1>1 DEF Overread
<1>4. /\ ~st.fd /\ open.fd = 0 /\ open.src = (IF st.src >= 0 THEN 1 ELSE 0)
      /\ (st.src >= 0 <=> st.handler = "get") /\ ~st.begun
  BY <1>1 DEF Sources
<1>5. /\ Matches(st, client.pending) /\ Known(st, client.pending)
      /\ (st.src >= 0 => \A i \in 1..Len(Stream(st, cb, client.queue)) :
                               Stream(st, cb, client.queue)[i] \notin {"GET", "DIR"})
  BY <1>1 DEF InHand, Undecided
<1>6. "close" \in cb.flags => Parked(st, Null) /\ "newdata" \notin cb.flags
  BY <1>1 DEF Closing
<1>7. Parked(st, Null) => Fresh(st) /\ Quiet(st.rd)
  BY <1>1 DEF Parked
<1> QED BY <1>1, <1>2, <1>3, <1>4, <1>5, <1>6, <1>7

\* What is known when a line has been read.
LEMMA LineFacts ==
  ASSUME HttpInv, Running("header"), st.rd # <<>>, NEW t \in States, t.rd = Tail(st.rd),
         t.ps = st.ps
  PROVE  LET stream == Stream(t, cb, client.queue)
             line == Head(st.rd)
         IN  /\ stream \in Seq(Tokens)
             /\ (Quiet(st.rd) => Quiet(t.rd) /\ line \in Bytes)
             /\ (conn = "open" => OneRequest(stream, client.pending, Held(client.holds)))
             /\ (line \notin Bytes =>
                    /\ conn = "open" /\ "close" \notin cb.flags
                    /\ LineFits(line, client.pending))
             /\ (line = "end" => Quiet(stream) /\ Quiet(t.rd)
                                 /\ Follows(<<>>, stream, Held(client.holds), spoilt))
             /\ (line \in {"GET", "DIR"} => st.src = -1)
             /\ (line \in {"GET", "DIR"} \/ st.src >= 0 =>
                    \A i \in 1..Len(stream) : stream[i] \notin {"GET", "DIR"})
<1>1. PICK s \in Seq(Tokens) : s = Stream(st, cb, client.queue)
  BY HeaderFacts, StreamIs
<1>2. PICK u \in Seq(Tokens) : u = Stream(t, cb, client.queue)
  BY HeaderFacts, StreamIs
<1>3. PICK line : line = Head(st.rd)
  OBVIOUS
<1>4. Without(u, s, 1) /\ 0 < Len(s) /\ s[1] = line
  BY <1>1, <1>2, <1>3, HeaderFacts, LineRead
<1>5. Len(s) \in Nat /\ Len(u) \in Nat /\ 1 \in Nat /\ 1 \in 1..Len(s)
  BY <1>4
<1>6. /\ client.pending \in Kinds \cup {"none"} /\ Held(client.holds) \in Nat
      /\ st.rd \in Seq(Tokens) /\ -1 =< st.src /\ st.src \in Int /\ cb \in Callbacks
      /\ client.queue \in Seq(Tokens)
      /\ (conn # "open" \/ "close" \in cb.flags => Quiet(st.rd))
      /\ (conn = "open" => OneRequest(s, client.pending, Held(client.holds)))
      /\ (st.src >= 0 => \A i \in 1..Len(s) : s[i] \notin {"GET", "DIR"})
  BY <1>1, HeaderFacts DEF States
<1>7. Quiet(st.rd) => Quiet(t.rd) /\ line \in Bytes
  <2>1. PICK a \in Seq(Tokens) : a = st.rd
    BY <1>6
  <2>2. Len(a) \in Nat \ {0} /\ Head(a) = a[1]
    BY <2>1, EmptySeq
  <2>3. Len(Tail(a)) = Len(a) - 1 /\ \A i \in 1..Len(Tail(a)) : Tail(a)[i] = a[i + 1]
    BY <2>1, HeadTailProperties
  <2>4. ASSUME Quiet(a), NEW i \in 1..Len(Tail(a)) PROVE Tail(a)[i] \in Bytes
    <3>1. i + 1 \in 1..Len(a)
      BY <2>2, <2>3
    <3> QED BY <2>3, <2>4, <3>1 DEF Quiet
  <2>5. Quiet(a) => Head(a) \in Bytes
    BY <2>2 DEF Quiet
  <2> QED BY <1>3, <2>1, <2>4, <2>5 DEF Quiet
<1>8. conn = "open" => OneRequest(u, client.pending, Held(client.holds))
  BY <1>4, <1>5, <1>6, WithoutOne
<1>9. line \notin Bytes => conn = "open" /\ "close" \notin cb.flags /\ LineFits(line, client.pending)
  <2>1. ASSUME line \notin Bytes PROVE conn = "open" /\ "close" \notin cb.flags
    BY <1>6, <1>7, <2>1
  <2>2. ASSUME line \notin Bytes PROVE line \in Of(client.pending)
    BY <1>4, <1>5, <1>6, <2>1, <2>2 DEF OneRequest, Belongs
  <2> QED BY <1>6, <2>1, <2>2, LineOf
<1>10. "end" \notin Bytes /\ "GET" \notin Bytes /\ "DIR" \notin Bytes
  <2>1. {"end", "GET", "DIR"} \subseteq LineTokens
    BY DEF LineTokens
  <2> QED BY <2>1, TokensAre
<1>11. line = "end" => Quiet(u) /\ Follows(<<>>, u, Held(client.holds), spoilt)
  BY <1>4, <1>5, <1>6, <1>9, <1>10, HeadRead
<1>12. Quiet(u) => Quiet(t.rd)
  BY <1>2, <1>6, QuietStream
<1>13. line \in {"GET", "DIR"} => st.src = -1 /\ \A i \in 1..Len(u) : u[i] \notin {"GET", "DIR"}
  <2>1. ASSUME line \in {"GET", "DIR"} PROVE ~(st.src >= 0)
    BY <1>4, <1>5, <1>6, <2>1
  <2>2. ASSUME line \in {"GET", "DIR"}
        PROVE  \A i \in 1..Len(u) : u[i] \notin {"GET", "DIR"}
    BY <1>4, <1>5, <1>6, <1>9, <1>10, <2>2, SourceOnce
  <2> QED BY <1>6, <2>1, <2>2
<1>14. st.src >= 0 => \A i \in 1..Len(u) : u[i] \notin {"GET", "DIR"}
  <2>1. ASSUME NEW i \in 1..Len(u) PROVE u[i] = s[1 + i] /\ 1 + i \in 1..Len(s)
    BY <1>4, <1>5 DEF Without
  <2> QED BY <1>6, <2>1
<1> QED BY <1>2, <1>3, <1>7, <1>8, <1>9, <1>11, <1>12, <1>13, <1>14

\* A line has been read, and the head goes on.
LEMMA HeaderOn ==
  ASSUME HttpInv, Running("header"), st.rd # <<>>, NEW t \in States, st' = t,
         UNCHANGED <<conn, cb, out, client, disk, said, spoilt>>,
         t.rd = Tail(st.rd), t.ps = st.ps, t.idle = st.idle, t.pc = "header", t.fd = st.fd,
         t.buf = st.buf, t.begun = st.begun, -1 =< t.src,
         open' \in [fd : Int, src : Int], open'.fd = open.fd,
         open'.src = (IF t.src >= 0 THEN 1 ELSE 0), t.src >= 0 <=> t.handler = "get",
         Matches(t, client.pending), Known(t, client.pending),
         t.src >= 0 => st.src >= 0 \/ Head(st.rd) \in {"GET", "DIR"},
         Head(st.rd) \in Bytes => (Fresh(st) => Fresh(t))
  PROVE  HttpInv'
<1>1. /\ st \in States /\ out = Null /\ Len(st.buf) =< BufSize /\ disk \in Seq(Tokens)
      /\ ~st.fd /\ open.fd = 0 /\ ~st.begun /\ ~Overread(st, cb)
      /\ (conn # "open" \/ "close" \in cb.flags =>
             Parked(st, Null) /\ Fresh(st) /\ Quiet(st.rd) /\ "newdata" \notin cb.flags)
  BY HeaderFacts
<1>2. PICK u : u = Stream(t, cb, client.queue)
  OBVIOUS
<1>3. /\ (Quiet(st.rd) => Quiet(t.rd) /\ Head(st.rd) \in Bytes)
      /\ (conn = "open" => OneRequest(u, client.pending, Held(client.holds)))
      /\ (Head(st.rd) \in {"GET", "DIR"} \/ st.src >= 0 =>
             \A i \in 1..Len(u) : u[i] \notin {"GET", "DIR"})
  BY <1>2, LineFacts
<1>4. Parked(st, Null) => -1 = st.src
  BY DEF Parked
<1>5. conn # "open" \/ "close" \in cb.flags => Parked(t, Null)
  <2>1. ASSUME conn # "open" \/ "close" \in cb.flags PROVE Parked(t, Null)
    <3>1. Head(st.rd) \in Bytes /\ Fresh(t) /\ Quiet(t.rd) /\ st.src = -1
      BY <1>1, <1>3, <1>4, <2>1
    <3>2. Head(st.rd) \notin {"GET", "DIR"}
      <4>1. {"GET", "DIR"} \subseteq LineTokens
        BY DEF LineTokens
      <4> QED BY <3>1, <4>1, TokensAre
    <3>3. t.src = -1
      <4>1. ~(t.src >= 0)
        BY <3>1, <3>2
      <4>2. t.src \in Int
        BY DEF States
      <4> QED BY <4>1, <4>2
    <3> QED BY <1>1, <3>1, <3>3 DEF Parked
  <2> QED BY <2>1
<1>6. Closing(t, cb, Null)
  BY <1>1, <1>5 DEF Closing
<1>7. Sources(t, open')
  BY <1>1 DEF Sources
<1>8. InHand(t, cb, Null, client.pending, client.queue)
  <2>1. ~Serving(t, Null) /\ Undecided(t)
    BY DEF Serving, Undecided, Known, Matches
  <2> QED BY <1>2, <1>3, <2>1 DEF InHand
<1>9. Uploaded(t, cb, Null, client, disk', spoilt')
  BY DEF Uploaded, Acknowledged
<1> QED BY <1>1, <1>2, <1>3, <1>5, <1>6, <1>7, <1>8, <1>9, GoesOn

\* The state without its line.
Rest(s, junk) == [s EXCEPT !.rd = Tail(@), !.junk = junk]

LEMMA LineTaken ==
  ASSUME NEW s \in States, s.rd \in Seq(Tokens), s.rd # <<>>, NEW junk \in BOOLEAN, NEW t,
         t = Rest(s, junk)
  PROVE  /\ t \in States
         /\ t.pc = s.pc /\ t.rd = Tail(s.rd) /\ t.ps = s.ps /\ t.idle = s.idle
         /\ t.handler = s.handler /\ t.src = s.src /\ t.fd = s.fd /\ t.begun = s.begun
         /\ t.buf = s.buf /\ t.code = s.code /\ t.len = s.len /\ t.expect = s.expect
         /\ t.form = s.form
<1>1. PICK x : x = Tail(s.rd)
  OBVIOUS
<1>2. x \in Texts
  BY <1>1, HeadTailProperties DEF Texts
<1>3. t = [s EXCEPT !.rd = x, !.junk = junk]
  BY <1>1 DEF States, Rest
<1>4. PICK y : y = [s EXCEPT !.rd = x]
  OBVIOUS
<1>5. y \in States
  BY <1>2, <1>4 DEF States
<1>6. t = [y EXCEPT !.junk = junk]
  BY <1>3, <1>4 DEF States
<1>7. t \in States
  BY <1>5, <1>6 DEF States
<1>8. /\ t.pc = s.pc /\ t.rd = x /\ t.ps = s.ps /\ t.idle = s.idle
      /\ t.handler = s.handler /\ t.src = s.src /\ t.fd = s.fd /\ t.begun = s.begun
      /\ t.buf = s.buf /\ t.code = s.code /\ t.len = s.len /\ t.expect = s.expect
      /\ t.form = s.form
  BY <1>3 DEF States
<1> QED BY <1>1, <1>7, <1>8

\* A line that says nothing: bytes that nobody read, and what follows them.
LEMMA LineIgnored ==
  ASSUME HttpInv, Running("header"), st.rd # <<>>, NEW junk \in BOOLEAN,
         GoOn(Rest(st, junk)),
         UNCHANGED <<out, client, disk, said, spoilt, open>>
  PROVE  HttpInv'
<1>1. /\ st \in States /\ st.pc = "header" /\ st.rd \in Seq(Tokens)
      /\ open \in [fd : Int, src : Int] /\ open.src = (IF st.src >= 0 THEN 1 ELSE 0)
      /\ (st.src >= 0 <=> st.handler = "get") /\ Matches(st, client.pending)
      /\ Known(st, client.pending) /\ -1 =< st.src
  BY HeaderFacts
<1>4. PICK t : t = st' /\ t = Rest(st, junk)
  BY DEF GoOn
<1>6. /\ t \in States
      /\ t.pc = st.pc /\ t.rd = Tail(st.rd) /\ t.ps = st.ps /\ t.idle = st.idle
      /\ t.handler = st.handler /\ t.src = st.src /\ t.fd = st.fd /\ t.begun = st.begun
      /\ t.buf = st.buf /\ t.code = st.code /\ t.len = st.len /\ t.expect = st.expect
      /\ t.form = st.form
  BY <1>1, <1>4, LineTaken
<1>7. Matches(t, client.pending) /\ (Fresh(st) => Fresh(t)) /\ Known(t, client.pending)
  BY <1>1, <1>6 DEF Matches, Fresh, Known
<1>8. UNCHANGED <<conn, cb>>
  BY DEF GoOn
<1>9. t.pc = "header"
  BY <1>1, <1>6
<1> QED BY <1>1, <1>4, <1>6, <1>7, <1>8, <1>9, HeaderOn

\* The head is over.
LEMMA HeadEnds ==
  ASSUME HttpInv, Running("header"), st.rd # <<>>, Head(st.rd) = "end", NEW junk \in BOOLEAN,
         GoOn([Rest(st, junk) EXCEPT !.pc = "continue"]),
         UNCHANGED <<out, client, disk, said, spoilt, open>>
  PROVE  HttpInv'
<1>1. /\ st \in States /\ st.pc = "header" /\ st.rd \in Seq(Tokens) /\ out = Null
      /\ Len(st.buf) =< BufSize /\ disk \in Seq(Tokens) /\ ~st.fd /\ open.fd = 0 /\ ~st.begun
      /\ open \in [fd : Int, src : Int] /\ open.src = (IF st.src >= 0 THEN 1 ELSE 0)
      /\ (st.src >= 0 <=> st.handler = "get") /\ Matches(st, client.pending)
      /\ Known(st, client.pending) /\ -1 =< st.src
  BY HeaderFacts
<1>3. PICK p : p = "continue"
  OBVIOUS
<1>2. PICK y : y = Rest(st, junk)
  OBVIOUS
<1>4. /\ y \in States
      /\ y.rd = Tail(st.rd) /\ y.ps = st.ps /\ y.idle = st.idle
      /\ y.handler = st.handler /\ y.src = st.src /\ y.fd = st.fd /\ y.begun = st.begun
      /\ y.buf = st.buf /\ y.code = st.code /\ y.expect = st.expect
      /\ y.form = st.form
  BY <1>1, <1>2, LineTaken
<1>5. PICK t : t = st' /\ t = [y EXCEPT !.pc = p]
  BY <1>2, <1>3 DEF GoOn
<1>6. t \in States
  <2>1. p \in Pcs
    BY <1>3 DEF Pcs
  <2> QED BY <1>4, <1>5, <2>1 DEF States
<1>17. /\ t.pc = p /\ t.rd = y.rd /\ t.ps = y.ps /\ t.idle = y.idle /\ t.handler = y.handler
       /\ t.src = y.src /\ t.fd = y.fd /\ t.begun = y.begun /\ t.buf = y.buf
       /\ t.code = y.code /\ t.expect = y.expect /\ t.form = y.form
  BY <1>4, <1>5 DEF States
<1>7. /\ t.pc = p /\ t.rd = Tail(st.rd) /\ t.ps = st.ps /\ t.idle = st.idle
      /\ t.handler = st.handler /\ t.src = st.src /\ t.fd = st.fd /\ t.begun = st.begun
      /\ t.buf = st.buf /\ t.code = st.code /\ t.expect = st.expect /\ t.form = st.form
  BY <1>4, <1>17
<1>8. PICK u : u = Stream(t, cb, client.queue)
  OBVIOUS
<1>9. "end" \notin Bytes
  BY TokensAre
<1>10. /\ conn = "open" /\ "close" \notin cb.flags /\ LineFits("end", client.pending)
       /\ OneRequest(u, client.pending, Held(client.holds))
       /\ Quiet(u) /\ Quiet(t.rd) /\ Follows(<<>>, u, Held(client.holds), spoilt)
  BY <1>6, <1>7, <1>8, <1>9, LineFacts
<1>11. client.pending # "none"
  BY <1>10 DEF LineFits
<1>12. Sources(t, open')
  BY <1>1, <1>3, <1>7 DEF Sources
<1>13. InHand(t, cb, Null, client.pending, client.queue)
  <2>1. Matches(t, client.pending)
    BY <1>1, <1>7 DEF Matches
  <2>2. Undecided(t)
    BY <1>1, <1>3, <1>7 DEF Undecided, Known, Matches
  <2> QED BY <1>3, <1>7, <1>8, <1>10, <1>11, <2>1, <2>2 DEF InHand
<1>14. Uploaded(t, cb, Null, client, disk', spoilt')
  BY <1>3, <1>7, <1>8, <1>10 DEF Uploaded, Acknowledged
<1>15. Closing(t, cb, Null)
  BY <1>10 DEF Closing
<1>16. t.pc \notin {"sending", "runs"} /\ UNCHANGED <<conn, cb>>
  BY <1>3, <1>7 DEF GoOn
<1>18. /\ UNCHANGED <<conn, cb, out, client, said>> /\ disk' \in Seq(Tokens)
       /\ open' \in [fd : Int, src : Int] /\ out = Null
  BY <1>1, <1>16
<1>19. /\ st' = t /\ t.idle = st.idle /\ t.pc \notin {"sending", "runs"} /\ Len(t.buf) =< BufSize
       /\ -1 =< t.src
  BY <1>1, <1>5, <1>7, <1>16
<1>20. /\ conn # "open" => Parked(t, Null)
       /\ conn = "open" /\ ~Overread(t, cb) =>
            OneRequest(Stream(t, cb, client.queue), client.pending, Held(client.holds))
  BY <1>8, <1>10
<1> QED BY <1>6, <1>12, <1>13, <1>14, <1>15, <1>18, <1>19, <1>20, GoesOn

\* What a line of the head says of the request.
LEMMA HeededFacts ==
  ASSUME HttpInv, Running("header"), st.rd # <<>>, Head(st.rd) \notin Bytes,
         NEW junk \in BOOLEAN, NEW y, y = Rest(st, junk)
  PROVE  /\ y \in States
         /\ y.pc = "header" /\ y.rd = Tail(st.rd) /\ y.ps = st.ps /\ y.idle = st.idle
         /\ y.handler = st.handler /\ y.src = st.src /\ y.fd = st.fd /\ y.begun = st.begun
         /\ y.buf = st.buf /\ y.code = st.code /\ y.len = st.len /\ y.expect = st.expect
         /\ y.form = st.form
         /\ LineFits(Head(st.rd), client.pending) /\ client.pending # "none"
         /\ Matches(st, client.pending) /\ Known(st, client.pending) /\ -1 =< st.src
         /\ open \in [fd : Int, src : Int] /\ open.src = (IF st.src >= 0 THEN 1 ELSE 0)
         /\ (st.src >= 0 <=> st.handler = "get") /\ st.src \in Int
         /\ (Head(st.rd) \in {"GET", "DIR"} => st.src = -1)
         /\ (Head(st.rd) \notin {"GET", "DIR", "Content-Length", "Expect", "urlencoded", "end"} =>
                Head(st.rd) \in {"PUT", "DELETE", "RUN", "NEWFOLDER"} /\ st.src = -1)
<1>1. /\ st \in States /\ st.pc = "header" /\ st.rd \in Seq(Tokens)
      /\ open \in [fd : Int, src : Int] /\ open.src = (IF st.src >= 0 THEN 1 ELSE 0)
      /\ (st.src >= 0 <=> st.handler = "get") /\ Matches(st, client.pending)
      /\ Known(st, client.pending) /\ -1 =< st.src
  BY HeaderFacts
<1>2. /\ y \in States
      /\ y.pc = st.pc /\ y.rd = Tail(st.rd) /\ y.ps = st.ps /\ y.idle = st.idle
      /\ y.handler = st.handler /\ y.src = st.src /\ y.fd = st.fd /\ y.begun = st.begun
      /\ y.buf = st.buf /\ y.code = st.code /\ y.len = st.len /\ y.expect = st.expect
      /\ y.form = st.form
  BY <1>1, LineTaken
<1>3. /\ LineFits(Head(st.rd), client.pending) /\ (Head(st.rd) \in {"GET", "DIR"} => st.src = -1)
  BY <1>2, LineFacts
<1>4. st.src \in Int
  BY <1>1 DEF States
<1>5. Head(st.rd) \in LineTokens
  <2>1. Head(st.rd) \in Tokens
    BY <1>1, HeadTailProperties
  <2> QED BY <2>1 DEF Tokens
<1>6. ASSUME Head(st.rd) \notin {"GET", "DIR", "Content-Length", "Expect", "urlencoded", "end"}
      PROVE  Head(st.rd) \in {"PUT", "DELETE", "RUN", "NEWFOLDER"} /\ st.src = -1
  <2>1. Head(st.rd) \in {"PUT", "DELETE", "RUN", "NEWFOLDER"}
    BY <1>5, <1>6 DEF LineTokens
  <2>2. client.pending \notin {"get", "dir"}
    BY <1>3, <2>1 DEF LineFits, Uploads
  <2>3. st.handler # "get"
    BY <1>1, <2>2 DEF Matches
  <2> QED BY <1>1, <1>4, <2>1, <2>3
<1>7. client.pending # "none"
  BY <1>3 DEF LineFits
<1> QED BY <1>1, <1>2, <1>3, <1>4, <1>6, <1>7

Opened(s, n, h) == [s EXCEPT !.src = n, !.handler = h]
Judged(s, h, code) == [s EXCEPT !.handler = h, !.code = code]
Refused(s, h, code) == [s EXCEPT !.src = -1, !.handler = h, !.code = code]

\* z is s with another handler and result.
JudgedOf(z, s, h, code) ==
  /\ z \in States
  /\ z.pc = s.pc /\ z.rd = s.rd /\ z.ps = s.ps /\ z.idle = s.idle /\ z.fd = s.fd
  /\ z.begun = s.begun /\ z.buf = s.buf /\ z.src = s.src /\ z.handler = h /\ z.code = code
  /\ z.expect = s.expect /\ z.form = s.form

LEMMA JudgedIs ==
  ASSUME NEW s \in States, NEW h \in Handlers, NEW code \in Results
  PROVE  JudgedOf(Judged(s, h, code), s, h, code)
<1>1. PICK z : z = [s EXCEPT !.handler = h, !.code = code]
  OBVIOUS
<1>2. z \in States
  BY <1>1 DEF States
<1>3. /\ z.pc = s.pc /\ z.rd = s.rd /\ z.ps = s.ps /\ z.idle = s.idle /\ z.fd = s.fd
      /\ z.begun = s.begun /\ z.buf = s.buf /\ z.src = s.src /\ z.handler = h /\ z.code = code
      /\ z.expect = s.expect /\ z.form = s.form
  BY <1>1 DEF States
<1>4. JudgedOf(z, s, h, code)
  BY <1>2, <1>3 DEF JudgedOf
<1> QED BY <1>1, <1>4 DEF Judged

LEMMA SourceSet ==
  ASSUME NEW s \in States, NEW n \in Int, NEW h \in Handlers, NEW t, t = Opened(s, n, h)
  PROVE  /\ t \in States
         /\ t.pc = s.pc /\ t.rd = s.rd /\ t.ps = s.ps /\ t.idle = s.idle /\ t.fd = s.fd
         /\ t.begun = s.begun /\ t.buf = s.buf /\ t.code = s.code /\ t.expect = s.expect
         /\ t.form = s.form /\ t.src = n /\ t.handler = h
<1>1. PICK x : x = [s EXCEPT !.src = n]
  OBVIOUS
<1>2. x \in States
  BY <1>1 DEF States
<1>3. t = [x EXCEPT !.handler = h]
  BY <1>1 DEF States, Opened
<1>4. t \in States
  BY <1>2, <1>3 DEF States
<1>5. /\ t.pc = s.pc /\ t.rd = s.rd /\ t.ps = s.ps /\ t.idle = s.idle /\ t.fd = s.fd
      /\ t.begun = s.begun /\ t.buf = s.buf /\ t.code = s.code /\ t.expect = s.expect
      /\ t.form = s.form /\ t.src = n /\ t.handler = h
  BY DEF Opened, States
<1> QED BY <1>4, <1>5

LEMMA RefusalSet ==
  ASSUME NEW s \in States, s.src = -1, NEW h \in Handlers, NEW code \in Results, NEW t,
         t = Refused(s, h, code)
  PROVE  t = Judged(s, h, code)
<1>1. PICK x : x = [s EXCEPT !.src = -1]
  OBVIOUS
<1>2. x = s
  BY <1>1 DEF States
<1>3. t = [x EXCEPT !.handler = h, !.code = code]
  BY <1>1 DEF States, Refused
<1> QED BY <1>2, <1>3 DEF Judged

LEMMA SourceOpened ==
  ASSUME HttpInv, Running("header"), st.rd # <<>>, Head(st.rd) \notin Bytes,
         Head(st.rd) \in {"GET", "DIR"}, NEW junk \in BOOLEAN, NEW n \in Nat,
         GoOn([Rest(st, junk) EXCEPT !.src = n, !.handler = "get"]),
         open' = [open EXCEPT !.src = @ + 1], UNCHANGED <<out, client, disk, said, spoilt>>
  PROVE  HttpInv'
<1>1. PICK y : y = Rest(st, junk)
  OBVIOUS
<1>2. /\ y \in States
      /\ y.pc = "header" /\ y.rd = Tail(st.rd) /\ y.ps = st.ps /\ y.idle = st.idle
      /\ y.fd = st.fd /\ y.begun = st.begun
      /\ y.buf = st.buf /\ y.code = st.code /\ y.expect = st.expect
      /\ y.form = st.form
      /\ LineFits(Head(st.rd), client.pending)
      /\ Matches(st, client.pending) /\ Known(st, client.pending)
      /\ open \in [fd : Int, src : Int] /\ open.src = (IF st.src >= 0 THEN 1 ELSE 0)
      /\ st.src = -1
  BY <1>1, HeededFacts
<1>3. PICK h : h = "get"
  OBVIOUS
<1>4. h \in Handlers /\ n \in Int
  BY <1>3 DEF Handlers
<1>6. PICK t : t = st' /\ t = Opened(y, n, h)
  BY <1>1, <1>3 DEF GoOn, Opened
<1>8. /\ t \in States
      /\ t.pc = y.pc /\ t.rd = y.rd /\ t.ps = y.ps /\ t.idle = y.idle /\ t.fd = y.fd
      /\ t.begun = y.begun /\ t.buf = y.buf /\ t.code = y.code /\ t.expect = y.expect
      /\ t.form = y.form /\ t.src = n /\ t.handler = h
  BY <1>2, <1>4, <1>6, SourceSet
<1>9. /\ t.pc = "header" /\ t.rd = Tail(st.rd) /\ t.ps = st.ps /\ t.idle = st.idle
      /\ t.fd = st.fd /\ t.begun = st.begun /\ t.buf = st.buf /\ t.code = st.code
      /\ t.expect = st.expect /\ t.form = st.form /\ t.src = n /\ t.handler = "get"
  BY <1>2, <1>3, <1>8
<1>10. n >= 0 /\ -1 =< n /\ -1 =< t.src /\ (t.src >= 0 <=> t.handler = "get")
       /\ Known(t, client.pending)
  BY <1>2, <1>9 DEF Known
<1>11. Matches(t, client.pending)
  <2>1. client.pending \in {"get", "dir"}
    BY <1>2 DEF LineFits
  <2> QED BY <1>2, <1>9, <2>1 DEF Matches
<1>12. /\ open' \in [fd : Int, src : Int] /\ open'.fd = open.fd
       /\ open'.src = (IF t.src >= 0 THEN 1 ELSE 0)
  BY <1>2, <1>9, <1>10
<1>13. UNCHANGED <<conn, cb, out, client, disk, said, spoilt>> /\ st' = t
  BY <1>6 DEF GoOn
<1>14. /\ t.src >= 0 => st.src >= 0 \/ Head(st.rd) \in {"GET", "DIR"}
       /\ Head(st.rd) \in Bytes => (Fresh(st) => Fresh(t))
  OBVIOUS
<1> QED BY <1>8, <1>9, <1>10, <1>11, <1>12, <1>13, <1>14, HeaderOn

\* Lines after which no source is open, and the result may be known.
LEMMA LineHeeded ==
  ASSUME HttpInv, Running("header"), st.rd # <<>>, Head(st.rd) \notin Bytes,
         NEW junk \in BOOLEAN, NEW y, y = Rest(st, junk), NEW t \in States, st' = t,
         UNCHANGED <<conn, cb, out, client, disk, said, spoilt, open>>,
         t.pc = y.pc, t.rd = y.rd, t.ps = y.ps, t.idle = y.idle, t.fd = y.fd, t.begun = y.begun,
         t.buf = y.buf, t.src = y.src, t.handler = "get" <=> y.handler = "get",
         Known(t, client.pending), Matches(t, client.pending)
  PROVE  HttpInv'
<1>1. /\ y.pc = "header" /\ y.rd = Tail(st.rd) /\ y.ps = st.ps /\ y.idle = st.idle
      /\ y.fd = st.fd /\ y.begun = st.begun /\ y.buf = st.buf /\ y.src = st.src
      /\ y.handler = st.handler
      /\ open \in [fd : Int, src : Int] /\ open.src = (IF st.src >= 0 THEN 1 ELSE 0)
      /\ -1 =< st.src /\ (st.src >= 0 <=> st.handler = "get")
  BY HeededFacts
<1>2. /\ t.pc = "header" /\ t.rd = Tail(st.rd) /\ t.ps = st.ps /\ t.idle = st.idle
      /\ t.fd = st.fd /\ t.begun = st.begun /\ t.buf = st.buf /\ t.src = st.src
      /\ (t.src >= 0 <=> t.handler = "get") /\ -1 =< t.src
  BY <1>1
<1>3. /\ open' \in [fd : Int, src : Int] /\ open'.fd = open.fd
      /\ open'.src = (IF t.src >= 0 THEN 1 ELSE 0)
  BY <1>1, <1>2
<1>4. /\ t.src >= 0 => st.src >= 0 \/ Head(st.rd) \in {"GET", "DIR"}
      /\ Head(st.rd) \in Bytes => (Fresh(st) => Fresh(t))
  BY <1>2
<1>5. UNCHANGED <<conn, cb, out, client, disk, said, spoilt>>
  OBVIOUS
<1> QED BY <1>2, <1>3, <1>4, <1>5, HeaderOn

\* What QueryNewfolder makes of the state.
LEMMA FolderAsked ==
  ASSUME NEW y, QueryNewfolder(y)
  PROVE  \E c \in FolderCodes : st' = Judged(y, "none", c) /\ UNCHANGED <<conn, cb, open>>
<1>1. PICK c \in FolderCodes :
        GoOn([y EXCEPT !.handler = "none", !.code = c]) /\ UNCHANGED open
  BY Zenon DEF QueryNewfolder
<1>2. st' = Judged(y, "none", c) /\ UNCHANGED <<conn, cb, open>>
  BY <1>1 DEF GoOn, Judged
<1> QED BY <1>2, Zenon

LEMMA SourceRefused ==
  ASSUME HttpInv, Running("header"), st.rd # <<>>, Head(st.rd) \notin Bytes,
         NEW junk \in BOOLEAN, NEW y, y = Rest(st, junk), NEW code \in {400, 1200},
         Head(st.rd) \in {"GET", "DIR", "NEWFOLDER"},
         code = 1200 => Head(st.rd) = "NEWFOLDER", st' = Judged(y, "none", code),
         UNCHANGED <<conn, cb, out, client, disk, said, spoilt, open>>
  PROVE  HttpInv'
<1>1. /\ y \in States
      /\ y.handler = st.handler /\ y.src = st.src /\ y.src = -1 /\ y.expect = st.expect
      /\ y.form = st.form /\ st.handler # "get"
      /\ LineFits(Head(st.rd), client.pending) /\ client.pending # "none"
      /\ Matches(st, client.pending)
  <2>1. /\ y \in States
        /\ y.handler = st.handler /\ y.src = st.src /\ y.expect = st.expect
        /\ y.form = st.form /\ (st.src >= 0 <=> st.handler = "get")
        /\ LineFits(Head(st.rd), client.pending) /\ client.pending # "none"
        /\ Matches(st, client.pending)
        /\ (Head(st.rd) \in {"GET", "DIR"} => st.src = -1)
        /\ (Head(st.rd) \notin {"GET", "DIR", "Content-Length", "Expect", "urlencoded", "end"} =>
                Head(st.rd) \in {"PUT", "DELETE", "RUN", "NEWFOLDER"} /\ st.src = -1)
    BY HeededFacts
  <2> QED BY <2>1
<1>2. PICK h : h = "none"
  OBVIOUS
<1>3. PICK m : m = y.src
  OBVIOUS
<1>4. PICK t : t = Judged(y, h, code)
  OBVIOUS
<1>5. h \in Handlers /\ code \in Results
  BY <1>2 DEF Handlers, Results, Responses
<1>6. JudgedOf(t, y, h, code)
  <2>1. y \in States
    BY <1>1
  <2> QED BY <1>4, <1>5, <2>1, JudgedIs
<1>7. /\ t \in States
      /\ t.pc = y.pc /\ t.rd = y.rd /\ t.ps = y.ps /\ t.idle = y.idle /\ t.fd = y.fd
      /\ t.begun = y.begun /\ t.buf = y.buf /\ t.src = y.src /\ t.handler = h /\ t.code = code
      /\ t.expect = y.expect /\ t.form = y.form
  BY <1>6 DEF JudgedOf
<1>8. st' = t
  BY <1>2, <1>4
<1>9. /\ t.handler # "get" /\ Known(t, client.pending) /\ y.handler # "get"
  BY <1>1, <1>2, <1>7 DEF Known, LineFits
<1>10. Matches(t, client.pending)
  <2>1. code = 1200 => client.pending = "newfolder"
    BY <1>1 DEF LineFits
  <2> QED BY <1>1, <1>2, <1>7, <2>1 DEF Matches
<1> QED BY <1>7, <1>8, <1>9, <1>10, LineHeeded

LEMMA ParsedIs ==
  ASSUME NEW s \in States,
         NEW line \in {"PUT", "DELETE", "RUN", "Content-Length", "Expect", "urlencoded"},
         NEW t, t = Parsed(s, line)
  PROVE  /\ t \in States
         /\ t.pc = s.pc /\ t.rd = s.rd /\ t.ps = s.ps /\ t.idle = s.idle /\ t.fd = s.fd
         /\ t.begun = s.begun /\ t.buf = s.buf /\ t.code = s.code /\ t.src = s.src
         /\ \/ t.handler = s.handler
            \/ line = "PUT" /\ t.handler = "post"
            \/ line = "DELETE" /\ t.handler = "delete"
            \/ line = "RUN" /\ t.handler = "run"
         /\ (t.expect = s.expect \/ line = "Expect") /\ (t.form = s.form \/ line = "urlencoded")
<1>1. PICK post : post = "post"
  OBVIOUS
<1>2. PICK delete : delete = "delete"
  OBVIOUS
<1>3. PICK run : run = "run"
  OBVIOUS
<1>4. post \in Handlers /\ delete \in Handlers /\ run \in Handlers /\ BodyLen \in Lengths
  BY <1>1, <1>2, <1>3 DEF Handlers, Lengths
<1>5. ASSUME NEW h \in Handlers, t = [s EXCEPT !.handler = h]
      PROVE  /\ t \in States
             /\ t.pc = s.pc /\ t.rd = s.rd /\ t.ps = s.ps /\ t.idle = s.idle /\ t.fd = s.fd
             /\ t.begun = s.begun /\ t.buf = s.buf /\ t.code = s.code /\ t.src = s.src
             /\ t.handler = h /\ t.expect = s.expect /\ t.form = s.form
  BY <1>5 DEF States
<1>6. CASE line = "PUT"
  <2>1. t = [s EXCEPT !.handler = post]
    BY <1>1, <1>6 DEF Parsed
  <2> QED BY <1>1, <1>4, <1>5, <1>6, <2>1
<1>7. CASE line = "DELETE"
  <2>1. t = [s EXCEPT !.handler = delete]
    BY <1>2, <1>7 DEF Parsed
  <2> QED BY <1>2, <1>4, <1>5, <1>7, <2>1
<1>8. CASE line = "RUN"
  <2>1. t = [s EXCEPT !.handler = run]
    BY <1>3, <1>8 DEF Parsed
  <2> QED BY <1>3, <1>4, <1>5, <1>8, <2>1
<1>9. CASE line = "Content-Length"
  <2>1. t = [s EXCEPT !.len = BodyLen]
    BY <1>9 DEF Parsed
  <2>2. t \in States
    BY <1>4, <2>1 DEF States
  <2>3. /\ t.pc = s.pc /\ t.rd = s.rd /\ t.ps = s.ps /\ t.idle = s.idle /\ t.fd = s.fd
        /\ t.begun = s.begun /\ t.buf = s.buf /\ t.code = s.code /\ t.src = s.src
        /\ t.handler = s.handler /\ t.expect = s.expect /\ t.form = s.form
    BY <2>1 DEF States
  <2> QED BY <1>9, <2>2, <2>3
<1>10. CASE line = "Expect"
  <2>1. t = [s EXCEPT !.expect = TRUE]
    BY <1>10 DEF Parsed
  <2>2. t \in States
    BY <2>1 DEF States
  <2>3. /\ t.pc = s.pc /\ t.rd = s.rd /\ t.ps = s.ps /\ t.idle = s.idle /\ t.fd = s.fd
        /\ t.begun = s.begun /\ t.buf = s.buf /\ t.code = s.code /\ t.src = s.src
        /\ t.handler = s.handler /\ t.expect = TRUE /\ t.form = s.form
    BY <2>1 DEF States
  <2> QED BY <1>10, <2>2, <2>3
<1>11. CASE line = "urlencoded"
  <2>1. t = [s EXCEPT !.form = TRUE]
    BY <1>11 DEF Parsed
  <2>2. t \in States
    BY <2>1 DEF States
  <2>3. /\ t.pc = s.pc /\ t.rd = s.rd /\ t.ps = s.ps /\ t.idle = s.idle /\ t.fd = s.fd
        /\ t.begun = s.begun /\ t.buf = s.buf /\ t.code = s.code /\ t.src = s.src
        /\ t.handler = s.handler /\ t.expect = s.expect /\ t.form = TRUE
    BY <2>1 DEF States
  <2> QED BY <1>11, <2>2, <2>3
<1> QED BY <1>6, <1>7, <1>8, <1>9, <1>10, <1>11

LEMMA LineParsed ==
  ASSUME HttpInv, Running("header"), st.rd # <<>>, Head(st.rd) \notin Bytes,
         Head(st.rd) \notin {"end", "GET", "DIR", "NEWFOLDER"},
         NEW junk \in BOOLEAN, NEW y, y = Rest(st, junk), GoOn(Parsed(y, Head(st.rd))),
         UNCHANGED <<out, client, disk, said, spoilt, open>>
  PROVE  HttpInv'
<1>1. PICK line : line = Head(st.rd)
  OBVIOUS
<1>2. /\ y \in States
      /\ y.handler = st.handler /\ y.src = st.src /\ y.code = st.code /\ y.expect = st.expect
      /\ y.form = st.form
      /\ LineFits(line, client.pending)
      /\ Matches(st, client.pending) /\ Known(st, client.pending) /\ -1 =< st.src
      /\ (st.src >= 0 <=> st.handler = "get")
      /\ (line \notin {"GET", "DIR", "Content-Length", "Expect", "urlencoded", "end"} =>
             line \in {"PUT", "DELETE", "RUN", "NEWFOLDER"} /\ st.src = -1)
  BY <1>1, HeededFacts
<1>3. line \in {"PUT", "DELETE", "RUN", "Content-Length", "Expect", "urlencoded"}
  BY <1>1, <1>2
<1>4. PICK t : t = st' /\ t = Parsed(y, line)
  BY <1>1 DEF GoOn
<1>5. /\ t \in States
      /\ t.pc = y.pc /\ t.rd = y.rd /\ t.ps = y.ps /\ t.idle = y.idle /\ t.fd = y.fd
      /\ t.begun = y.begun /\ t.buf = y.buf /\ t.code = y.code /\ t.src = y.src
      /\ \/ t.handler = y.handler
         \/ line = "PUT" /\ t.handler = "post"
         \/ line = "DELETE" /\ t.handler = "delete"
         \/ line = "RUN" /\ t.handler = "run"
      /\ (t.expect = y.expect \/ line = "Expect") /\ (t.form = y.form \/ line = "urlencoded")
  BY <1>2, <1>3, <1>4, ParsedIs
<1>6. t.handler = "get" <=> y.handler = "get"
  BY <1>2, <1>3, <1>5
<1>7. Matches(t, client.pending)
  <2>1. /\ (line = "PUT" => client.pending \in Uploads)
        /\ (line = "DELETE" => client.pending = "delete")
        /\ (line = "RUN" => client.pending = "run")
        /\ (line = "Expect" => client.pending = "putexpect")
        /\ (line = "urlencoded" => client.pending = "putform")
    BY <1>2 DEF LineFits
  <2> QED BY <1>2, <1>3, <1>5, <2>1 DEF Matches
<1>8. UNCHANGED <<conn, cb, out, client, disk, said, spoilt, open>> /\ st' = t
  BY <1>4 DEF GoOn
<1>9. Known(t, client.pending)
  BY <1>2, <1>5 DEF Known
<1> QED BY <1>2, <1>5, <1>6, <1>7, <1>8, <1>9, LineHeeded

LEMMA ReadLineKeeps == ASSUME HttpInv, ReadLine PROVE HttpInv'
<1>1. PICK line : line = Head(st.rd)
  OBVIOUS
<1>10. PICK junk \in BOOLEAN : junk = (line \in Bytes)
  <2> WITNESS (line \in Bytes) \in BOOLEAN
  <2> QED OBVIOUS
<1>2. PICK y : y = Rest(st, junk)
  OBVIOUS
<1>11. y = Rest(st, line \in Bytes)
  BY <1>2, <1>10, Zenon
<1>3. /\ Running("header") /\ st.rd # <<>>
      /\ UNCHANGED <<out, client, disk, said, spoilt>>
      /\ IF line \in Bytes \/ st.junk THEN GoOn(y) /\ UNCHANGED open
         ELSE CASE line = "end"             -> GoOn([y EXCEPT !.pc = "continue"]) /\ UNCHANGED open
                [] line \in {"GET", "DIR"}  -> ParseGet(y, line)
                [] line = "NEWFOLDER"       -> QueryNewfolder(y)
                [] OTHER                    -> GoOn(Parsed(y, line)) /\ UNCHANGED open
  BY <1>1, <1>11 DEF ReadLine, Rest
<1>5. CASE GoOn(y) /\ UNCHANGED open
  BY <1>2, <1>3, <1>5, LineIgnored
<1>6. CASE line \notin Bytes /\ line = "end" /\ GoOn([y EXCEPT !.pc = "continue"]) /\ UNCHANGED open
  BY <1>1, <1>2, <1>3, <1>6, HeadEnds
<1>7. CASE line \notin Bytes /\ line \in {"GET", "DIR"} /\ ParseGet(y, line)
  <2>1. CASE \E n \in IF line = "DIR" THEN ListingSource ELSE FileSource \cup MemSource :
               /\ GoOn([y EXCEPT !.src = n, !.handler = "get"])
               /\ open' = [open EXCEPT !.src = @ + 1]
    <3>1. PICK n \in Nat : /\ GoOn([y EXCEPT !.src = n, !.handler = "get"])
                           /\ open' = [open EXCEPT !.src = @ + 1]
      BY <2>1, HttpAssumption DEF ListingSource, FileSource, MemSource
    <3> QED BY <1>1, <1>2, <1>3, <1>7, <3>1, SourceOpened
  <2>2. CASE /\ GoOn([y EXCEPT !.src = -1, !.handler = "none", !.code = 400]) /\ UNCHANGED open
    <3>1. UNCHANGED <<conn, cb>> /\ st' = Refused(y, "none", 400)
      BY <2>2 DEF Refused, GoOn
    <3>2. y \in States /\ y.src = -1
      <4>1. y \in States /\ y.src = st.src /\ st.src = -1
        BY <1>1, <1>2, <1>3, <1>7, HeededFacts
      <4> QED BY <4>1
    <3>3. "none" \in Handlers /\ 400 \in Results
      BY DEF Handlers, Results, Responses
    <3>4. PICK w : w = Refused(y, "none", 400)
      OBVIOUS
    <3>5. w = Judged(y, "none", 400)
      BY <3>2, <3>3, <3>4, RefusalSet
    <3>6. st' = Judged(y, "none", 400) /\ 400 \in {400, 1200} /\ 400 # 1200
      BY <3>1, <3>4, <3>5
    <3> QED BY <1>1, <1>2, <1>3, <1>7, <2>2, <3>1, <3>6, SourceRefused
  <2> QED BY <1>7, <2>1, <2>2 DEF ParseGet
<1>8. CASE line \notin Bytes /\ line = "NEWFOLDER" /\ QueryNewfolder(y)
  <2>1. QueryNewfolder(y)
    BY <1>8, Zenon
  <2>2. PICK c \in FolderCodes : st' = Judged(y, "none", c) /\ UNCHANGED <<conn, cb, open>>
    BY <2>1, FolderAsked, Zenon
  <2>3. c \in {400, 1200}
    BY DEF FolderCodes
  <2> QED BY <1>1, <1>2, <1>3, <1>8, <2>2, <2>3, SourceRefused
<1>9. CASE /\ line \notin Bytes /\ line \notin {"end", "GET", "DIR", "NEWFOLDER"}
           /\ GoOn(Parsed(y, line)) /\ UNCHANGED open
  BY <1>1, <1>2, <1>3, <1>9, LineParsed
<1> QED BY <1>3, <1>5, <1>6, <1>7, <1>8, <1>9

\* The segment of the callback is taken.
LEMMA SegmentTaken ==
  ASSUME HttpInv, Running("header"), st.rd = <<>>, NewData,
         GoOn([st EXCEPT !.rd = cb.data, !.ps = "READ"]),
         UNCHANGED <<open, said, out, client, disk, spoilt>>
  PROVE  HttpInv'
<1>1. /\ st \in States /\ st.pc = "header" /\ out = Null /\ cb \in Callbacks
      /\ Len(st.buf) =< BufSize /\ -1 =< st.src /\ client.queue \in Seq(Tokens)
      /\ disk \in Seq(Tokens) /\ open \in [fd : Int, src : Int] /\ ~st.fd /\ open.fd = 0
      /\ open.src = (IF st.src >= 0 THEN 1 ELSE 0) /\ (st.src >= 0 <=> st.handler = "get")
      /\ ~st.begun /\ Matches(st, client.pending) /\ Known(st, client.pending)
      /\ (conn # "open" \/ "close" \in cb.flags => "newdata" \notin cb.flags)
      /\ (conn = "open" =>
               OneRequest(Stream(st, cb, client.queue), client.pending, Held(client.holds)))
      /\ (st.src >= 0 => \A i \in 1..Len(Stream(st, cb, client.queue)) :
                               Stream(st, cb, client.queue)[i] \notin {"GET", "DIR"})
  BY HeaderFacts
<1>2. st.ps # "READ" /\ "newdata" \in cb.flags
  BY DEF NewData
<1>3. conn = "open" /\ "close" \notin cb.flags
  BY <1>1, <1>2
<1>4. PICK r : r = "READ"
  OBVIOUS
<1>5. PICK x : x = cb.data
  OBVIOUS
<1>6. x \in Texts /\ r \in Readings
  BY <1>1, <1>4, <1>5 DEF Callbacks, Texts, Readings
<1>7. PICK t : t = st' /\ t = [st EXCEPT !.rd = x, !.ps = r]
  BY <1>4, <1>5 DEF GoOn
<1>8. t \in States
  <2>1. st \in States
    BY <1>1
  <2> QED BY <2>1, <1>6, <1>7 DEF States
<1>9. /\ t.pc = st.pc /\ t.rd = x /\ t.ps = r /\ t.idle = st.idle /\ t.fd = st.fd
      /\ t.begun = st.begun /\ t.buf = st.buf /\ t.code = st.code /\ t.src = st.src
      /\ t.handler = st.handler /\ t.expect = st.expect /\ t.form = st.form
  BY <1>1, <1>7 DEF States
<1>10. Stream(t, cb, client.queue) = Stream(st, cb, client.queue)
  BY <1>1, <1>2, <1>4, <1>5, <1>8, <1>9, SegmentRead
<1>11. Sources(t, open')
  BY <1>1, <1>9 DEF Sources
<1>12. InHand(t, cb, Null, client.pending, client.queue)
  <2>1. Matches(t, client.pending)
    BY <1>1, <1>9 DEF Matches
  <2>2. ~Serving(t, Null) /\ Undecided(t) /\ Known(t, client.pending)
    BY <1>1, <1>9 DEF Serving, Undecided, Known, Matches
  <2> QED BY <1>1, <1>9, <1>10, <2>1, <2>2 DEF InHand
<1>13. Uploaded(t, cb, Null, client, disk', spoilt')
  BY <1>1, <1>9 DEF Uploaded, Acknowledged
<1>14. Closing(t, cb, Null)
  BY <1>3 DEF Closing
<1>15. /\ UNCHANGED <<conn, cb, out, client, said>> /\ disk' \in Seq(Tokens)
       /\ open' \in [fd : Int, src : Int]
  BY <1>1 DEF GoOn
<1>16. /\ t.idle = st.idle /\ t.pc \notin {"sending", "runs"} /\ Len(t.buf) =< BufSize
       /\ -1 =< t.src /\ st' = t
  BY <1>1, <1>7, <1>9
<1>17. OneRequest(Stream(t, cb, client.queue), client.pending, Held(client.holds))
  BY <1>1, <1>3, <1>10
<1> QED BY <1>1, <1>3, <1>8, <1>11, <1>12, <1>13, <1>14, <1>15, <1>16, <1>17, GoesOn

\* The state once the buffer has taken its part.
Taken(s, y, buf, r, p) == [s EXCEPT !.rd = y, !.buf = buf, !.ps = r, !.pc = p]

LEMMA TakenIs ==
  ASSUME NEW s \in States, NEW y \in Seq(Tokens), NEW buf \in Seq(Tokens), NEW r \in Readings,
         NEW p \in Pcs, NEW t, t = Taken(s, y, buf, r, p)
  PROVE  /\ t \in States
         /\ t.pc = p /\ t.rd = y /\ t.ps = r /\ t.buf = buf /\ t.idle = s.idle /\ t.fd = s.fd
         /\ t.begun = s.begun /\ t.code = s.code /\ t.src = s.src /\ t.left = s.left
         /\ t.handler = s.handler /\ t.expect = s.expect /\ t.form = s.form
<1>1. y \in Texts /\ buf \in Texts
  BY DEF Texts
<1>2. t = [s EXCEPT !.rd = y, !.buf = buf, !.ps = r, !.pc = p]
  BY DEF Taken
<1>3. t \in States
  BY <1>1, <1>2 DEF States
<1>4. /\ t.pc = p /\ t.rd = y /\ t.ps = r /\ t.buf = buf /\ t.idle = s.idle /\ t.fd = s.fd
      /\ t.begun = s.begun /\ t.code = s.code /\ t.src = s.src /\ t.left = s.left
      /\ t.handler = s.handler /\ t.expect = s.expect /\ t.form = s.form
  BY <1>2 DEF States
<1> QED BY <1>3, <1>4

\* The beginning of what is left to read has been read: s was the state, m the one with the
\* segment taken, t the one without the part that is in the buffer.
Takes(m, s, c) ==
  \/ s.rd = m.rd /\ s.ps = m.ps
  \/ s.rd = <<>> /\ "newdata" \in c.flags /\ s.ps # "READ" /\ m.rd = c.data /\ m.ps = "READ"

ReadOff(t, m, s, c, q, n) ==
  /\ Without(Stream(t, c, q), Stream(s, c, q), n) /\ n \in 0..Len(Stream(s, c, q))
  /\ \A i \in 1..n : Stream(s, c, q)[i] = m.rd[i]

LEMMA PartRead ==
  ASSUME NEW s \in States, NEW m \in States, NEW t \in States, NEW c \in Callbacks,
         NEW q \in Seq(Tokens), NEW n, n \in 0..Len(m.rd), Without(t.rd, m.rd, n), t.ps = m.ps,
         Takes(m, s, c)
  PROVE  ReadOff(t, m, s, c, q, n)
<1>0. \/ s.rd = m.rd /\ s.ps = m.ps
      \/ s.rd = <<>> /\ "newdata" \in c.flags /\ s.ps # "READ" /\ m.rd = c.data /\ m.ps = "READ"
  BY DEF Takes
<1>1. Stream(m, c, q) = Stream(s, c, q)
  <2>1. CASE s.rd = m.rd /\ s.ps = m.ps
    BY <2>1, StreamSame
  <2>2. CASE s.rd = <<>> /\ "newdata" \in c.flags /\ s.ps # "READ" /\ m.rd = c.data /\ m.ps = "READ"
    BY <2>2, SegmentRead
  <2> QED BY <1>0, <2>1, <2>2
<1>2. Without(Stream(t, c, q), Stream(m, c, q), n)
  BY StreamRead
<1>3. PICK a \in Seq(Tokens) : a = m.rd
  BY StreamIs
<1>4. PICK b \in Seq(Tokens) : b = Unread(m, c)
  BY StreamIs
<1>5. PICK z : z = (a \o b) \o q
  OBVIOUS
<1>6. /\ Len(z) = Len(a) + Len(b) + Len(q)
      /\ \A i \in 1..Len(a) : z[i] = a[i]
  BY <1>5, Pieces
<1>7. Len(a) \in Nat /\ Len(b) \in Nat /\ Len(q) \in Nat /\ n \in 0..Len(a)
  BY <1>3
<1>8. n \in 0..Len(z) /\ \A i \in 1..n : z[i] = a[i]
  BY <1>6, <1>7
<1>9. z = Stream(m, c, q)
  BY <1>3, <1>4, <1>5 DEF Stream
<1>10. /\ Without(Stream(t, c, q), Stream(s, c, q), n) /\ n \in 0..Len(Stream(s, c, q))
       /\ \A i \in 1..n : Stream(s, c, q)[i] = m.rd[i]
  BY <1>1, <1>2, <1>3, <1>8, <1>9
<1> QED BY <1>10 DEF ReadOff

\* The body is read while the connection lives.
LEMMA BodyRead ==
  ASSUME HttpInv, Running("receive"), "closed" \notin cb.flags, NEW t \in States, st' = t,
         NEW n \in Nat, NEW x \in Seq(Tokens), Len(x) = n,
         Without(Stream(t, cb, client.queue), Stream(st, cb, client.queue), n),
         n \in 0..Len(Stream(st, cb, client.queue)),
         \A i \in 1..n : x[i] = Stream(st, cb, client.queue)[i],
         t.pc \in {"write", "receive"}, t.pc = "receive" => Len(t.buf) # BufSize,
         t.buf = st.buf \o x, Len(t.buf) =< BufSize, t.idle = st.idle, t.fd = st.fd,
         t.begun = st.begun, t.code = st.code, t.src = st.src, t.left = st.left,
         t.handler = st.handler, t.expect = st.expect, t.form = st.form,
         UNCHANGED <<conn, cb, open, said, out, client, disk, spoilt>>
  PROVE  HttpInv'
<1>1. /\ st \in States /\ st.pc = "receive" /\ conn = "open" /\ "close" \notin cb.flags
      /\ cb \in Callbacks /\ client.queue \in Seq(Tokens) /\ Held(client.holds) \in Nat
      /\ open \in [fd : Int, src : Int] /\ st.fd /\ open.fd = 1 /\ st.src = -1 /\ ~st.begun
      /\ open.src = 0 /\ Serving(st, Null) /\ out = Null
      /\ disk \in Seq(Tokens) /\ st.buf \in Seq(Tokens)
  BY ReceivingFacts
<1>2. /\ InHand(st, cb, Null, client.pending, client.queue)
      /\ Uploaded(st, cb, out, client, disk, spoilt) /\ Sources(st, open)
      /\ (conn = "open" /\ ~Overread(st, cb) =>
               OneRequest(Stream(st, cb, client.queue), client.pending, Held(client.holds)))
  BY RunningIs
<1>3. ~Overread(st, cb)
  BY <1>1 DEF Overread
<1>4. PICK s \in Seq(Tokens) : s = Stream(st, cb, client.queue)
  BY <1>1, StreamIs
<1>5. /\ st.left = BodyLen - Len(disk)
      /\ Follows(disk \o st.buf, s, Held(client.holds), spoilt)
      /\ client.pending # "none" /\ Matches(st, client.pending) /\ Quiet(s)
      /\ OneRequest(s, client.pending, Held(client.holds)) /\ st.handler = "post"
  <2>1. /\ st.left = BodyLen - Len(disk)
        /\ Follows(disk \o st.buf, s, Held(client.holds), spoilt)
    BY <1>1, <1>2, <1>4 DEF Uploaded
  <2>2. client.pending # "none" /\ Matches(st, client.pending) /\ Quiet(s)
    BY <1>1, <1>2, <1>3, <1>4 DEF InHand
  <2>3. st.handler = "post"
    BY <1>1, <1>2 DEF Sources
  <2> QED BY <1>1, <1>2, <1>3, <1>4, <2>1, <2>2, <2>3
<1>9. PICK u \in Seq(Tokens) : u = Stream(t, cb, client.queue)
  BY <1>1, StreamIs
<1>14. /\ Len(s) \in Nat /\ Len(u) \in Nat /\ n \in 0..Len(s) /\ Without(u, s, n)
       /\ \A i \in 1..n : x[i] = s[i]
  BY <1>4, <1>9
<1>15. Quiet(u) /\ OneRequest(u, client.pending, Held(client.holds))
  BY <1>1, <1>5, <1>14, WithoutOne
<1>16. Quiet(t.rd)
  BY <1>1, <1>9, <1>15, QuietStream
<1>17. Follows(disk \o t.buf, u, Held(client.holds), spoilt)
  <2>1. PICK d \in Seq(Tokens) : d = disk \o st.buf
    BY <1>1, ConcatProperties
  <2>3. Follows(d \o x, u, Held(client.holds), spoilt)
    BY <1>1, <1>5, <1>14, <2>1, FollowsRead
  <2>4. (disk \o st.buf) \o x = disk \o (st.buf \o x)
    <3>1. PICK e \in Seq(Tokens), f \in Seq(Tokens) : e = disk /\ f = st.buf
      BY <1>1
    <3>2. (e \o f) \o x = e \o (f \o x)
      BY Regrouped, Zenon
    <3> QED BY <3>1, <3>2
  <2> QED BY <2>1, <2>3, <2>4
<1>18. Sources(t, open')
  BY <1>1, <1>5 DEF Sources
<1>19. InHand(t, cb, Null, client.pending, client.queue)
  <2>1. Matches(t, client.pending)
    BY <1>5 DEF Matches
  <2>2. Undecided(t)
    BY DEF Undecided
  <2> QED BY <1>5, <1>9, <1>15, <1>16, <2>1, <2>2 DEF InHand
<1>20. Uploaded(t, cb, Null, client, disk', spoilt')
  <2>1. t.pc = "receive" => Len(t.buf) < BufSize
    <3>1. t.buf \in Seq(Tokens)
      BY DEF States, Texts
    <3>2. BufSize \in Nat
      BY HttpAssumption
    <3>3. PICK l \in Nat : l = Len(t.buf)
      BY <3>1
    <3>4. l =< BufSize /\ (t.pc = "receive" => l # BufSize)
      BY <3>3
    <3>5. t.pc = "receive" => l < BufSize
      BY <3>2, <3>3, <3>4
    <3> QED BY <3>3, <3>5
  <2> QED BY <1>5, <1>9, <1>17, <2>1 DEF Uploaded, Acknowledged
<1>21. Closing(t, cb, Null)
  BY <1>1 DEF Closing
<1>22. /\ t.pc \notin {"sending", "runs"}
       /\ -1 =< t.src /\ disk' \in Seq(Tokens) /\ open' \in [fd : Int, src : Int]
  BY <1>1
<1> QED BY <1>1, <1>9, <1>15, <1>18, <1>19, <1>20, <1>21, <1>22, GoesOn

\* A FIN ends the reading, with what there was, or with what was read before: all the same
\* the upload fails.
LEMMA BodyOverread ==
  ASSUME HttpInv, Running("receive"), "closed" \in cb.flags, NEW t \in States, st' = t,
         t.pc = "write", Len(t.buf) =< BufSize, t.idle = st.idle, t.fd = st.fd,
         t.begun = st.begun, t.code = st.code, t.src = st.src, t.left = st.left,
         t.handler = st.handler, t.expect = st.expect, t.form = st.form,
         UNCHANGED <<conn, cb, open, said, out, client, disk, spoilt>>
  PROVE  HttpInv'
<1>1. /\ st \in States /\ st.pc = "receive" /\ conn = "open" /\ "close" \notin cb.flags
      /\ open \in [fd : Int, src : Int] /\ st.fd /\ open.fd = 1 /\ st.src = -1 /\ ~st.begun
      /\ open.src = 0 /\ Serving(st, Null) /\ out = Null
      /\ disk \in Seq(Tokens)
  BY ReceivingFacts
<1>2. InHand(st, cb, Null, client.pending, client.queue) /\ Sources(st, open)
  BY RunningIs
<1>3. Overread(t, cb)
  BY DEF Overread
<1>4. client.pending # "none" /\ Matches(st, client.pending) /\ st.handler = "post"
  BY <1>1, <1>2 DEF InHand, Sources
<1>5. Sources(t, open')
  BY <1>1, <1>4 DEF Sources
<1>6. InHand(t, cb, Null, client.pending, client.queue)
  <2>1. Matches(t, client.pending)
    BY <1>4 DEF Matches
  <2>2. Undecided(t)
    BY DEF Undecided
  <2> QED BY <1>3, <1>4, <2>1, <2>2 DEF InHand
<1>7. Uploaded(t, cb, Null, client, disk', spoilt')
  BY DEF Uploaded, Acknowledged
<1>8. Closing(t, cb, Null)
  BY <1>1 DEF Closing
<1>9. /\ t.pc \notin {"sending", "runs"}
      /\ -1 =< t.src /\ disk' \in Seq(Tokens) /\ open' \in [fd : Int, src : Int]
  BY <1>1
<1> QED BY <1>1, <1>3, <1>5, <1>6, <1>7, <1>8, <1>9, GoesOn

\* How much the buffer takes of a segment, and what that makes of each of them.
Amount(from) == IF Len(from) < Room THEN Len(from) ELSE Room
Part(from) == SubSeq(from, 1, Amount(from))
Remains(from) == SubSeq(from, Amount(from) + 1, Len(from))

LEMMA AmountIs ==
  ASSUME st.buf \in Seq(Tokens), Len(st.buf) < BufSize, NEW from \in Seq(Tokens)
  PROVE  /\ Amount(from) \in 0..Len(from) /\ Part(from) \in Seq(Tokens)
         /\ Len(Part(from)) = Amount(from)
         /\ \A i \in 1..Amount(from) : Part(from)[i] = from[i]
         /\ Remains(from) \in Seq(Tokens) /\ Without(Remains(from), from, Amount(from))
         /\ st.buf \o Part(from) \in Seq(Tokens) /\ Len(st.buf \o Part(from)) =< BufSize
<1>1. Len(st.buf) \in Nat /\ Len(from) \in Nat /\ BufSize \in Nat
  BY HttpAssumption
<1>2. PICK n : n = Amount(from)
  OBVIOUS
<1>3. n \in 0..Len(from) /\ Len(st.buf) + n =< BufSize
  <2>1. PICK l \in Nat : l = Len(st.buf)
    BY <1>1
  <2>2. PICK m \in Nat : m = Len(from)
    BY <1>1
  <2>3. n = IF m < BufSize - l THEN m ELSE BufSize - l
    BY <1>2, <2>1, <2>2 DEF Amount, Room
  <2>4. l < BufSize
    BY <2>1
  <2>5. CASE m < BufSize - l
    <3>1. n = m
      BY <2>3, <2>5
    <3> QED BY <1>1, <2>1, <2>2, <2>5, <3>1
  <2>6. CASE ~(m < BufSize - l)
    <3>1. n = BufSize - l
      BY <2>3, <2>6
    <3>2. BufSize - l \in 0..m /\ l + (BufSize - l) =< BufSize
      BY <1>1, <2>1, <2>2, <2>4, <2>6
    <3> QED BY <2>1, <2>2, <3>1, <3>2
  <2> QED BY <2>5, <2>6
<1>4. PICK x : x = Part(from)
  OBVIOUS
<1>5. PICK y : y = Remains(from)
  OBVIOUS
<1>6. /\ x \in Seq(Tokens) /\ Len(x) = n /\ \A i \in 1..n : x[i] = from[i]
      /\ y \in Seq(Tokens) /\ Without(y, from, n)
  BY <1>2, <1>3, <1>4, <1>5, WithoutFirst DEF Part, Remains
<1>7. st.buf \o x \in Seq(Tokens) /\ Len(st.buf \o x) = Len(st.buf) + Len(x)
  BY <1>6, ConcatProperties
<1>8. Len(st.buf \o x) =< BufSize
  BY <1>1, <1>3, <1>6, <1>7
<1> QED BY <1>2, <1>3, <1>4, <1>5, <1>6, <1>7, <1>8

LEMMA ReadBodyOn ==
  ASSUME HttpInv, ReadBody, ~(st.rd = <<>> /\ ~NewData /\ "closed" \notin cb.flags)
  PROVE  HttpInv'
<1>1. Running("receive") /\ UNCHANGED <<open, said, out, client, disk, spoilt>>
  BY DEF ReadBody
<1>2. /\ st \in States /\ cb \in Callbacks /\ st.rd \in Seq(Tokens) /\ st.buf \in Seq(Tokens)
      /\ Uploaded(st, cb, out, client, disk, spoilt) /\ st.pc = "receive" /\ cb.data \in Seq(Tokens)
  BY <1>1, RunningIs DEF Callbacks
<1>3. Len(st.buf) < BufSize
  BY <1>2 DEF Uploaded
<1>4. PICK from \in Seq(Tokens) : from = IF st.rd = <<>> THEN cb.data ELSE st.rd
  BY <1>2
<1>5. PICK b : b = st.buf \o Part(from)
  OBVIOUS
<1>6. PICK p : p = IF \/ Len(b) = BufSize
                      \/ Len(b) >= (IF st.left > BufSize THEN BufSize ELSE st.left)
                      \/ "closed" \in cb.flags
                   THEN "write" ELSE "receive"
  OBVIOUS
<1>7. PICK r : r = IF st.rd = <<>> THEN "READ" ELSE st.ps
  OBVIOUS
<1>8. st' = [st EXCEPT !.rd = Remains(from), !.buf = b, !.ps = r, !.pc = p]
      /\ UNCHANGED <<conn, cb>>
  <2>1. [st EXCEPT !.rd = Remains(from), !.buf = b,
                   !.ps = IF st.rd = <<>> THEN "READ" ELSE @, !.pc = p]
          = [st EXCEPT !.rd = Remains(from), !.buf = b, !.ps = r, !.pc = p]
    BY <1>7
  <2>2. st' = [st EXCEPT !.rd = Remains(from), !.buf = b,
                         !.ps = IF st.rd = <<>> THEN "READ" ELSE @, !.pc = p]
        /\ UNCHANGED <<conn, cb>>
    BY <1>4, <1>5, <1>6, Zenon DEF ReadBody, GoOn, Amount, Part, Remains
  <2> QED BY <2>1, <2>2
<1>9. PICK t : t = Taken(st, Remains(from), b, r, p) /\ st' = t
  BY <1>8 DEF Taken
<1>10. p \in Pcs /\ p \in {"write", "receive"}
       /\ (p = "receive" => Len(b) # BufSize /\ "closed" \notin cb.flags)
  BY <1>6 DEF Pcs
<1>11. r \in Readings /\ (st.rd = <<>> => r = "READ") /\ (st.rd # <<>> => r = st.ps)
  <2>1. st.ps \in Readings
    BY <1>2 DEF States
  <2> QED BY <1>7, <2>1 DEF Readings
<1>12. \/ st.rd # <<>> /\ from = st.rd
       \/ /\ st.rd = <<>> /\ from = cb.data
          /\ NewData \/ "closed" \in cb.flags
  BY <1>4
<1>13. UNCHANGED <<conn, cb, open, said, out, client, disk, spoilt>>
  BY <1>1, <1>8
<1>14. PICK k : k = Amount(from)
  OBVIOUS
<1>15. PICK x : x = Part(from)
  OBVIOUS
<1>16. PICK y : y = Remains(from)
  OBVIOUS
<1>17. /\ k \in 0..Len(from) /\ x \in Seq(Tokens) /\ Len(x) = k /\ \A i \in 1..k : x[i] = from[i]
       /\ y \in Seq(Tokens) /\ Without(y, from, k)
       /\ b = st.buf \o x /\ b \in Seq(Tokens) /\ Len(b) =< BufSize
  BY <1>2, <1>3, <1>5, <1>14, <1>15, <1>16, AmountIs
<1>18. t = Taken(st, y, b, r, p) /\ st' = t
  BY <1>9, <1>16
<1>19. /\ t \in States
       /\ t.pc = p /\ t.rd = y /\ t.ps = r /\ t.buf = b /\ t.idle = st.idle /\ t.fd = st.fd
       /\ t.begun = st.begun /\ t.code = st.code /\ t.src = st.src /\ t.left = st.left
       /\ t.handler = st.handler /\ t.expect = st.expect /\ t.form = st.form
  <2>1. st \in States /\ y \in Seq(Tokens) /\ b \in Seq(Tokens) /\ r \in Readings /\ p \in Pcs
    BY <1>2, <1>10, <1>11, <1>17
  <2>2. t = Taken(st, y, b, r, p)
    BY <1>18
  <2> QED BY <2>1, <2>2, TakenIs
<1>20. PICK m \in States : m.rd = from /\ m.ps = r
  <2>1. st \in States /\ b \in Seq(Tokens) /\ r \in Readings /\ p \in Pcs
    BY <1>2, <1>10, <1>11, <1>17
  <2>2. PICK m : m = Taken(st, from, b, r, p)
    OBVIOUS
  <2>3. m \in States /\ m.rd = from /\ m.ps = r
    BY <2>1, <2>2, TakenIs
  <2> QED BY <2>3
<1>21. st' = t
  BY <1>18
<1>22. CASE "closed" \in cb.flags
  <2>1. t.pc = "write" /\ Len(t.buf) =< BufSize
    BY <1>10, <1>17, <1>19, <1>22
  <2> QED BY <1>1, <1>13, <1>19, <1>21, <1>22, <2>1, BodyOverread
<1>23. CASE "closed" \notin cb.flags
  <2>1. \/ st.rd = m.rd /\ st.ps = m.ps
        \/ st.rd = <<>> /\ "newdata" \in cb.flags /\ st.ps # "READ" /\ m.rd = cb.data /\ m.ps = "READ"
    BY <1>11, <1>12, <1>20, <1>23 DEF NewData
  <2>2. k \in 0..Len(m.rd) /\ Without(t.rd, m.rd, k) /\ t.ps = m.ps
    BY <1>17, <1>19, <1>20
  <2>3. client.queue \in Seq(Tokens) /\ st \in States /\ cb \in Callbacks
    BY <1>1, RunningIs
  <2>4. t \in States
    BY <1>19
  <2>5. /\ Without(Stream(t, cb, client.queue), Stream(st, cb, client.queue), k)
        /\ k \in 0..Len(Stream(st, cb, client.queue))
        /\ \A i \in 1..k : Stream(st, cb, client.queue)[i] = m.rd[i]
    <3>1. Takes(m, st, cb) /\ m \in States
      BY <1>20, <2>1 DEF Takes
    <3>2. ReadOff(t, m, st, cb, client.queue, k)
      BY <2>2, <2>3, <2>4, <3>1, PartRead
    <3> QED BY <3>2, Zenon DEF ReadOff
  <2>6. k \in Nat /\ Len(x) = k /\ x \in Seq(Tokens)
        /\ \A i \in 1..k : x[i] = Stream(st, cb, client.queue)[i]
    BY <1>17, <1>20, <2>5
  <2>7. t.pc \in {"write", "receive"} /\ (t.pc = "receive" => Len(t.buf) # BufSize)
        /\ t.buf = st.buf \o x /\ Len(t.buf) =< BufSize
    BY <1>10, <1>17, <1>19
  <2> QED BY <1>1, <1>13, <1>19, <1>21, <1>23, <2>4, <2>5, <2>6, <2>7, BodyRead
<1> QED BY <1>22, <1>23

-----------------------------------------------------------------------------
(* The end of a callback.                                                   *)

\* What was not read of a segment is lost, and what was kept of an earlier one is no line:
\* what is left is still of one request.
LEMMA MiddleLost ==
  ASSUME NEW a \in Seq(Tokens), NEW b \in Seq(Tokens), NEW q \in Seq(Tokens),
         NEW a2 \in Seq(Tokens), Quiet(a2), NEW p, NEW h \in Nat, OneRequest((a \o b) \o q, p, h)
  PROVE  /\ OneRequest((a2 \o <<>>) \o q, p, h)
         /\ (Quiet((a \o b) \o q) => Quiet((a2 \o <<>>) \o q))
<1>1. PICK s : s = (a \o b) \o q
  OBVIOUS
<1>2. PICK t : t = (a2 \o <<>>) \o q
  OBVIOUS
<1>3. PICK z \in Seq(Tokens) : z = <<>> /\ Len(z) = 0
  <2> <<>> \in Seq(Tokens) /\ Len(<<>>) = 0
    OBVIOUS
  <2> QED OBVIOUS
<1>4. PICK l \in Nat : l = Len(a) + Len(b)
  OBVIOUS
<1>5. PICK m \in Nat : m = Len(a2)
  OBVIOUS
<1>6. PICK n \in Nat : n = Len(q)
  OBVIOUS
<1>7. Len(s) = l + n /\ \A i \in 1..n : s[l + i] = q[i]
  BY <1>1, <1>4, <1>6, Pieces
<1>8. Len(t) = m + n /\ (\A i \in 1..m : t[i] = a2[i]) /\ \A i \in 1..n : t[m + i] = q[i]
  <2>1. t = (a2 \o z) \o q
    BY <1>2, <1>3
  <2>2. /\ Len(t) = Len(a2) + Len(z) + Len(q)
        /\ \A i \in 1..Len(a2) : t[i] = a2[i]
        /\ \A i \in 1..Len(q) : t[Len(a2) + Len(z) + i] = q[i]
    BY <2>1, Pieces
  <2>3. Len(a2) + Len(z) = m
    BY <1>3, <1>5
  <2> QED BY <1>3, <1>5, <1>6, <2>2, <2>3
<1>9. \A i \in 1..m : t[i] \in Bytes
  BY <1>5, <1>8 DEF Quiet
<1>10. ASSUME NEW i \in 1..(m + n), ~(i =< m)
       PROVE  /\ i - m \in 1..n /\ l + (i - m) \in 1..(l + n)
              /\ t[i] = q[i - m] /\ s[l + (i - m)] = t[i]
  <2>1. PICK j : j = i - m
    OBVIOUS
  <2>2. j \in 1..n /\ i = m + j /\ l + j \in 1..(l + n)
    BY <1>10, <2>1
  <2> QED BY <1>7, <1>8, <2>1, <2>2
<1>11. Belongs(t, p) /\ (Quiet(s) => Quiet(t))
  <2>1. ASSUME NEW i \in 1..(m + n)
        PROVE  /\ t[i] \in Bytes \cup Of(p)
               /\ (Quiet(s) => t[i] \in Bytes)
    <3>1. CASE i =< m
      BY <1>9, <2>1, <3>1
    <3>2. CASE ~(i =< m)
      BY <1>1, <1>7, <1>10, <2>1, <3>2 DEF OneRequest, Belongs, Quiet
    <3> QED BY <3>1, <3>2
  <2> QED BY <1>8, <2>1 DEF Belongs, Quiet
<1>12. InOrder(t)
  <2>1. ASSUME NEW i \in 1..(m + n), NEW j \in 1..(m + n), i < j, t[i] \notin Bytes
        PROVE  t[j] # t[i] /\ (t[i] = "end" => t[j] \in Bytes)
    <3>1. ~(i =< m) /\ ~(j =< m)
      BY <1>9, <2>1
    <3>2. PICK x \in 1..Len(s) : x = l + (i - m) /\ s[x] = t[i]
      BY <1>7, <1>10, <3>1
    <3>3. PICK y \in 1..Len(s) : y = l + (j - m) /\ s[y] = t[j]
      BY <1>7, <1>10, <3>1
    <3>4. x < y
      BY <2>1, <3>2, <3>3
    <3>5. InOrder(s)
      BY <1>1 DEF OneRequest
    <3> QED BY <2>1, <3>2, <3>3, <3>4, <3>5 DEF InOrder
  <2> QED BY <1>8, <2>1 DEF InOrder
<1>13. ASSUME NEW e \in 1..(m + n), t[e] = "end"
       PROVE  /\ Len(t) - e + h =< BodyLen
              /\ Len(t) - e + h = BodyLen => \A i \in 1..(Len(t) - e) : t[e + i] = Body[i]
  <2>1. ~(e =< m)
    BY <1>9, <1>13, TokensAre
  <2>2. PICK x \in 1..Len(s) : x = l + (e - m) /\ s[x] = "end"
    BY <1>7, <1>10, <1>13, <2>1
  <2>3. Len(s) - x = Len(t) - e
    BY <1>7, <1>8, <2>2
  <2>4. /\ Len(t) - e + h =< BodyLen
        /\ Len(t) - e + h = BodyLen => \A i \in 1..(Len(t) - e) : s[x + i] = Body[i]
    <3>1. BodyLast(s, h)
      BY <1>1 DEF OneRequest
    <3> QED BY <2>2, <2>3, <3>1 DEF BodyLast
  <2>5. ASSUME NEW i \in 1..((m + n) - e) PROVE t[e + i] = s[x + i]
    <3>1. e + i \in 1..(m + n) /\ ~(e + i =< m)
      BY <2>1
    <3>2. l + ((e + i) - m) = (l + (e - m)) + i
      OBVIOUS
    <3>3. s[(l + (e - m)) + i] = t[e + i]
      BY <1>10, <3>1, <3>2
    <3> QED BY <2>2, <3>3
  <2>6. Len(t) - e = (m + n) - e
    BY <1>8
  <2> QED BY <2>4, <2>5, <2>6
<1>14. BodyLast(t, h)
  BY <1>8, <1>13 DEF BodyLast
<1> QED BY <1>1, <1>2, <1>11, <1>12, <1>14 DEF OneRequest

\* The stream of a thread that has stopped reading.
LEMMA StreamLost ==
  ASSUME NEW s \in States, NEW c \in Callbacks, NEW q \in Seq(Tokens), NEW t \in States,
         NEW d \in Callbacks, Unread(t, d) = <<>>, Quiet(t.rd), NEW p, NEW h \in Nat,
         OneRequest(Stream(s, c, q), p, h)
  PROVE  /\ OneRequest(Stream(t, d, q), p, h)
         /\ (Quiet(Stream(s, c, q)) => Quiet(Stream(t, d, q)))
<1>1. PICK a \in Seq(Tokens) : a = s.rd
  BY StreamIs
<1>2. PICK b \in Seq(Tokens) : b = Unread(s, c)
  BY StreamIs
<1>3. PICK a2 \in Seq(Tokens) : a2 = t.rd /\ Quiet(a2)
  BY StreamIs
<1>4. Stream(s, c, q) = (a \o b) \o q /\ Stream(t, d, q) = (a2 \o <<>>) \o q
  BY <1>1, <1>2, <1>3 DEF Stream
<1> QED BY <1>3, <1>4, MiddleLost

\* uip_close() in the thread: only whether the program waits may be new of the state.
LEMMA CallCloses ==
  ASSUME HttpInv, NEW pc \in {"runs", "answered"}, Running(pc), NEW t \in States, st' = t,
         NEW c \in Callbacks, cb' = c, c.live,
         "idle" \in c.flags => "idle" \in cb.flags, "newdata" \notin c.flags,
         "acked" \notin c.flags,
         UNCHANGED <<conn, out, client, disk, open, said, spoilt>>,
         t.rd = st.rd, t.ps = st.ps, t.fd = st.fd, t.src = st.src, t.buf = st.buf,
         t.begun = st.begun, t.handler = st.handler, t.code = st.code,
         \/ t.pc = "result" /\ st.code = 0 /\ t.idle /\ pc = "runs"
         \/ t.pc = "exit" /\ t.idle = st.idle
  PROVE  HttpInv'
<1>1. /\ st \in States /\ st.pc = pc /\ out = Null /\ conn = "open" /\ "close" \notin cb.flags
      /\ InHand(st, cb, out, client.pending, client.queue) /\ Sources(st, open)
      /\ Len(st.buf) =< BufSize /\ -1 =< st.src /\ client.queue \in Seq(Tokens)
      /\ Held(client.holds) \in Nat /\ cb \in Callbacks /\ st # Null
      /\ (~Overread(st, cb) =>
             OneRequest(Stream(st, cb, client.queue), client.pending, Held(client.holds)))
  BY RunningIs
<1>2. ~Overread(st, cb)
  BY <1>1 DEF Overread
<1>3. Quiet(st.rd)
  BY <1>1, <1>2 DEF InHand
<1>4. ~st.fd /\ ~(st.src >= 0) /\ ~st.begun
  BY <1>1 DEF Sources
<1>5. st.src = -1
  BY <1>1, <1>4 DEF States
<1>6. Unread(t, c) = <<>>
  BY DEF Unread
<1>7. OneRequest(Stream(t, c, client.queue), client.pending, Held(client.holds))
  BY <1>1, <1>2, <1>3, <1>6, StreamLost
<1>8. Typed'
  BY <1>1 DEF HttpInv, Typed
<1>9. Sources(t, open')
  BY <1>1, <1>4 DEF Sources
<1>10. Closing(t, c, Null)
  BY <1>3, <1>4, <1>5 DEF Closing
<1>11. Connection(conn', t, c, out')
  BY <1>1, <1>10 DEF Connection
<1>12. InHand(t, c, Null, client.pending, client.queue)
  BY <1>3 DEF InHand, Serving, Undecided
<1>13. ReplyFits(t, out', client.pending')
  BY <1>1 DEF ReplyFits
<1>14. Uploaded(t, c, Null, client, disk', spoilt')
  BY DEF Uploaded, Acknowledged
<1>15. said.ran + One(t.idle) + One(Started(t, Null)) =< said.told
  <2>1. said.ran \in Nat /\ said.told \in Nat
    BY DEF HttpInv, Typed
  <2>2. said.ran + One(st.idle) + One(Started(st, Null)) =< said.told
    BY <1>1 DEF HttpInv
  <2>3. ~Started(t, Null)
    BY DEF Started
  <2>4. t.idle = st.idle \/ Started(st, Null)
    BY <1>1 DEF Started
  <2> QED BY <2>1, <2>2, <2>3, <2>4 DEF One
<1>16. "idle" \in c.flags => t.idle
  BY <1>1 DEF HttpInv
<1>17. client.holds => client.pending \in {"none", "putexpect"}
  BY DEF HttpInv
<1>18. t # Null
  BY NullIsNone
<1> QED BY <1>1, <1>7, <1>8, <1>9, <1>11, <1>12, <1>13, <1>14, <1>15, <1>16, <1>17, <1>18 DEF HttpInv

\* The flags after uip_close().
LEMMA CloseFlags ==
  ASSUME NEW c \in Callbacks, NEW d,
         d = [c EXCEPT !.flags = (@ \cap {"closed", "idle"}) \cup {"close"}]
  PROVE  /\ d \in Callbacks /\ d.live = c.live
         /\ ("idle" \in d.flags => "idle" \in c.flags)
         /\ "newdata" \notin d.flags /\ "acked" \notin d.flags
<1>1. PICK f : f = (c.flags \cap {"closed", "idle"}) \cup {"close"}
  OBVIOUS
<1>2. c.flags \subseteq Flags
  BY DEF Callbacks
<1>3. f \in SUBSET Flags
  BY <1>1, <1>2 DEF Flags
<1>4. d = [c EXCEPT !.flags = f]
  BY <1>1
<1>5. d \in Callbacks /\ d.flags = f /\ d.live = c.live
  BY <1>3, <1>4 DEF Callbacks
<1> QED BY <1>1, <1>5

LEMMA RunsKeeps == ASSUME HttpInv, Runs PROVE HttpInv'
<1>1. /\ Running("runs") /\ st' = [st EXCEPT !.pc = "result", !.idle = TRUE]
      /\ cb' = [cb EXCEPT !.flags = (@ \cap {"closed", "idle"}) \cup {"close"}]
      /\ UNCHANGED <<conn, out, client, disk, open, said, spoilt>>
  BY DEF Runs, Close
<1>2. st \in States /\ cb \in Callbacks /\ cb.live /\ st.pc = "runs"
      /\ InHand(st, cb, out, client.pending, client.queue)
  BY <1>1, RunningIs
<1>3. PICK p : p = "result"
  OBVIOUS
<1>4. PICK x : x = [st EXCEPT !.pc = p]
  OBVIOUS
<1>5. x \in States
  <2>1. p \in Pcs
    BY <1>3 DEF Pcs
  <2> QED BY <1>2, <1>4, <2>1 DEF States
<1>6. PICK t : t = st' /\ t = [x EXCEPT !.idle = TRUE]
  BY <1>1, <1>2, <1>3, <1>4 DEF States
<1>7. t \in States
  BY <1>5, <1>6 DEF States
<1>8. /\ t.pc = p /\ t.idle /\ t.rd = st.rd /\ t.ps = st.ps /\ t.fd = st.fd /\ t.src = st.src
      /\ t.buf = st.buf /\ t.begun = st.begun /\ t.handler = st.handler /\ t.code = st.code
  BY <1>2, <1>4, <1>5, <1>6 DEF States
<1>9. PICK c : c = cb' /\ c = [cb EXCEPT !.flags = (@ \cap {"closed", "idle"}) \cup {"close"}]
  BY <1>1
<1>10. /\ c \in Callbacks /\ c.live = cb.live
       /\ ("idle" \in c.flags => "idle" \in cb.flags)
       /\ "newdata" \notin c.flags /\ "acked" \notin c.flags
  BY <1>2, <1>9, CloseFlags
<1>11. st.code = 0
  BY <1>2 DEF InHand, Undecided
<1>12. cb' = c /\ c.live /\ st' = t
  BY <1>2, <1>6, <1>9, <1>10
<1>13. t.pc = "result" /\ st.code = 0 /\ t.idle
  BY <1>3, <1>8, <1>11
<1> QED BY <1>1, <1>7, <1>8, <1>10, <1>12, <1>13, CallCloses

LEMMA CloseExitKeeps == ASSUME HttpInv, CloseExit PROVE HttpInv'
<1>1. /\ Running("answered") /\ st' = [st EXCEPT !.pc = "exit"]
      /\ cb' = [cb EXCEPT !.flags = (@ \cap {"closed", "idle"}) \cup {"close"}]
      /\ UNCHANGED <<conn, out, client, disk, open, said, spoilt>>
  BY DEF CloseExit, Close
<1>2. st \in States /\ cb \in Callbacks /\ cb.live
  BY <1>1, RunningIs
<1>3. PICK p : p = "exit"
  OBVIOUS
<1>6. PICK t : t = st' /\ t = [st EXCEPT !.pc = p]
  BY <1>1, <1>3
<1>7. t \in States
  <2>1. p \in Pcs
    BY <1>3 DEF Pcs
  <2> QED BY <1>2, <1>6, <2>1 DEF States
<1>8. /\ t.pc = p /\ t.idle = st.idle /\ t.rd = st.rd /\ t.ps = st.ps /\ t.fd = st.fd
      /\ t.src = st.src /\ t.buf = st.buf /\ t.begun = st.begun /\ t.handler = st.handler
      /\ t.code = st.code
  BY <1>2, <1>6 DEF States
<1>9. PICK c : c = cb' /\ c = [cb EXCEPT !.flags = (@ \cap {"closed", "idle"}) \cup {"close"}]
  BY <1>1
<1>10. /\ c \in Callbacks /\ c.live = cb.live
       /\ ("idle" \in c.flags => "idle" \in cb.flags)
       /\ "newdata" \notin c.flags /\ "acked" \notin c.flags
  BY <1>2, <1>9, CloseFlags
<1>11. cb' = c /\ c.live /\ st' = t
  BY <1>2, <1>6, <1>9, <1>10
<1>12. t.pc = "exit"
  BY <1>3, <1>8
<1> QED BY <1>1, <1>7, <1>8, <1>10, <1>11, <1>12, CallCloses

\* The connection ends with the callback: everything is closed, and the program runs.
LEMMA Ends ==
  ASSUME HttpInv, NEW pc, Running(pc), st' = Null, cb' = Idle, conn' = "closed",
         Release("idle" \in cb.flags), out' = Null, UNCHANGED <<client, disk>>
  PROVE  HttpInv'
<1>1. /\ st \in States /\ Sources(st, open) /\ st # Null /\ st.src \in Int
  <2>1. st \in States /\ Sources(st, open) /\ st # Null
    BY RunningIs
  <2> QED BY <2>1 DEF States
<1>2. /\ open \in [fd : Int, src : Int] /\ said \in [told : Nat, ran : Nat]
      /\ said.ran \in Nat /\ said.told \in Nat
  BY DEF HttpInv, Typed
<1>3. /\ open.fd = (IF st.fd THEN 1 ELSE 0) /\ open.src = (IF st.src >= 0 THEN 1 ELSE 0)
  BY <1>1 DEF Sources
<1>4. open' = [fd |-> 0, src |-> 0]
  BY <1>3 DEF Release
<1>5. open' \in [fd : Int, src : Int] /\ open'.fd = 0 /\ open'.src = 0
  BY <1>4
<1>6. PICK b \in BOOLEAN : b = ("idle" \in cb.flags)
  <2> WITNESS ("idle" \in cb.flags) \in BOOLEAN
  <2> QED OBVIOUS
<1>7. said' = [said EXCEPT !.ran = IF b THEN @ + 1 ELSE @]
  BY <1>6 DEF Release, IdleRun
<1>8. PICK n \in Nat : n = IF b THEN said.ran + 1 ELSE said.ran
  BY <1>2
<1>9. said' = [said EXCEPT !.ran = n]
  BY <1>7, <1>8
<1>10. said' \in [told : Nat, ran : Nat] /\ said'.ran = n /\ said'.told = said.told
  BY <1>2, <1>9
<1>11. b => st.idle
  BY <1>1, <1>6 DEF HttpInv
<1>12. n =< said.told
  <2>1. said.ran + One(st.idle) + One(Started(st, out)) =< said.told
    BY <1>1 DEF HttpInv
  <2> QED BY <1>2, <1>8, <1>11, <2>1 DEF One
<1>13. Typed'
  BY <1>5, <1>10, NullIsNone DEF HttpInv, Typed
<1>14. client.holds => client.pending \in {"none", "putexpect"}
  BY DEF HttpInv
<1> QED BY <1>5, <1>10, <1>12, <1>13, <1>14, NullIsNone DEF HttpInv

\* The thread waits, and the connection goes on, or is closed by the server.
LEMMA Waits ==
  ASSUME HttpInv, NEW pc, Running(pc), NEW t \in States, st' = t, cb' = Idle,
         UNCHANGED <<client, disk, open, said>>, conn' \in {"open", "fin"},
         t.ps # "READ", t.idle = st.idle, Len(t.buf) =< BufSize, -1 =< t.src,
         t.pc \in {"top", "header", "receive", "sending"},
         NEW o, out' = o, o = Null \/ o \in Replies, o # Null <=> t.pc = "sending",
         t.pc = "sending" => t.then \in {"dispatch", "answered", "runs"},
         conn' # "open" => Parked(t, o),
         Sources(t, open), InHand(t, Idle, o, client.pending, client.queue),
         ReplyFits(t, o, client.pending), Uploaded(t, Idle, o, client, disk, spoilt'),
         Started(t, o) => Started(st, out),
         conn' = "open" =>
            OneRequest(Stream(t, Idle, client.queue), client.pending, Held(client.holds))
  PROVE  HttpInv'
<1>1. st # Null /\ t # Null /\ ~Idle.live /\ Idle.flags = {} /\ Idle \in Callbacks
  BY RunningIs, NullIsNone
<1>2. Typed'
  BY <1>1 DEF HttpInv, Typed
<1>3. Closing(t, Idle, o)
  BY <1>1 DEF Closing
<1>4. Connection(conn', t, Idle, o)
  BY <1>1, <1>3 DEF Connection
<1>5. said.ran + One(t.idle) + One(Started(t, o)) =< said.told
  <2>1. said.ran \in Nat /\ said.told \in Nat
    BY DEF HttpInv, Typed
  <2>2. said.ran + One(st.idle) + One(Started(st, out)) =< said.told
    BY <1>1 DEF HttpInv
  <2> QED BY <2>1, <2>2 DEF One
<1>6. client.holds => client.pending \in {"none", "putexpect"}
  BY DEF HttpInv
<1> QED BY <1>1, <1>2, <1>4, <1>5, <1>6 DEF HttpInv

\* What becomes of the state while the thread waits.
Parting(s, rd, r) == [s EXCEPT !.rd = rd, !.ps = r]

LEMMA StaleIs ==
  ASSUME NEW s \in Seq(Tokens), NEW t \in Stale(s)
  PROVE  /\ t \in Seq(Tokens) /\ Len(t) = Len(s) /\ (s = <<>> => t = <<>>)
         /\ (t = s \/ Quiet(t)) /\ (Quiet(s) => Quiet(t))
<1>1. CASE t = s
  BY <1>1
<1>2. CASE t # s
  <2>1. s # <<>> /\ t = [i \in 1..Len(s) |-> "junk"]
    BY <1>2 DEF Stale
  <2>2. "junk" \in Bytes /\ "junk" \in Tokens
    BY DEF Bytes, Tokens
  <2>3. Len(s) \in Nat
    OBVIOUS
  <2>4. t \in Seq(Tokens) /\ Len(t) = Len(s)
    BY <2>1, <2>2, <2>3
  <2>5. Quiet(t)
    BY <2>1, <2>2, <2>4 DEF Quiet
  <2> QED BY <2>1, <2>4, <2>5
<1> QED BY <1>1, <1>2

LEMMA PartingIs ==
  ASSUME NEW s \in States, NEW rd \in Texts, NEW r \in Readings, NEW t, t = Parting(s, rd, r)
  PROVE  /\ t \in States /\ t.rd = rd /\ t.ps = r /\ t.pc = s.pc /\ t.then = s.then
         /\ t.idle = s.idle /\ t.fd = s.fd /\ t.begun = s.begun /\ t.code = s.code
         /\ t.src = s.src /\ t.left = s.left /\ t.handler = s.handler /\ t.expect = s.expect
         /\ t.form = s.form /\ t.buf = s.buf /\ t.len = s.len
<1>1. t \in States
  BY DEF States, Parting
<1>2. /\ t.rd = rd /\ t.ps = r /\ t.pc = s.pc /\ t.then = s.then
      /\ t.idle = s.idle /\ t.fd = s.fd /\ t.begun = s.begun /\ t.code = s.code
      /\ t.src = s.src /\ t.left = s.left /\ t.handler = s.handler /\ t.expect = s.expect
      /\ t.form = s.form /\ t.buf = s.buf /\ t.len = s.len
  BY DEF States, Parting
<1> QED BY <1>1, <1>2

\* A wait in a callback that does not end the connection.
LEMMA WaitIs ==
  ASSUME NEW s \in States, Wait(s), "closed" \notin cb.flags, conn \in {"open", "fin"}
  PROVE  \E t \in States :
           /\ st' = t /\ cb' = Idle /\ UNCHANGED <<open, said>>
           /\ conn' = (IF "close" \in cb.flags THEN "fin" ELSE conn) /\ conn' \in {"open", "fin"}
           /\ t.rd \in Seq(Tokens) /\ Len(t.rd) = Len(s.rd) /\ (s.rd = <<>> => t.rd = <<>>)
           /\ (Quiet(s.rd) => Quiet(t.rd)) /\ t.ps # "READ"
           /\ t.pc = s.pc /\ t.then = s.then
           /\ t.idle = s.idle /\ t.fd = s.fd /\ t.begun = s.begun /\ t.code = s.code
           /\ t.src = s.src /\ t.left = s.left /\ t.handler = s.handler /\ t.expect = s.expect
           /\ t.form = s.form /\ t.buf = s.buf /\ t.len = s.len
<1>1. PICK rd \in Stale(s.rd) :
        st' = [s EXCEPT !.rd = rd, !.ps = IF @ = "READ" THEN "BLOCKED" ELSE @]
  BY DEF Wait
<1>2. /\ cb' = Idle /\ UNCHANGED <<open, said>>
      /\ conn' = (IF "close" \in cb.flags THEN "fin" ELSE conn)
  BY DEF Wait
<1>3. PICK r : r = IF s.ps = "READ" THEN "BLOCKED" ELSE s.ps
  OBVIOUS
<1>4. r \in Readings /\ r # "READ"
  <2>1. s.ps \in Readings
    BY DEF States
  <2> QED BY <1>3, <2>1 DEF Readings
<1>5. s.rd \in Seq(Tokens)
  BY DEF States, Texts
<1>6. /\ rd \in Seq(Tokens) /\ Len(rd) = Len(s.rd) /\ (s.rd = <<>> => rd = <<>>)
      /\ (Quiet(s.rd) => Quiet(rd))
  BY <1>1, <1>5, StaleIs
<1>7. PICK t : t = st'
  OBVIOUS
<1>8. t = Parting(s, rd, r)
  BY <1>1, <1>3, <1>7 DEF Parting
<1>9. rd \in Texts
  BY <1>6 DEF Texts
<1>10. /\ t \in States /\ t.rd = rd /\ t.ps = r /\ t.pc = s.pc /\ t.then = s.then
       /\ t.idle = s.idle /\ t.fd = s.fd /\ t.begun = s.begun /\ t.code = s.code
       /\ t.src = s.src /\ t.left = s.left /\ t.handler = s.handler /\ t.expect = s.expect
       /\ t.form = s.form /\ t.buf = s.buf /\ t.len = s.len
  BY <1>4, <1>8, <1>9, PartingIs
<1>11. conn' \in {"open", "fin"}
  BY <1>2
<1> QED BY <1>2, <1>4, <1>6, <1>7, <1>10, <1>11

\* A wait in a callback that ends it.
LEMMA WaitEnds ==
  ASSUME HttpInv, NEW pc, Running(pc), NEW s, Wait(s), "closed" \in cb.flags, out' = Null,
         UNCHANGED <<client, disk>>
  PROVE  HttpInv'
<1>1. st' = Null /\ cb' = Idle /\ conn' = "closed" /\ Release("idle" \in cb.flags)
  BY DEF Wait
<1> QED BY <1>1, Ends

LEMMA NothingIdle ==
  ASSUME NEW s PROVE Unread(s, Idle) = <<>>
BY NullIsNone DEF Unread

\* What is left of the body when the thread waits: as much as there was, unless some of it
\* was lost, or may have been overwritten.
LEMMA FollowsParted ==
  ASSUME NEW s \in States, NEW t \in States, NEW c \in Callbacks, NEW q \in Seq(Tokens),
         Len(t.rd) = Len(s.rd), s.rd = <<>> => t.rd = <<>>, NEW h \in Nat, NEW sp, NEW sp2,
         Follows(<<>>, Stream(s, c, q), h, sp), sp \subseteq sp2, s.rd # <<>> => "stale" \in sp2
  PROVE  Follows(<<>>, Stream(t, Idle, q), h, sp2)
<1>1. PICK x \in Seq(Tokens) : x = Stream(s, c, q)
  BY StreamIs
<1>2. PICK y \in Seq(Tokens) : y = Stream(t, Idle, q)
  BY StreamIs, NullIsNone
<1>3. Len(x) = Len(s.rd) + Len(Unread(s, c)) + Len(q)
  BY <1>1, StreamIs
<1>4. Len(y) = Len(t.rd) + Len(q)
  <2>1. Len(y) = Len(t.rd) + Len(Unread(t, Idle)) + Len(q)
    BY <1>2, StreamIs, NullIsNone
  <2>2. Len(<<>>) = 0
    OBVIOUS
  <2>3. Len(Unread(t, Idle)) = 0
    BY <2>2, NothingIdle
  <2>4. Len(t.rd) \in Nat /\ Len(q) \in Nat
    <3>1. t.rd \in Seq(Tokens)
      BY DEF States, Texts
    <3> QED BY <3>1
  <2> QED BY <2>1, <2>3, <2>4
<1>5. <<>> \in Seq(Tokens)
  OBVIOUS
<1>6. /\ Len(Unread(s, c)) \in Nat /\ Len(s.rd) \in Nat /\ Len(q) \in Nat
      /\ Unread(s, c) \in Seq(Tokens) /\ s.rd \in Seq(Tokens)
  <2>1. Unread(s, c) \in Seq(Tokens) /\ s.rd \in Seq(Tokens)
    BY StreamIs
  <2> QED BY <2>1
<1>7. Len(y) =< Len(x) /\ (Len(y) = Len(x) => Len(Unread(s, c)) = 0)
  BY <1>3, <1>4, <1>6
<1>8. CASE Len(y) # Len(x)
  <2>1. Len(y) < Len(x)
    <3>1. Len(x) \in Nat /\ Len(y) \in Nat
      OBVIOUS
    <3> QED BY <1>7, <1>8, <3>1
  <2> QED BY <1>1, <1>2, <1>5, <2>1, FollowsLost
<1>9. CASE Len(y) = Len(x) /\ s.rd # <<>>
  BY <1>1, <1>2, <1>5, <1>7, <1>9, FollowsStale
<1>10. CASE Len(y) = Len(x) /\ s.rd = <<>>
  <2>1. Unread(s, c) = <<>>
    BY <1>6, <1>7, <1>10, EmptySeq
  <2>2. x = y
    BY <1>1, <1>2, <1>10, <2>1, NothingIdle DEF Stream
  <2> QED BY <1>1, <1>2, <2>2, FollowsSpoilt
<1> QED BY <1>8, <1>9, <1>10

\* The head goes on with the next segment.
LEMMA HeadWaits ==
  ASSUME HttpInv, Running("header"), st.rd = <<>>, ~NewData, Wait(st),
         UNCHANGED <<out, client, disk, spoilt>>
  PROVE  HttpInv'
<1>1. /\ st \in States /\ st.pc = "header" /\ out = Null /\ cb \in Callbacks
      /\ Len(st.buf) =< BufSize /\ -1 =< st.src /\ client.queue \in Seq(Tokens)
      /\ ~st.fd /\ open.fd = 0 /\ open.src = (IF st.src >= 0 THEN 1 ELSE 0)
      /\ (st.src >= 0 <=> st.handler = "get") /\ ~st.begun
      /\ Matches(st, client.pending) /\ Known(st, client.pending)
      /\ (conn # "open" \/ "close" \in cb.flags => Parked(st, Null) /\ Fresh(st))
      /\ (conn = "open" =>
               OneRequest(Stream(st, cb, client.queue), client.pending, Held(client.holds)))
      /\ (st.src >= 0 => \A i \in 1..Len(Stream(st, cb, client.queue)) :
                               Stream(st, cb, client.queue)[i] \notin {"GET", "DIR"})
  BY HeaderFacts
<1>2. conn \in {"open", "fin"}
  BY RunningIs
<1>3. CASE "closed" \in cb.flags
  BY <1>1, <1>3, WaitEnds
<1>4. CASE "closed" \notin cb.flags
  <2>1. PICK t \in States :
           /\ st' = t /\ cb' = Idle /\ UNCHANGED <<open, said>>
           /\ conn' = (IF "close" \in cb.flags THEN "fin" ELSE conn) /\ conn' \in {"open", "fin"}
           /\ t.rd = <<>> /\ t.ps # "READ" /\ t.pc = "header"
           /\ t.idle = st.idle /\ t.fd = st.fd /\ t.begun = st.begun /\ t.code = st.code
           /\ t.src = st.src /\ t.handler = st.handler /\ t.expect = st.expect
           /\ t.form = st.form /\ t.buf = st.buf /\ t.len = st.len
    BY <1>1, <1>2, <1>4, WaitIs
  <2>2. Stream(t, Idle, client.queue) = Stream(st, cb, client.queue)
    <3>1. Unread(st, cb) = <<>> /\ Unread(t, Idle) = <<>>
      BY NothingIdle DEF NewData, Unread
    <3> QED BY <2>1, <3>1 DEF Stream
  <2>3. conn' # "open" => Parked(t, Null)
    <3>1. conn' # "open" => Parked(st, Null) /\ Fresh(st)
      BY <1>1, <2>1
    <3>2. Quiet(t.rd)
      BY <2>1 DEF Quiet
    <3>3. Fresh(st) => Fresh(t)
      BY <2>1 DEF Fresh
    <3> QED BY <1>1, <2>1, <3>1, <3>2, <3>3 DEF Parked
  <2>4. Sources(t, open)
    BY <1>1, <2>1 DEF Sources
  <2>5. InHand(t, Idle, Null, client.pending, client.queue)
    <3>1. Matches(t, client.pending) /\ Known(t, client.pending)
      BY <1>1, <2>1 DEF Matches, Known
    <3>2. ~Serving(t, Null) /\ Undecided(t)
      BY <2>1, <3>1 DEF Serving, Undecided, Known, Matches
    <3> QED BY <1>1, <2>1, <2>2, <3>1, <3>2 DEF InHand
  <2>6. Uploaded(t, Idle, Null, client, disk, spoilt')
    BY <2>1 DEF Uploaded, Acknowledged
  <2>7. ReplyFits(t, Null, client.pending) /\ ~Started(t, Null)
    BY <2>1 DEF ReplyFits, Started
  <2>8. conn' = "open" =>
           OneRequest(Stream(t, Idle, client.queue), client.pending, Held(client.holds))
    <3>1. conn' = "open" => conn = "open"
      BY <2>1
    <3> QED BY <1>1, <2>2, <3>1
  <2>9. /\ Len(t.buf) =< BufSize /\ -1 =< t.src /\ out' = Null
        /\ t.pc \in {"top", "header", "receive", "sending"} /\ t.pc # "sending"
    BY <1>1, <2>1
  <2> QED BY <1>1, <2>1, <2>3, <2>4, <2>5, <2>6, <2>7, <2>8, <2>9, Waits
<1> QED BY <1>3, <1>4

LEMMA ReadMoreKeeps == ASSUME HttpInv, ReadMore PROVE HttpInv'
<1>1. /\ Running("header") /\ st.rd = <<>> /\ UNCHANGED <<out, client, disk, spoilt>>
      /\ \/ /\ NewData /\ GoOn([st EXCEPT !.rd = cb.data, !.ps = "READ"])
            /\ UNCHANGED <<open, said>>
         \/ ~NewData /\ Wait(st)
  BY DEF ReadMore
<1>2. CASE NewData /\ GoOn([st EXCEPT !.rd = cb.data, !.ps = "READ"]) /\ UNCHANGED <<open, said>>
  BY <1>1, <1>2, SegmentTaken
<1>3. CASE ~NewData /\ Wait(st)
  BY <1>1, <1>3, HeadWaits
<1> QED BY <1>1, <1>2, <1>3

\* The body goes on with the next segment.
LEMMA BodyWaits ==
  ASSUME HttpInv, Running("receive"), st.rd = <<>>, ~NewData, "closed" \notin cb.flags, Wait(st),
         UNCHANGED <<out, client, disk, spoilt>>
  PROVE  HttpInv'
<1>1. /\ st \in States /\ st.pc = "receive" /\ out = Null /\ cb \in Callbacks /\ conn = "open"
      /\ Len(st.buf) =< BufSize /\ -1 =< st.src /\ "close" \notin cb.flags
      /\ InHand(st, cb, out, client.pending, client.queue) /\ Sources(st, open)
      /\ Uploaded(st, cb, out, client, disk, spoilt)
      /\ (conn = "open" /\ ~Overread(st, cb) =>
               OneRequest(Stream(st, cb, client.queue), client.pending, Held(client.holds)))
  BY RunningIs
<1>2. ~Overread(st, cb)
  BY DEF Overread
<1>3. PICK t \in States :
         /\ st' = t /\ cb' = Idle /\ UNCHANGED <<open, said>> /\ conn' = conn
         /\ t.rd = <<>> /\ t.ps # "READ" /\ t.pc = "receive" /\ t.left = st.left
         /\ t.idle = st.idle /\ t.fd = st.fd /\ t.begun = st.begun /\ t.code = st.code
         /\ t.src = st.src /\ t.handler = st.handler /\ t.expect = st.expect
         /\ t.form = st.form /\ t.buf = st.buf
  BY <1>1, WaitIs
<1>4. Stream(t, Idle, client.queue) = Stream(st, cb, client.queue)
  <2>1. Unread(st, cb) = <<>> /\ Unread(t, Idle) = <<>>
    BY NothingIdle DEF NewData, Unread
  <2> QED BY <1>3, <2>1 DEF Stream
<1>5. Quiet(t.rd) /\ Sources(t, open)
  BY <1>1, <1>3 DEF Quiet, Sources
<1>6. InHand(t, Idle, Null, client.pending, client.queue)
  <2>1. client.pending # "none" /\ Matches(st, client.pending)
        /\ Quiet(Stream(st, cb, client.queue))
    BY <1>1, <1>2 DEF InHand, Serving
  <2>2. Matches(t, client.pending)
    BY <1>3, <2>1 DEF Matches
  <2> QED BY <1>3, <1>4, <1>5, <2>1, <2>2 DEF InHand, Undecided
<1>7. Uploaded(t, Idle, Null, client, disk, spoilt')
  BY <1>1, <1>3, <1>4 DEF Uploaded, Acknowledged
<1>8. ReplyFits(t, Null, client.pending) /\ ~Started(t, Null)
  BY <1>3 DEF ReplyFits, Started
<1>9. OneRequest(Stream(t, Idle, client.queue), client.pending, Held(client.holds))
  BY <1>1, <1>2, <1>4
<1>10. /\ Len(t.buf) =< BufSize /\ -1 =< t.src /\ out' = Null /\ conn' = "open"
       /\ t.pc \in {"top", "header", "receive", "sending"} /\ t.pc # "sending"
  BY <1>1, <1>3
<1> QED BY <1>1, <1>3, <1>5, <1>6, <1>7, <1>8, <1>9, <1>10, Waits

LEMMA ReadBodyKeeps == ASSUME HttpInv, ReadBody PROVE HttpInv'
<1>1. CASE st.rd = <<>> /\ ~NewData /\ "closed" \notin cb.flags
  <2>1. /\ Running("receive") /\ Wait(st) /\ UNCHANGED <<out, client, disk, spoilt>>
    BY <1>1 DEF ReadBody
  <2> QED BY <1>1, <2>1, BodyWaits
<1> QED BY <1>1, ReadBodyOn

\* A callback without the acknowledgement that the thread waits for.
LEMMA NotYetKeeps == ASSUME HttpInv, NotYet PROVE HttpInv'
<1>1. /\ Running("sending") /\ "acked" \notin cb.flags /\ Wait(st)
      /\ spoilt' = (IF "newdata" \in cb.flags THEN spoilt \cup {"sending"} ELSE spoilt)
      /\ UNCHANGED <<out, client, disk>>
  BY DEF NotYet
<1>2. /\ st \in States /\ st # Null /\ st.pc = "sending" /\ cb \in Callbacks /\ conn = "open" /\ cb.live
      /\ Len(st.buf) =< BufSize /\ -1 =< st.src /\ "close" \notin cb.flags
      /\ Connection(conn, st, cb, out)
      /\ InHand(st, cb, out, client.pending, client.queue) /\ Sources(st, open)
      /\ Uploaded(st, cb, out, client, disk, spoilt) /\ client.queue \in Seq(Tokens)
      /\ Held(client.holds) \in Nat
      /\ (conn = "open" /\ ~Overread(st, cb) =>
               OneRequest(Stream(st, cb, client.queue), client.pending, Held(client.holds)))
  BY <1>1, RunningIs
<1>3. ~Overread(st, cb) /\ out # Null /\ "closed" \notin cb.flags
      /\ st.then \in {"dispatch", "answered", "runs"}
  BY <1>1, <1>2 DEF Overread, Connection
<1>4. PICK t \in States :
         /\ st' = t /\ cb' = Idle /\ UNCHANGED <<open, said>> /\ conn' = conn
         /\ t.rd \in Seq(Tokens) /\ Len(t.rd) = Len(st.rd) /\ (st.rd = <<>> => t.rd = <<>>)
         /\ (Quiet(st.rd) => Quiet(t.rd)) /\ t.ps # "READ"
         /\ t.pc = "sending" /\ t.then = st.then
         /\ t.idle = st.idle /\ t.fd = st.fd /\ t.begun = st.begun /\ t.code = st.code
         /\ t.src = st.src /\ t.handler = st.handler /\ t.expect = st.expect
         /\ t.form = st.form /\ t.buf = st.buf
  BY <1>1, <1>2, <1>3, WaitIs
<1>5. Quiet(t.rd)
  BY <1>2, <1>3, <1>4 DEF InHand
<1>6. /\ OneRequest(Stream(t, Idle, client.queue), client.pending, Held(client.holds))
      /\ (Quiet(Stream(st, cb, client.queue)) => Quiet(Stream(t, Idle, client.queue)))
  BY <1>2, <1>3, <1>5, NothingIdle, NullIsNone, StreamLost
<1>7. Serving(t, out) <=> Serving(st, out)
  BY <1>2, <1>4 DEF Serving, AllSent
<1>8. InHand(t, Idle, out, client.pending, client.queue)
  <2>1. Serving(st, out) => client.pending # "none" /\ Matches(st, client.pending)
                            /\ Quiet(Stream(st, cb, client.queue))
    BY <1>2, <1>3 DEF InHand
  <2>2. Matches(st, client.pending) => Matches(t, client.pending)
    BY <1>4 DEF Matches
  <2>3. Undecided(t)
    BY <1>2, <1>4 DEF InHand, Undecided
  <2> QED BY <1>4, <1>5, <1>6, <1>7, <2>1, <2>2, <2>3 DEF InHand
<1>9. spoilt \subseteq spoilt'
  BY <1>1
<1>10. st.rd # <<>> => "stale" \in spoilt
  BY <1>2 DEF Uploaded
<1>11. t.then = "dispatch" /\ ~AllSent(t) => Follows(<<>>, Stream(t, Idle, client.queue), Held(client.holds), spoilt')
  <2>1. ASSUME t.then = "dispatch" /\ ~AllSent(t)
        PROVE Follows(<<>>, Stream(t, Idle, client.queue), Held(client.holds), spoilt')
    <3>1. Follows(<<>>, Stream(st, cb, client.queue), Held(client.holds), spoilt)
      BY <1>2, <1>4, <2>1 DEF Uploaded, AllSent
    <3>2. st.rd # <<>> => "stale" \in spoilt'
      BY <1>9, <1>10
    <3>3. /\ st \in States /\ cb \in Callbacks /\ client.queue \in Seq(Tokens)
          /\ Held(client.holds) \in Nat
      BY <1>2
    <3>4. Len(t.rd) = Len(st.rd) /\ (st.rd = <<>> => t.rd = <<>>)
      BY <1>4
    <3>5. \A sp, sp2 : /\ Follows(<<>>, Stream(st, cb, client.queue), Held(client.holds), sp)
                       /\ sp \subseteq sp2 /\ (st.rd # <<>> => "stale" \in sp2)
                       => Follows(<<>>, Stream(t, Idle, client.queue), Held(client.holds), sp2)
      BY <3>3, <3>4, FollowsParted
    <3> QED BY <1>9, <3>1, <3>2, <3>5
  <2> QED BY <2>1
<1>12. Uploaded(t, Idle, out, client, disk, spoilt')
  BY <1>2, <1>4, <1>9, <1>10, <1>11 DEF Uploaded
<1>13. ReplyFits(t, out, client.pending)
  <2>1. ReplyFits(st, out, client.pending)
    BY <1>2 DEF HttpInv
  <2> QED BY <1>4, <2>1 DEF ReplyFits
<1>14. Started(t, out) => Started(st, out)
  BY <1>2, <1>4 DEF Started
<1>15. Sources(t, open)
  BY <1>2, <1>4 DEF Sources
<1>16. out = Null \/ out \in Replies
  BY DEF HttpInv, Typed
<1>17. /\ Len(t.buf) =< BufSize /\ -1 =< t.src /\ out' = out /\ conn' = "open"
       /\ t.pc \in {"top", "header", "receive", "sending"} /\ (out # Null <=> t.pc = "sending")
       /\ t.then \in {"dispatch", "answered", "runs"}
  BY <1>1, <1>2, <1>3, <1>4
<1> QED BY <1>1, <1>4, <1>6, <1>8, <1>12, <1>13, <1>14, <1>15, <1>16, <1>17, Waits

\* The thread has come to its end: it would begin anew.
LEMMA ExitKeeps == ASSUME HttpInv, Exit PROVE HttpInv'
<1>1. Running("exit") /\ Wait([st EXCEPT !.pc = "top"]) /\ UNCHANGED <<out, client, disk, spoilt>>
  BY DEF Exit
<1>0. HttpInv /\ Running("exit")
  BY <1>1
<1>2. /\ st \in States /\ st.pc = "exit" /\ out = Null /\ cb \in Callbacks /\ conn = "open"
      /\ Len(st.buf) =< BufSize /\ -1 =< st.src
      /\ InHand(st, cb, out, client.pending, client.queue) /\ Sources(st, open)
      /\ client.queue \in Seq(Tokens) /\ Held(client.holds) \in Nat
      /\ (conn = "open" /\ ~Overread(st, cb) =>
               OneRequest(Stream(st, cb, client.queue), client.pending, Held(client.holds)))
  BY <1>0, RunningIs
<1>3. ~Overread(st, cb)
  BY <1>2 DEF Overread
<1>4. PICK p : p = "top"
  OBVIOUS
<1>5. PICK s : s = [st EXCEPT !.pc = p]
  OBVIOUS
<1>6. s \in States
  <2>1. p \in Pcs
    BY <1>4 DEF Pcs
  <2> QED BY <1>2, <1>5, <2>1 DEF States
<1>7. /\ s.pc = p /\ s.rd = st.rd /\ s.fd = st.fd /\ s.begun = st.begun /\ s.src = st.src
      /\ s.buf = st.buf /\ s.idle = st.idle /\ s.handler = st.handler
  BY <1>2, <1>5 DEF States
<1>8. Wait(s)
  BY <1>1, <1>4, <1>5
<1>9. CASE "closed" \in cb.flags
  BY <1>1, <1>2, <1>8, <1>9, WaitEnds
<1>10. CASE "closed" \notin cb.flags
  <2>1. PICK t \in States :
           /\ st' = t /\ cb' = Idle /\ UNCHANGED <<open, said>> /\ conn' \in {"open", "fin"}
           /\ (Quiet(s.rd) => Quiet(t.rd)) /\ t.ps # "READ" /\ t.pc = s.pc
           /\ t.idle = s.idle /\ t.fd = s.fd /\ t.begun = s.begun
           /\ t.src = s.src /\ t.handler = s.handler /\ t.buf = s.buf
    BY <1>2, <1>6, <1>8, <1>10, WaitIs
  <2>2. Quiet(t.rd)
    BY <1>2, <1>3, <1>7, <2>1 DEF InHand
  <2>3. OneRequest(Stream(t, Idle, client.queue), client.pending, Held(client.holds))
    BY <1>2, <1>3, <2>2, NothingIdle, NullIsNone, StreamLost
  <2>4. ~st.fd /\ ~(st.src >= 0) /\ ~st.begun
    BY <1>2 DEF Sources
  <2>5. t.src = -1 /\ ~t.fd /\ t.pc = "top"
    <3>1. st.src \in Int
      BY <1>2 DEF States
    <3> QED BY <1>2, <1>4, <1>7, <2>1, <2>4, <3>1
  <2>6. Parked(t, Null)
    BY <2>2, <2>5 DEF Parked
  <2>7. Sources(t, open)
    BY <1>2, <1>7, <2>1, <2>4, <2>5 DEF Sources
  <2>8. InHand(t, Idle, Null, client.pending, client.queue)
    BY <2>2, <2>5 DEF InHand, Serving, Undecided
  <2>9. Uploaded(t, Idle, Null, client, disk, spoilt')
    BY <2>5 DEF Uploaded, Acknowledged
  <2>10. ReplyFits(t, Null, client.pending) /\ ~Started(t, Null)
    BY <2>5 DEF ReplyFits, Started
  <2>11. /\ Len(t.buf) =< BufSize /\ -1 =< t.src /\ out' = Null /\ t.idle = st.idle
         /\ t.pc \in {"top", "header", "receive", "sending"} /\ t.pc # "sending"
    BY <1>1, <1>2, <1>7, <2>1, <2>5
  <2> QED BY <1>1, <2>1, <2>3, <2>6, <2>7, <2>8, <2>9, <2>10, <2>11, Waits
<1> QED BY <1>9, <1>10

-----------------------------------------------------------------------------
(* Replies.                                                                 *)

\* A reply that fits: what it says, and where the thread goes on after it.
Fits(code, more, then, begun, src, p) ==
  /\ p # "putform" => CASE code = "100"     -> p = "putexpect"
                        [] code = "201"     -> p \in Uploads
                        [] code = "data"    -> p \in {"get", "dir"}
                        [] code = "200 run" -> p = "run"
                        [] code = "1200"    -> p = "newfolder"
                        [] OTHER            -> p # "none"
  /\ then = "dispatch" => \/ code = "100" /\ ~begun
                          \/ code = "data" /\ begun /\ (more <=> src > 0)
  /\ then # "dispatch" => code \notin {"100", "data"} /\ ~more
  /\ then = "runs" <=> code = "200 run"
  /\ code = "100" => ~more

LEMMA FitsReply ==
  ASSUME NEW s, NEW o, NEW p, Fits(o.code, o.more, s.then, s.begun, s.src, p)
  PROVE  ReplyFits(s, o, p)
BY DEF Fits, ReplyFits

\* The state of a thread that sends.
Sending(s, then) == [s EXCEPT !.pc = "sending", !.then = then, !.ps = "SENT"]

LEMMA SendingIs ==
  ASSUME NEW s \in States, NEW then \in Pcs, NEW t, t = Sending(s, then)
  PROVE  /\ t \in States /\ t.pc = "sending" /\ t.then = then /\ t.ps = "SENT" /\ t.rd = s.rd
         /\ t.idle = s.idle /\ t.fd = s.fd /\ t.begun = s.begun /\ t.code = s.code
         /\ t.src = s.src /\ t.handler = s.handler /\ t.expect = s.expect
         /\ t.form = s.form /\ t.buf = s.buf
<1>1. PICK p : p = "sending"
  OBVIOUS
<1>2. PICK r : r = "SENT"
  OBVIOUS
<1>3. t = [s EXCEPT !.pc = p, !.then = then, !.ps = r]
  BY <1>1, <1>2 DEF Sending
<1>4. p \in Pcs /\ r \in Readings
  BY <1>1, <1>2 DEF Pcs, Readings
<1>5. t \in States
  BY <1>3, <1>4 DEF States
<1>6. /\ t.pc = p /\ t.then = then /\ t.ps = r /\ t.rd = s.rd
      /\ t.idle = s.idle /\ t.fd = s.fd /\ t.begun = s.begun /\ t.code = s.code
      /\ t.src = s.src /\ t.handler = s.handler /\ t.expect = s.expect
      /\ t.form = s.form /\ t.buf = s.buf
  BY <1>3 DEF States
<1> QED BY <1>1, <1>2, <1>5, <1>6

LEMMA ReplyIs ==
  ASSUME NEW code \in Codes, NEW more \in BOOLEAN, NEW o,
         o = [code |-> code, more |-> more, received |-> FALSE]
  PROVE  o \in Replies /\ o.code = code /\ o.more = more /\ ~o.received
BY DEF Replies

\* What the thread may send: s, its state, differs from st in the place of the source only,
\* and the reply is one for the request in hand.
Sendable(s, code, more, then) ==
  /\ s.rd = st.rd /\ s.idle = st.idle /\ s.fd = st.fd /\ s.buf = st.buf /\ s.code = st.code
  /\ s.handler = st.handler /\ s.expect = st.expect /\ s.form = st.form
  /\ -1 =< s.src /\ (s.src >= 0 <=> st.src >= 0) /\ (s.src >= 0 => then = "dispatch")
  /\ (s.handler = "get" /\ then = "dispatch" => s.src >= 0) /\ (s.begun => s.src >= 0)
  /\ (then = "dispatch" => st.pc # "result" /\ st.code \in {0, 400, 1200}
                            /\ (st.handler = "run" => st.code = 0))
  /\ (then = "runs" => st.code = 0)
  /\ (client.pending # "none" /\ Matches(st, client.pending)
         => Fits(code, more, then, s.begun, s.src, client.pending))
  /\ (code = "201" => disk = Body \/ client.pending = "putform" \/ "stale" \in spoilt)

\* PSOCK_SEND_STR() for the request in hand.
LEMMA Sends ==
  ASSUME HttpInv, Running(st.pc), st.pc \in {"continue", "dispatch", "result"}, Serving(st, Null),
         NEW s \in States, NEW code \in Codes, NEW more \in BOOLEAN,
         NEW then \in {"dispatch", "answered", "runs"}, Send(s, code, more, then),
         UNCHANGED <<client, disk>>, Sendable(s, code, more, then)
  PROVE  HttpInv'
<1>0. /\ s.rd = st.rd /\ s.idle = st.idle /\ s.fd = st.fd /\ s.buf = st.buf /\ s.code = st.code
      /\ s.handler = st.handler /\ s.expect = st.expect /\ s.form = st.form
      /\ -1 =< s.src /\ (s.src >= 0 <=> st.src >= 0) /\ (s.src >= 0 => then = "dispatch")
      /\ (s.handler = "get" /\ then = "dispatch" => s.src >= 0) /\ (s.begun => s.src >= 0)
      /\ (then = "dispatch" => st.pc # "result" /\ st.code \in {0, 400, 1200}
                                /\ (st.handler = "run" => st.code = 0))
      /\ (then = "runs" => st.code = 0)
      /\ (client.pending # "none" /\ Matches(st, client.pending)
             => Fits(code, more, then, s.begun, s.src, client.pending))
      /\ (code = "201" => disk = Body \/ client.pending = "putform" \/ "stale" \in spoilt)
  BY DEF Sendable
<1>1. /\ st \in States /\ out = Null /\ cb \in Callbacks /\ conn = "open"
      /\ Len(st.buf) =< BufSize /\ client.queue \in Seq(Tokens) /\ Held(client.holds) \in Nat
      /\ InHand(st, cb, out, client.pending, client.queue) /\ Sources(st, open)
      /\ Uploaded(st, cb, out, client, disk, spoilt) /\ "close" \notin cb.flags
      /\ (conn = "open" /\ ~Overread(st, cb) =>
               OneRequest(Stream(st, cb, client.queue), client.pending, Held(client.holds)))
  <2>1. ~(st.pc = "result" /\ st.code = 0)
    BY DEF Serving
  <2> QED BY <2>1, RunningIs
<1>2. PICK w : w = Sending(s, then)
  OBVIOUS
<1>3. /\ w \in States /\ w.pc = "sending" /\ w.then = then /\ w.ps = "SENT" /\ w.rd = s.rd
      /\ w.idle = s.idle /\ w.fd = s.fd /\ w.begun = s.begun /\ w.code = s.code
      /\ w.src = s.src /\ w.handler = s.handler /\ w.expect = s.expect
      /\ w.form = s.form /\ w.buf = s.buf
  <2>1. then \in Pcs
    BY DEF Pcs
  <2> QED BY <1>2, <2>1, SendingIs
<1>4. Wait(w) /\ spoilt' = (IF s.rd # <<>> THEN spoilt \cup {"stale"} ELSE spoilt)
  BY <1>2, Zenon DEF Send, Sending
<1>5. CASE "closed" \in cb.flags
  <2>1. out' = Null
    BY <1>5 DEF Send
  <2> QED BY <1>4, <1>5, <2>1, WaitEnds
<1>6. ASSUME "closed" \notin cb.flags PROVE HttpInv'
  <2>1. PICK o : o = out' /\ o = [code |-> code, more |-> more, received |-> FALSE]
    BY <1>6 DEF Send
  <2>2. o \in Replies /\ o.code = code /\ o.more = more /\ ~o.received /\ o # Null
    BY <2>1, ReplyIs, NullIsNone
  <2>3. ~Overread(st, cb)
    BY <1>6 DEF Overread
  <2>4. PICK t \in States :
           /\ st' = t /\ cb' = Idle /\ UNCHANGED <<open, said>> /\ conn' = conn
           /\ t.rd \in Seq(Tokens) /\ Len(t.rd) = Len(w.rd) /\ (w.rd = <<>> => t.rd = <<>>)
           /\ (Quiet(w.rd) => Quiet(t.rd)) /\ t.ps # "READ"
           /\ t.pc = w.pc /\ t.then = w.then
           /\ t.idle = w.idle /\ t.fd = w.fd /\ t.begun = w.begun /\ t.code = w.code
           /\ t.src = w.src /\ t.handler = w.handler /\ t.expect = w.expect
           /\ t.form = w.form /\ t.buf = w.buf
    BY <1>1, <1>3, <1>4, <1>6, WaitIs
  <2>5. /\ Len(t.rd) = Len(st.rd) /\ (st.rd = <<>> => t.rd = <<>>)
        /\ (Quiet(st.rd) => Quiet(t.rd)) /\ t.pc = "sending" /\ t.then = then
        /\ t.idle = st.idle /\ t.fd = st.fd /\ t.begun = s.begun /\ t.code = st.code
        /\ t.src = s.src /\ t.handler = st.handler /\ t.expect = st.expect
        /\ t.form = st.form /\ t.buf = st.buf
    BY <1>0, <1>3, <2>4
  <2>6. Quiet(t.rd)
    BY <1>1, <2>3, <2>5 DEF InHand
  <2>7. /\ OneRequest(Stream(t, Idle, client.queue), client.pending, Held(client.holds))
        /\ (Quiet(Stream(st, cb, client.queue)) => Quiet(Stream(t, Idle, client.queue)))
    BY <1>1, <2>3, <2>6, NothingIdle, NullIsNone, StreamLost
  <2>8. client.pending # "none" /\ Matches(st, client.pending)
        /\ Quiet(Stream(st, cb, client.queue))
    BY <1>1, <2>3 DEF InHand
  <2>9. InHand(t, Idle, o, client.pending, client.queue)
    <3>1. Matches(t, client.pending)
      BY <2>5, <2>8 DEF Matches
    <3>2. Undecided(t)
      BY <1>0, <2>5 DEF Undecided
    <3> QED BY <2>5, <2>6, <2>7, <2>8, <3>1, <3>2 DEF InHand
  <2>10. ReplyFits(t, o, client.pending)
    <3>1. Fits(o.code, o.more, t.then, t.begun, t.src, client.pending)
      BY <1>0, <2>2, <2>5, <2>8
    <3> QED BY <3>1, FitsReply
  <2>11. ~st.fd /\ open.fd = 0 /\ open.src = (IF st.src >= 0 THEN 1 ELSE 0)
         /\ (st.src >= 0 => st.handler = "get")
    BY <1>1 DEF Sources
  <2>12. Sources(t, open)
    BY <1>0, <2>5, <2>11 DEF Sources
  <2>13. spoilt \subseteq spoilt' /\ (st.rd # <<>> => "stale" \in spoilt')
    BY <1>0, <1>4
  <2>14. then = "dispatch" => Follows(<<>>, Stream(t, Idle, client.queue), Held(client.holds), spoilt')
    <3>1. ASSUME then = "dispatch"
          PROVE  Follows(<<>>, Stream(t, Idle, client.queue), Held(client.holds), spoilt')
      <4>1. Follows(<<>>, Stream(st, cb, client.queue), Held(client.holds), spoilt)
        BY <1>0, <1>1, <3>1 DEF Uploaded, Serving
      <4>2. Len(t.rd) = Len(st.rd) /\ (st.rd = <<>> => t.rd = <<>>)
        BY <2>5
      <4>3. st \in States /\ cb \in Callbacks /\ client.queue \in Seq(Tokens)
            /\ Held(client.holds) \in Nat
        BY <1>1
      <4> QED BY <2>13, <4>1, <4>2, <4>3, FollowsParted
    <3> QED BY <3>1
  <2>15. Uploaded(t, Idle, o, client, disk, spoilt')
    BY <1>0, <2>2, <2>5, <2>13, <2>14 DEF Uploaded
  <2>16. ~Started(t, o)
    BY <2>2, <2>5 DEF Started, Acknowledged
  <2>17. /\ Len(t.buf) =< BufSize /\ -1 =< t.src /\ out' = o /\ conn' = "open"
         /\ t.pc \in {"top", "header", "receive", "sending"} /\ (o # Null <=> t.pc = "sending")
         /\ t.then \in {"dispatch", "answered", "runs"} /\ (o = Null \/ o \in Replies)
    BY <1>0, <1>1, <2>1, <2>2, <2>4, <2>5
  <2> QED BY <2>4, <2>5, <2>7, <2>9, <2>10, <2>12, <2>15, <2>16, <2>17, Waits
<1> QED BY <1>5, <1>6

LEMMA ContinueKeeps == ASSUME HttpInv, Continue PROVE HttpInv'
<1>1. Running("continue") /\ UNCHANGED <<client, disk>>
      /\ \/ st.expect /\ Send(st, "100", FALSE, "dispatch")
         \/ GoOn([st EXCEPT !.pc = "dispatch"]) /\ UNCHANGED <<out, open, said, spoilt>>
  BY DEF Continue
<1>2. CASE GoOn([st EXCEPT !.pc = "dispatch"]) /\ UNCHANGED <<out, open, said, spoilt>>
  BY <1>1, <1>2, ContinueGoesOn
<1>3. ASSUME st.expect, Send(st, "100", FALSE, "dispatch") PROVE HttpInv'
  <2>1. /\ st \in States /\ st.pc = "continue" /\ -1 =< st.src /\ Sources(st, open)
        /\ InHand(st, cb, out, client.pending, client.queue)
    BY <1>1, RunningIs
  <2>2. Serving(st, Null)
    BY <2>1 DEF Serving
  <2>3. ~st.begun /\ (st.handler = "get" => st.src >= 0)
    BY <2>1 DEF Sources
  <2>4. st.code \in {0, 400, 1200} /\ (st.handler = "run" => st.code = 0)
    BY <2>1 DEF InHand, Undecided
  <2>5. client.pending # "none" /\ Matches(st, client.pending)
            => Fits("100", FALSE, "dispatch", st.begun, st.src, client.pending)
    BY <1>3, <2>3 DEF Fits, Matches
  <2>6. PICK code \in Codes : code = "100"
    <3> "100" \in Codes
      BY DEF Codes
    <3> QED OBVIOUS
  <2>7. PICK then \in {"dispatch", "answered", "runs"} : then = "dispatch"
    OBVIOUS
  <2>8. PICK more \in BOOLEAN : more = FALSE
    OBVIOUS
  <2>9. PICK s \in States : s = st
    BY <2>1
  <2>10. Send(s, code, more, then)
    BY <1>3, <2>6, <2>7, <2>8, <2>9, Zenon
  <2>11. client.pending # "none" /\ Matches(st, client.pending)
            => Fits(code, more, then, s.begun, s.src, client.pending)
    BY <2>5, <2>6, <2>7, <2>8, <2>9, Zenon
  <2>12. /\ s.rd = st.rd /\ s.idle = st.idle /\ s.fd = st.fd /\ s.buf = st.buf /\ s.code = st.code
         /\ s.handler = st.handler /\ s.expect = st.expect /\ s.form = st.form
         /\ -1 =< s.src /\ (s.src >= 0 <=> st.src >= 0) /\ (s.src >= 0 => then = "dispatch")
         /\ (s.handler = "get" /\ then = "dispatch" => s.src >= 0) /\ (s.begun => s.src >= 0)
         /\ (then = "runs" => st.code = 0) /\ code # "201"
    BY <2>1, <2>3, <2>6, <2>7, <2>9
  <2>13. Running(st.pc) /\ st.pc \in {"continue", "dispatch", "result"} /\ st.pc # "result"
         /\ UNCHANGED <<client, disk>>
    BY <1>1, <2>1
  <2>14. Sendable(s, code, more, then)
    BY <2>4, <2>11, <2>12, <2>13 DEF Sendable
  <2> QED BY <2>2, <2>6, <2>7, <2>8, <2>9, <2>10, <2>13, <2>14, Sends
<1> QED BY <1>1, <1>2, <1>3

LEMMA RunKeeps == ASSUME HttpInv, Run PROVE HttpInv'
<1>1. Running("dispatch") /\ st.handler = "run" /\ UNCHANGED <<client, disk>>
  BY DEF Run
<1>2. CASE ~Send(st, "200 run", FALSE, "runs")
  <2>1. (\E code \in {400, 1404} : GoOn(Result(st, code))) /\ UNCHANGED <<out, open, said, spoilt>>
    BY <1>2, Zenon DEF Run
  <2>2. PICK code \in {400, 1404} : GoOn(Result(st, code))
    <3>1. \E code \in {400, 1404} : GoOn(Result(st, code))
      BY <2>1, SMT
    <3> QED BY <3>1, SMT
  <2>3. UNCHANGED <<out, open, said, spoilt, client, disk>>
    BY <1>1, <2>1
  <2> QED BY <1>1, <2>2, <2>3, RunRefused
<1>3. ASSUME Send(st, "200 run", FALSE, "runs") PROVE HttpInv'
  <2>1. /\ st \in States /\ st.pc = "dispatch" /\ -1 =< st.src /\ Sources(st, open)
        /\ InHand(st, cb, out, client.pending, client.queue)
    BY <1>1, RunningIs
  <2>2. ~st.begun /\ ~(st.src >= 0)
    BY <1>1, <2>1 DEF Sources
  <2>3. Serving(st, Null)
    BY <2>1, <2>2 DEF Serving, AllSent
  <2>4. st.code = 0
    BY <1>1, <2>1 DEF InHand, Undecided
  <2>5. client.pending # "none" /\ Matches(st, client.pending)
            => Fits("200 run", FALSE, "runs", st.begun, st.src, client.pending)
    BY <1>1 DEF Fits, Matches
  <2>6. PICK code \in Codes : code = "200 run"
    <3> "200 run" \in Codes
      BY DEF Codes
    <3> QED OBVIOUS
  <2>7. PICK then \in {"dispatch", "answered", "runs"} : then = "runs"
    OBVIOUS
  <2>8. PICK more \in BOOLEAN : more = FALSE
    OBVIOUS
  <2>9. PICK s \in States : s = st
    BY <2>1
  <2>10. Send(s, code, more, then)
    BY <1>3, <2>6, <2>7, <2>8, <2>9, Zenon
  <2>11. client.pending # "none" /\ Matches(st, client.pending)
            => Fits(code, more, then, s.begun, s.src, client.pending)
    BY <2>5, <2>6, <2>7, <2>8, <2>9, Zenon
  <2>12. /\ s.rd = st.rd /\ s.idle = st.idle /\ s.fd = st.fd /\ s.buf = st.buf /\ s.code = st.code
         /\ s.handler = st.handler /\ s.expect = st.expect /\ s.form = st.form
         /\ -1 =< s.src /\ (s.src >= 0 <=> st.src >= 0) /\ (s.src >= 0 => then = "dispatch")
         /\ (s.handler = "get" /\ then = "dispatch" => s.src >= 0) /\ (s.begun => s.src >= 0)
         /\ (then = "runs" => st.code = 0) /\ code # "201" /\ then # "dispatch"
    BY <2>1, <2>2, <2>4, <2>6, <2>7, <2>9
  <2>13. Running(st.pc) /\ st.pc \in {"continue", "dispatch", "result"}
    BY <1>1, <2>1
  <2>14. UNCHANGED <<client, disk>>
    BY <1>1
  <2>15. Sendable(s, code, more, then)
    BY <2>11, <2>12 DEF Sendable
  <2> QED BY <2>3, <2>6, <2>7, <2>8, <2>9, <2>10, <2>13, <2>14, <2>15, Sends
<1> QED BY <1>1, <1>2, <1>3

\* The next buffer of a file.
Advance(s, n) == [s EXCEPT !.src = n, !.begun = TRUE]

LEMMA AdvanceIs ==
  ASSUME NEW s \in States, NEW n \in Int, NEW t, t = Advance(s, n)
  PROVE  /\ t \in States /\ t.rd = s.rd /\ t.idle = s.idle /\ t.fd = s.fd /\ t.begun
         /\ t.code = s.code /\ t.src = n /\ t.handler = s.handler /\ t.expect = s.expect
         /\ t.form = s.form /\ t.buf = s.buf
<1>1. PICK x : x = [s EXCEPT !.src = n]
  OBVIOUS
<1>2. x \in States
  BY <1>1 DEF States
<1>3. t = [x EXCEPT !.begun = TRUE]
  BY <1>1 DEF States, Advance
<1>4. t \in States
  BY <1>2, <1>3 DEF States
<1>5. /\ t.rd = s.rd /\ t.idle = s.idle /\ t.fd = s.fd /\ t.begun
      /\ t.code = s.code /\ t.src = n /\ t.handler = s.handler /\ t.expect = s.expect
      /\ t.form = s.form /\ t.buf = s.buf
  BY DEF Advance, States
<1> QED BY <1>4, <1>5

LEMMA GetSends ==
  ASSUME HttpInv, Running("dispatch"), st.handler = "get", st.src > 0,
         Send([st EXCEPT !.src = @ - 1, !.begun = TRUE], "data", st.src > 1, "dispatch"),
         UNCHANGED <<client, disk>>
  PROVE  HttpInv'
<1>1. /\ st \in States /\ st.pc = "dispatch" /\ -1 =< st.src
      /\ InHand(st, cb, out, client.pending, client.queue)
  BY RunningIs
<1>2. st.src \in Int
  BY <1>1 DEF States
<1>3. PICK n \in Int : n = st.src - 1 /\ n >= 0
  BY <1>2
<1>4. PICK more \in BOOLEAN : more = (st.src > 1)
  <2> WITNESS (st.src > 1) \in BOOLEAN
  <2> QED OBVIOUS
<1>5. PICK s : s = Advance(st, n)
  OBVIOUS
<1>6. /\ s \in States /\ s.rd = st.rd /\ s.idle = st.idle /\ s.fd = st.fd /\ s.begun
      /\ s.code = st.code /\ s.src = n /\ s.handler = st.handler /\ s.expect = st.expect
      /\ s.form = st.form /\ s.buf = st.buf
  BY <1>1, <1>5, AdvanceIs
<1>7. Send(s, "data", more, "dispatch")
  <2>1. s = [st EXCEPT !.src = @ - 1, !.begun = TRUE]
    BY <1>3, <1>5 DEF Advance
  <2> QED BY <1>4, <2>1, Zenon
<1>8. Serving(st, Null)
  BY <1>1, <1>2 DEF Serving, AllSent
<1>9. st.code \in {0, 400, 1200} /\ (st.handler = "run" => st.code = 0)
  BY <1>1 DEF InHand, Undecided
<1>10. more <=> s.src > 0
  <2>1. (st.src > 1) <=> n > 0
    BY <1>2, <1>3
  <2> QED BY <1>4, <1>6, <2>1
<1>11. client.pending # "none" /\ Matches(st, client.pending)
            => Fits("data", more, "dispatch", s.begun, s.src, client.pending)
  BY <1>6, <1>10 DEF Fits, Matches
<1>12. PICK code \in Codes : code = "data"
  <2> "data" \in Codes
    BY DEF Codes
  <2> QED OBVIOUS
<1>13. PICK then \in {"dispatch", "answered", "runs"} : then = "dispatch"
  OBVIOUS
<1>14. /\ s.rd = st.rd /\ s.idle = st.idle /\ s.fd = st.fd /\ s.buf = st.buf /\ s.code = st.code
       /\ s.handler = st.handler /\ s.expect = st.expect /\ s.form = st.form
       /\ -1 =< s.src /\ (s.src >= 0 <=> st.src >= 0) /\ s.src >= 0 /\ then = "dispatch"
       /\ code # "201"
  BY <1>2, <1>3, <1>6, <1>12, <1>13
<1>15. Send(s, code, more, then)
  BY <1>7, <1>12, <1>13, Zenon
<1>16. client.pending # "none" /\ Matches(st, client.pending)
            => Fits(code, more, then, s.begun, s.src, client.pending)
  BY <1>11, <1>12, <1>13, Zenon
<1>17. Running(st.pc) /\ st.pc \in {"continue", "dispatch", "result"} /\ st.pc # "result"
  BY <1>1
<1>18. Sendable(s, code, more, then)
  BY <1>9, <1>14, <1>16, <1>17 DEF Sendable
<1>19. s \in States
  BY <1>6
<1>20. UNCHANGED <<client, disk>>
  OBVIOUS
<1> QED BY <1>4, <1>8, <1>12, <1>13, <1>15, <1>17, <1>18, <1>19, <1>20, Sends

LEMMA GetKeeps == ASSUME HttpInv, Get PROVE HttpInv'
<1>1. Running("dispatch") /\ st.handler = "get" /\ UNCHANGED <<client, disk>>
  BY DEF Get
<1>2. CASE st.src > 0 /\ Send([st EXCEPT !.src = @ - 1, !.begun = TRUE], "data", st.src > 1, "dispatch")
  BY <1>1, <1>2, GetSends
<1>3. CASE ~(st.src > 0 /\ Send([st EXCEPT !.src = @ - 1, !.begun = TRUE], "data", st.src > 1, "dispatch"))
  <2>1. GoOn([Result(st, IF st.src = 0 THEN 0 ELSE 400) EXCEPT !.src = -1, !.begun = FALSE])
        /\ open' = [open EXCEPT !.src = @ - 1]
        /\ spoilt' = spoilt \cup (IF st.src = 0 /\ ~st.begun THEN {"empty"}
                                  ELSE IF st.src > 0 /\ st.begun THEN {"read"} ELSE {})
        /\ UNCHANGED <<out, said>>
    BY <1>3 DEF Get
  <2> QED BY <1>1, <2>1, GetEnds
<1> QED BY <1>2, <1>3

\* An answer: the string of the result, or of the answer before.
Answering(s, str) == [s EXCEPT !.str = str]

LEMMA AnsweringIs ==
  ASSUME NEW s \in States, NEW str \in Strings, NEW t, t = Answering(s, str)
  PROVE  /\ t \in States /\ t.rd = s.rd /\ t.idle = s.idle /\ t.fd = s.fd /\ t.begun = s.begun
         /\ t.code = s.code /\ t.src = s.src /\ t.handler = s.handler /\ t.expect = s.expect
         /\ t.form = s.form /\ t.buf = s.buf
BY DEF States, Answering

\* http_responses[] has strings of replies; each belongs to its code alone.
Others == {"100", "data", "200 run"}
StringOf(r, code) ==
  /\ r \in Codes /\ r \notin Others
  /\ r = "201" => code = 201
  /\ r = "1200" => code = 1200

LEMMA ResponseIs ==
  ASSUME NEW code \in Responses
  PROVE  StringOf(Response(code), code)
<1>1. PICK r : r = Response(code)
  OBVIOUS
<1>2. code \in {200, 201, 400, 411, 500, 1200, 1404}
  BY DEF Responses
<1>3. r \in {"200", "201", "400", "411", "500", "1200", "1404"}
  BY <1>1, <1>2 DEF Response
<1>4. r \in Codes /\ r \notin Others
  BY <1>3 DEF Codes, Others
<1>5. r = "201" => code = 201
  BY <1>1, <1>2 DEF Response
<1>6. r = "1200" => code = 1200
  BY <1>1, <1>2 DEF Response
<1>7. StringOf(r, code)
  BY <1>4, <1>5, <1>6 DEF StringOf
<1> QED BY <1>1, <1>7, Zenon

\* Such a reply fits every request but the form.
LEMMA ReplyFitting ==
  ASSUME NEW code, code # "100", code # "data", code # "200 run", NEW more \in BOOLEAN, ~more,
         NEW then, then = "answered", NEW begun, NEW src, NEW p, p # "none",
         p # "putform" => /\ (code = "201" => p \in Uploads)
                          /\ (code = "1200" => p = "newfolder")
  PROVE  Fits(code, more, then, begun, src, p)
<1>1. then # "dispatch" /\ then # "runs"
  OBVIOUS
<1>2. p # "putform" => CASE code = "100"     -> p = "putexpect"
                         [] code = "201"     -> p \in Uploads
                         [] code = "data"    -> p \in {"get", "dir"}
                         [] code = "200 run" -> p = "run"
                         [] code = "1200"    -> p = "newfolder"
                         [] OTHER            -> p # "none"
  OBVIOUS
<1>3. code \notin {"100", "data"}
  OBVIOUS
<1> QED BY <1>1, <1>2, <1>3 DEF Fits

LEMMA AnswerSent ==
  ASSUME HttpInv, Running("result"), st.code # 0,
         NEW str \in Responses, str = st.code \/ (st.code \notin Responses /\ str = st.str),
         Send(Answering(st, str), Response(str), FALSE, "answered"),
         UNCHANGED <<client, disk>>
  PROVE  HttpInv'
<1>1. /\ st \in States /\ st.pc = "result" /\ -1 =< st.src /\ Sources(st, open)
      /\ InHand(st, cb, out, client.pending, client.queue)
      /\ Uploaded(st, cb, out, client, disk, spoilt)
  BY RunningIs
<1>2. ~st.begun /\ ~(st.src >= 0)
  BY <1>1 DEF Sources
<1>3. Serving(st, Null)
  BY <1>1 DEF Serving
<1>4. st.code \in Responses \cup {401}
  <2>1. st.code \in Results
    BY <1>1 DEF States
  <2> QED BY <2>1 DEF Results
<1>5. PICK code \in Codes : code = Response(str) /\ StringOf(code, str)
  <2>1. PICK code : code = Response(str)
    OBVIOUS
  <2>2. StringOf(code, str)
    BY <2>1, ResponseIs, Zenon
  <2>3. code \in Codes
    BY <2>2 DEF StringOf
  <2> QED BY <2>1, <2>2, <2>3, Zenon
<1>6. PICK then \in {"dispatch", "answered", "runs"} : then = "answered"
  OBVIOUS
<1>7. PICK more \in BOOLEAN : more = FALSE
  OBVIOUS
<1>8. PICK s : s = Answering(st, str)
  OBVIOUS
<1>9. /\ s \in States /\ s.rd = st.rd /\ s.idle = st.idle /\ s.fd = st.fd /\ s.begun = st.begun
      /\ s.code = st.code /\ s.src = st.src /\ s.handler = st.handler /\ s.expect = st.expect
      /\ s.form = st.form /\ s.buf = st.buf
  <2>1. str \in Strings
    BY DEF Strings
  <2> QED BY <1>1, <1>8, <2>1, AnsweringIs
<1>10. Send(s, code, more, then)
  BY <1>5, <1>6, <1>7, <1>8, Zenon
<1>11. client.pending # "none" /\ Matches(st, client.pending)
            => Fits(code, more, then, s.begun, s.src, client.pending)
  <2>1. ASSUME Matches(st, client.pending), client.pending # "putform"
        PROVE  /\ (code = "201" => client.pending \in Uploads)
               /\ (code = "1200" => client.pending = "newfolder")
    <3>1. st.code # 401
      BY <2>1 DEF Matches
    <3>2. str = st.code
      BY <1>4, <3>1
    <3>3. ASSUME code = "201" PROVE client.pending \in Uploads
      <4>1. str = 201
        BY <1>5, <3>3 DEF StringOf
      <4>2. st.code = 201
        BY <3>2, <4>1
      <4> QED BY <2>1, <4>2 DEF Matches
    <3>4. ASSUME code = "1200" PROVE client.pending = "newfolder"
      <4>1. str = 1200
        BY <1>5, <3>4 DEF StringOf
      <4>2. st.code = 1200
        BY <3>2, <4>1
      <4> QED BY <2>1, <4>2 DEF Matches
    <3> QED BY <3>3, <3>4
  <2>2. code # "100" /\ code # "data" /\ code # "200 run"
    <3>1. code \notin Others
      BY <1>5 DEF StringOf
    <3> QED BY <3>1 DEF Others
  <2>3. then = "answered" /\ ~more
    BY <1>6, <1>7
  <2> QED BY <2>1, <2>2, <2>3, ReplyFitting
<1>12. code = "201" => disk = Body \/ client.pending = "putform" \/ "stale" \in spoilt
  <2>1. CASE str = st.code
    <3>1. ASSUME code = "201" PROVE st.code = 201
      <4>1. str = 201
        BY <1>5, <3>1 DEF StringOf
      <4> QED BY <2>1, <4>1
    <3>2. st.pc = "result" /\ Uploaded(st, cb, out, client, disk, spoilt)
      BY <1>1
    <3>3. st.code = 201 => disk = Body \/ "stale" \in spoilt
      BY <3>2 DEF Uploaded
    <3> QED BY <3>1, <3>3
  <2>2. CASE st.code \notin Responses
    <3>1. st.code = 401
      BY <1>4, <2>2
    <3>2. Matches(st, client.pending)
      BY <1>1, <3>1 DEF InHand, Serving
    <3> QED BY <3>1, <3>2 DEF Matches
  <2> QED BY <2>1, <2>2
<1>13. Sendable(s, code, more, then)
  BY <1>1, <1>2, <1>6, <1>9, <1>11, <1>12 DEF Sendable
<1>14. Running(st.pc) /\ st.pc \in {"continue", "dispatch", "result"}
  BY <1>1
<1>15. UNCHANGED <<client, disk>>
  OBVIOUS
<1>16. s \in States
  BY <1>9
<1> QED BY <1>3, <1>5, <1>6, <1>7, <1>10, <1>13, <1>14, <1>15, <1>16, Sends

LEMMA AnswerKeeps == ASSUME HttpInv, Answer PROVE HttpInv'
<1>1. Running("result") /\ st.code # 0 /\ UNCHANGED <<client, disk>>
  BY DEF Answer
<1>2. st \in States
  BY <1>1, RunningIs
<1>3. PICK str : str = IF st.code \in Responses THEN st.code ELSE st.str
  OBVIOUS
<1>4. str \in Strings
  <2>1. st.str \in Strings
    BY <1>2 DEF States
  <2> QED BY <1>3, <2>1 DEF Strings
<1>5. IF str = 0
      THEN GoOn([st EXCEPT !.pc = "answered"]) /\ UNCHANGED <<out, open, said, spoilt>>
      ELSE Send([st EXCEPT !.str = str], Response(str), FALSE, "answered")
  BY <1>3, Zenon DEF Answer
<1>6. CASE str = 0
  <2>1. st.code \notin Responses
    BY <1>1, <1>3, <1>6
  <2> QED BY <1>1, <1>5, <1>6, <2>1, AnswerOmitted
<1>7. CASE str # 0
  <2>1. str \in Responses /\ (str = st.code \/ (st.code \notin Responses /\ str = st.str))
    BY <1>3, <1>4, <1>7 DEF Strings
  <2>2. Send(Answering(st, str), Response(str), FALSE, "answered")
    BY <1>5, <1>7, Zenon DEF Answering
  <2> QED BY <1>1, <2>1, <2>2, AnswerSent
<1> QED BY <1>6, <1>7

-----------------------------------------------------------------------------
(* The client, and the network.                                             *)

LEMMA ClientIs ==
  ASSUME HttpInv
  PROVE  /\ client \in ClientSet /\ client.queue \in Seq(Tokens) /\ client.holds \in BOOLEAN
         /\ client.pending \in Requests \cup {"none"} /\ Held(client.holds) \in {0, BodyLen}
         /\ client.fin \in BOOLEAN /\ Held(client.holds) \in Nat /\ cb \in Callbacks
         /\ (out = Null \/ out \in Replies) /\ disk \in Seq(Tokens)
         /\ said \in [told : Nat, ran : Nat] /\ said.told \in Nat /\ said.ran \in Nat
         /\ (client.holds => client.pending \in {"none", "putexpect"})
<1>1. /\ client \in ClientSet /\ cb \in Callbacks /\ (out = Null \/ out \in Replies)
      /\ disk \in Seq(Tokens) /\ said \in [told : Nat, ran : Nat]
      /\ (client.holds => client.pending \in {"none", "putexpect"})
  BY DEF HttpInv, Typed
<1>2. /\ client.queue \in Seq(Tokens) /\ client.holds \in BOOLEAN /\ client.fin \in BOOLEAN
      /\ client.pending \in Requests \cup {"none"}
  BY <1>1 DEF ClientSet
<1>3. Held(client.holds) \in {0, BodyLen} /\ Held(client.holds) \in Nat
  BY BodyIs DEF Held
<1>4. said.told \in Nat /\ said.ran \in Nat
  BY <1>1
<1> QED BY <1>1, <1>2, <1>3, <1>4

\* What holds of the server's state, whoever moves.
LEMMA StateIs ==
  ASSUME HttpInv, st # Null
  PROVE  /\ st \in States /\ Len(st.buf) =< BufSize /\ -1 =< st.src
         /\ (conn \in {"closed", "syn"} => ~cb.live) /\ (~cb.live => cb = Idle)
         /\ Connection(conn, st, cb, out) /\ Sources(st, open)
         /\ InHand(st, cb, out, client.pending, client.queue)
         /\ ReplyFits(st, out, client.pending)
         /\ Uploaded(st, cb, out, client, disk, spoilt)
         /\ ("idle" \in cb.flags => st.idle)
         /\ said.ran + One(st.idle) + One(Started(st, out)) =< said.told
         /\ (conn \in {"syn", "open"} /\ ~Overread(st, cb) =>
              OneRequest(Stream(st, cb, client.queue), client.pending, Held(client.holds)))
<1>1. st \in States /\ Len(st.buf) =< BufSize /\ -1 =< st.src /\ (~cb.live => cb = Idle)
  BY DEF HttpInv, Typed
<1> QED BY <1>1 DEF HttpInv

\* While nothing is asked for and nothing open, anything can be asked for.
LEMMA ParkedFits ==
  ASSUME NEW s, NEW o, Parked(s, o), NEW c, NEW p, NEW q, NEW cl, NEW d, NEW sp
  PROVE  /\ InHand(s, c, o, p, q) /\ ReplyFits(s, o, p) /\ Uploaded(s, c, o, cl, d, sp)
         /\ ~Overread(s, c) /\ ~Started(s, o)
<1>1. /\ s.pc \in {"top", "header"} /\ (s.pc = "header" => Fresh(s)) /\ Quiet(s.rd)
      /\ s.src = -1 /\ o = Null
  BY DEF Parked
<1>2. ~Serving(s, o)
  BY <1>1 DEF Serving
<1>3. s.pc = "header" => Matches(s, p) /\ Known(s, p) /\ s.code = 0 /\ s.handler = "none"
  BY <1>1 DEF Fresh, Matches, Known
<1>4. Undecided(s)
  BY <1>1, <1>3 DEF Undecided
<1>5. InHand(s, c, o, p, q)
  BY <1>1, <1>2, <1>3, <1>4 DEF InHand
<1>6. ReplyFits(s, o, p)
  BY <1>1 DEF ReplyFits
<1>7. Uploaded(s, c, o, cl, d, sp)
  BY <1>1 DEF Uploaded, Acknowledged
<1>8. ~Overread(s, c) /\ ~Started(s, o)
  BY <1>1 DEF Overread, Started
<1> QED BY <1>5, <1>6, <1>7, <1>8

\* The client has done something, and perhaps received a reply.
LEMMA ClientActs ==
  ASSUME HttpInv, st # Null, UNCHANGED <<conn, st, cb, disk, open, spoilt>>,
         NEW k \in ClientSet, client' = k, k.holds => k.pending \in {"none", "putexpect"},
         NEW o, out' = o, o = Null \/ o \in Replies, o = Null <=> out = Null,
         NEW n \in Nat, said' \in [told : Nat, ran : Nat], said'.told = n, said'.ran = said.ran,
         said.ran + One(st.idle) + One(Started(st, o)) =< n,
         InHand(st, cb, o, k.pending, k.queue), ReplyFits(st, o, k.pending),
         Uploaded(st, cb, o, k, disk, spoilt),
         conn \in {"syn", "open"} /\ ~Overread(st, cb) =>
              OneRequest(Stream(st, cb, k.queue), k.pending, Held(k.holds))
  PROVE  HttpInv'
<1>1. Typed'
  BY DEF HttpInv, Typed
<1>2. Connection(conn, st, cb, o)
  <2>1. Connection(conn, st, cb, out)
    BY StateIs
  <2> QED BY <2>1 DEF Connection, Closing, Parked
<1>3. Sources(st, open) /\ ("idle" \in cb.flags => st.idle)
      /\ (conn \in {"closed", "syn"} => ~cb.live)
  BY StateIs
<1> QED BY <1>1, <1>2, <1>3 DEF HttpInv

\* The same where the server has no state of the connection.
LEMMA ClientActsAlone ==
  ASSUME HttpInv, st = Null, UNCHANGED <<conn, st, cb, out, disk, open, said, spoilt>>,
         NEW k \in ClientSet, client' = k, k.holds => k.pending \in {"none", "putexpect"},
         conn = "syn" => OneRequest(k.queue, k.pending, Held(k.holds))
  PROVE  HttpInv'
<1>1. Typed'
  BY DEF HttpInv, Typed
<1>2. /\ conn \in {"closed", "syn"} /\ out = Null /\ ~cb.live
      /\ open.fd = 0 /\ open.src = 0 /\ said.ran <= said.told
  BY DEF HttpInv
<1> QED BY <1>1, <1>2 DEF HttpInv

\* What the client's side becomes.
Asking(c, p, q, h) == [c EXCEPT !.pending = p, !.queue = q, !.holds = h]

LEMMA AskingIs ==
  ASSUME NEW c \in ClientSet, NEW p \in Requests \cup {"none"}, NEW q \in Seq(Tokens),
         NEW h \in BOOLEAN, NEW k, k = Asking(c, p, q, h)
  PROVE  k \in ClientSet /\ k.pending = p /\ k.queue = q /\ k.holds = h /\ k.fin = c.fin
BY DEF ClientSet, Asking

\* A client that waits for nothing has left no line behind, and is owed no reply.
LEMMA NothingPending ==
  ASSUME HttpInv, st # Null, client.pending = "none", NEW p, NEW cl, NEW q
  PROVE  /\ InHand(st, cb, out, p, q) /\ ReplyFits(st, out, p)
         /\ Uploaded(st, cb, out, cl, disk, spoilt)
         /\ (conn \in {"syn", "open"} /\ ~Overread(st, cb) => Quiet(Stream(st, cb, client.queue)))
<1>1. /\ InHand(st, cb, out, client.pending, client.queue) /\ Sources(st, open)
      /\ ReplyFits(st, out, client.pending)
      /\ Uploaded(st, cb, out, client, disk, spoilt)
      /\ (conn \in {"syn", "open"} /\ ~Overread(st, cb) =>
              OneRequest(Stream(st, cb, client.queue), client.pending, Held(client.holds)))
  BY StateIs
<1>2. ~Serving(st, out)
  BY <1>1 DEF InHand
<1>3. st.pc = "header" => Matches(st, "none") /\ st.code = 0
  BY <1>1 DEF InHand, Known
<1>4. st.pc = "header" => /\ Matches(st, p) /\ Known(st, p) /\ st.handler # "get"
  BY <1>3 DEF Matches, Known, Uploads
<1>5. st.pc = "header" => ~(st.src >= 0)
  BY <1>1, <1>4 DEF Sources
<1>6. (st.pc # "header" => Quiet(st.rd) \/ Overread(st, cb)) /\ Undecided(st)
  BY <1>1 DEF InHand
<1>7. InHand(st, cb, out, p, q)
  BY <1>2, <1>4, <1>5, <1>6 DEF InHand
<1>8. out # Null => out.received
  BY <1>1 DEF ReplyFits, Uploads
<1>9. ReplyFits(st, out, p)
  BY <1>1, <1>8 DEF ReplyFits
<1>10. Uploaded(st, cb, out, cl, disk, spoilt)
  <2>1. /\ st.pc \notin {"continue", "receive", "write"}
        /\ ~(st.pc = "dispatch" /\ ~AllSent(st))
        /\ ~(st.pc = "sending" /\ st.then = "dispatch" /\ ~AllSent(st))
    BY <1>2 DEF Serving
  <2>2. Acknowledged(out)
    BY <1>8 DEF Acknowledged
  <2> QED BY <1>1, <2>1, <2>2 DEF Uploaded
<1>11. conn \in {"syn", "open"} /\ ~Overread(st, cb) => Quiet(Stream(st, cb, client.queue))
  BY <1>1 DEF OneRequest, Belongs, Of, Quiet
<1> QED BY <1>7, <1>9, <1>10, <1>11

LEMMA AskKeeps == ASSUME HttpInv, NEW r \in Requests, Ask(r) PROVE HttpInv'
<1>1. /\ conn \in {"syn", "open"} /\ client.pending = "none"
      /\ UNCHANGED <<conn, st, cb, out, disk, open, said, spoilt>>
  BY DEF Ask
<1>2. client \in ClientSet /\ client.queue \in Seq(Tokens) /\ said.told \in Nat
      /\ (out = Null \/ out \in Replies) /\ said \in [told : Nat, ran : Nat] /\ cb \in Callbacks
  BY ClientIs
<1>3. PICK b : b = IF r \in Uploads \ {"putexpect"} THEN Body ELSE <<>>
  OBVIOUS
<1>4. PICK h \in BOOLEAN : h = (r = "putexpect")
  <2> WITNESS (r = "putexpect") \in BOOLEAN
  <2> QED OBVIOUS
<1>5. /\ b \in Seq(Tokens) /\ (b = Body \/ b = <<>>) /\ Held(h) \in Nat
      /\ Len(b) + Held(h) =< BodyLen /\ (Held(h) = 0 \/ b = <<>>)
  <2>1. <<>> \in Seq(Tokens) /\ Len(<<>>) = 0 /\ Body \in Seq(Tokens)
        /\ Len(Body) = BodyLen /\ BodyLen \in Nat
    BY BodyIs
  <2>2. CASE h
    <3>1. b = <<>> /\ Held(h) = BodyLen
      BY <1>3, <1>4, <2>2 DEF Held
    <3> QED BY <2>1, <3>1
  <2>3. CASE ~h
    <3>1. Held(h) = 0
      BY <2>3 DEF Held
    <3>2. b = Body \/ b = <<>>
      BY <1>3
    <3>3. CASE b = Body
      BY <2>1, <3>1, <3>3
    <3>4. CASE b = <<>>
      BY <2>1, <3>1, <3>4
    <3> QED BY <3>2, <3>3, <3>4
  <2> QED BY <2>2, <2>3
<1>6. r \in Kinds /\ r \in Requests \cup {"none"}
  BY HttpAssumption
<1>7. PICK l \in Seq(Tokens) : l = Lines(r)
  <2>1. IsHead(Lines(r))
    BY <1>6, LinesAre
  <2>2. Lines(r) \in Seq(LineTokens)
    BY <2>1 DEF IsHead
  <2>3. Lines(r) \in Seq(Tokens)
    BY <2>2 DEF Tokens
  <2> QED BY <2>3
<1>8. PICK q \in Seq(Tokens) : q = (client.queue \o l) \o b
  <2>1. client.queue \o l \in Seq(Tokens)
    BY <1>2, <1>7
  <2>2. (client.queue \o l) \o b \in Seq(Tokens)
    BY <1>5, <2>1
  <2> QED BY <2>2
<1>9. PICK k : k = Asking(client, r, q, h)
  OBVIOUS
<1>10. client' = k
  BY <1>3, <1>4, <1>7, <1>8, <1>9 DEF Ask, Asking
<1>11. k \in ClientSet /\ k.pending = r /\ k.queue = q /\ k.holds = h
  BY <1>2, <1>6, <1>9, AskingIs
<1>12. k.holds => k.pending \in {"none", "putexpect"}
  BY <1>4, <1>11
<1>13. ASSUME NEW x \in Seq(Tokens), Quiet(x), NEW y, y = (x \o l) \o b
       PROVE  OneRequest(y, r, Held(h))
  BY <1>5, <1>6, <1>7, <1>13, RequestMade
<1>14. CASE st = Null
  <2>1. conn = "syn" => OneRequest(client.queue, client.pending, Held(client.holds))
    BY <1>14 DEF HttpInv
  <2>2. conn = "syn" => Quiet(client.queue)
    BY <1>1, <2>1 DEF OneRequest, Belongs, Of, Quiet
  <2>3. conn = "syn" => OneRequest(k.queue, k.pending, Held(k.holds))
    BY <1>2, <1>8, <1>11, <1>13, <2>2
  <2> QED BY <1>1, <1>10, <1>11, <1>12, <1>14, <2>3, ClientActsAlone
<1>15. CASE st # Null
  <2>1. /\ InHand(st, cb, out, k.pending, k.queue) /\ ReplyFits(st, out, k.pending)
        /\ Uploaded(st, cb, out, k, disk, spoilt)
        /\ (conn \in {"syn", "open"} /\ ~Overread(st, cb) => Quiet(Stream(st, cb, client.queue)))
    BY <1>1, <1>15, NothingPending
  <2>2. st \in States /\ said.ran + One(st.idle) + One(Started(st, out)) =< said.told
    BY <1>15, StateIs
  <2>3. PICK x \in Seq(Tokens) : x = Stream(st, cb, client.queue)
    BY <1>2, <2>2, StreamIs
  <2>4. Stream(st, cb, k.queue) = (x \o l) \o b
    <3>1. PICK y \in Seq(Tokens) : y = client.queue \o l
      <4>1. client.queue \o l \in Seq(Tokens)
        BY <1>2, <1>7
      <4> QED BY <4>1
    <3>2. Stream(st, cb, y) = x \o l
      <4>1. st \in States /\ cb \in Callbacks /\ client.queue \in Seq(Tokens) /\ l \in Seq(Tokens)
        BY <1>2, <1>7, <2>2
      <4>2. Stream(st, cb, client.queue \o l) = Stream(st, cb, client.queue) \o l
        BY <4>1, StreamAdded
      <4> QED BY <2>3, <3>1, <4>2
    <3>3. Stream(st, cb, y \o b) = Stream(st, cb, y) \o b
      <4>1. st \in States /\ cb \in Callbacks /\ b \in Seq(Tokens)
        BY <1>2, <1>5, <2>2
      <4> QED BY <4>1, StreamAdded
    <3> QED BY <1>8, <1>11, <3>1, <3>2, <3>3
  <2>5. conn \in {"syn", "open"} /\ ~Overread(st, cb) =>
              OneRequest(Stream(st, cb, k.queue), k.pending, Held(k.holds))
    BY <1>11, <1>13, <2>1, <2>3, <2>4
  <2>6. said' \in [told : Nat, ran : Nat] /\ said'.told = said.told /\ said'.ran = said.ran
    BY <1>1, <1>2
  <2> QED BY <1>1, <1>2, <1>10, <1>11, <1>12, <1>15, <2>1, <2>2, <2>5, <2>6, ClientActs
<1> QED BY <1>14, <1>15

LEMMA ClientMoves ==
  ASSUME HttpInv, st # Null, UNCHANGED <<conn, st, cb, out, disk, open, said, spoilt>>,
         NEW k \in ClientSet, client' = k, k.holds => k.pending \in {"none", "putexpect"},
         InHand(st, cb, out, k.pending, k.queue), ReplyFits(st, out, k.pending),
         Uploaded(st, cb, out, k, disk, spoilt),
         conn \in {"syn", "open"} /\ ~Overread(st, cb) =>
              OneRequest(Stream(st, cb, k.queue), k.pending, Held(k.holds))
  PROVE  HttpInv'
<1>1. (out = Null \/ out \in Replies) /\ said \in [told : Nat, ran : Nat] /\ said.told \in Nat
  BY ClientIs
<1>2. said.ran + One(st.idle) + One(Started(st, out)) =< said.told
  BY StateIs
<1>3. said' \in [told : Nat, ran : Nat] /\ said'.told = said.told /\ said'.ran = said.ran
  BY <1>1
<1> QED BY <1>1, <1>2, <1>3, ClientActs

\* The body that the client held back is sent, or will never be.
LEMMA HeldEnds ==
  ASSUME HttpInv, st # Null, client.holds, NEW o,
         InHand(st, cb, o, client.pending, client.queue),
         Uploaded(st, cb, o, client, disk, spoilt),
         NEW k \in ClientSet, k.pending = client.pending, ~k.holds,
         k.queue = client.queue \/ k.queue = client.queue \o Body
  PROVE  /\ InHand(st, cb, o, k.pending, k.queue) /\ Uploaded(st, cb, o, k, disk, spoilt)
         /\ (conn \in {"syn", "open"} /\ ~Overread(st, cb) =>
              OneRequest(Stream(st, cb, k.queue), k.pending, Held(k.holds)))
<1>1. /\ st \in States /\ Sources(st, open) /\ Connection(conn, st, cb, out)
      /\ (conn \in {"syn", "open"} /\ ~Overread(st, cb) =>
              OneRequest(Stream(st, cb, client.queue), client.pending, Held(client.holds)))
  BY StateIs
<1>2. /\ client.queue \in Seq(Tokens) /\ cb \in Callbacks /\ disk \in Seq(Tokens)
      /\ client.pending \in {"none", "putexpect"}
  BY ClientIs
<1>3. Held(client.holds) = BodyLen /\ Held(k.holds) = 0 /\ BodyLen \in Nat /\ Body \in Seq(Tokens)
  BY BodyIs DEF Held
<1>4. PICK x \in Seq(Tokens) : x = Stream(st, cb, client.queue) /\ Len(x) \in Nat
  BY <1>1, <1>2, StreamIs
<1>5. PICK y : y = Stream(st, cb, k.queue) /\ (y = x \/ y = x \o Body)
  <2>1. CASE k.queue = client.queue
    BY <1>4, <2>1
  <2>2. CASE k.queue = client.queue \o Body
    <3>1. Stream(st, cb, client.queue \o Body) = Stream(st, cb, client.queue) \o Body
      <4>1. st \in States /\ cb \in Callbacks /\ client.queue \in Seq(Tokens) /\ Body \in Seq(Tokens)
        BY <1>1, <1>2, <1>3
      <4> QED BY <4>1, StreamAdded
    <3> QED BY <1>4, <2>2, <3>1, Zenon
  <2> QED BY <2>1, <2>2
<1>6. ASSUME OneRequest(x, client.pending, BodyLen)
      PROVE  OneRequest(y, client.pending, 0) /\ (Quiet(x) => Quiet(y))
  <2>1. CASE y = x
    BY <1>3, <1>4, <1>6, <2>1, HeldDropped
  <2>2. CASE y = x \o Body
    BY <1>4, <1>6, <2>2, BodySent
  <2> QED BY <1>5, <2>1, <2>2
<1>7. ASSUME NEW d \in Seq(Tokens), Follows(d, x, BodyLen, spoilt)
      PROVE  Follows(d, y, 0, spoilt)
  <2>1. CASE y = x
    BY <1>3, <1>4, <1>7, <2>1, FollowsDropped
  <2>2. CASE y = x \o Body
    BY <1>4, <1>7, <2>2, FollowsSent
  <2> QED BY <1>5, <2>1, <2>2
<1>8. InHand(st, cb, o, k.pending, k.queue)
  <2>1. ASSUME Serving(st, o) PROVE Quiet(y) \/ Overread(st, cb)
    <3>1. conn = "open"
      <4>1. st.pc \notin {"top", "header"}
        BY <2>1 DEF Serving
      <4> QED BY <1>1, <4>1 DEF Connection, Parked
    <3>2. Quiet(x) \/ Overread(st, cb)
      BY <1>4, <2>1 DEF InHand
    <3> QED BY <1>1, <1>3, <1>4, <1>6, <3>1, <3>2
  <2>2. ~(st.pc = "header" /\ st.src >= 0)
    <3>1. ASSUME st.pc = "header", st.src >= 0 PROVE FALSE
      <4>1. st.handler = "get" /\ Matches(st, client.pending)
        BY <1>1, <3>1 DEF Sources, InHand
      <4> QED BY <1>2, <4>1 DEF Matches
    <3> QED BY <3>1
  <2> QED BY <1>5, <2>1, <2>2 DEF InHand
<1>9. Uploaded(st, cb, o, k, disk, spoilt)
  <2>1. <<>> \in Seq(Tokens) /\ disk \o st.buf \in Seq(Tokens)
    <3>1. st.buf \in Seq(Tokens)
      BY <1>1 DEF States, Texts
    <3> QED BY <1>2, <3>1
  <2>2. /\ Follows(<<>>, x, BodyLen, spoilt) => Follows(<<>>, y, 0, spoilt)
        /\ Follows(disk \o st.buf, x, BodyLen, spoilt) => Follows(disk \o st.buf, y, 0, spoilt)
    BY <1>7, <2>1
  <2> QED BY <1>3, <1>4, <1>5, <2>2 DEF Uploaded
<1>10. conn \in {"syn", "open"} /\ ~Overread(st, cb) =>
              OneRequest(Stream(st, cb, k.queue), k.pending, Held(k.holds))
  BY <1>1, <1>3, <1>4, <1>5, <1>6
<1> QED BY <1>8, <1>9, <1>10

\* SendBody and HangUp.
LEMMA HeldOver ==
  ASSUME HttpInv, client.holds, UNCHANGED <<conn, st, cb, out, disk, open, said, spoilt>>,
         NEW k \in ClientSet, client' = k, k.pending = client.pending, ~k.holds,
         k.queue = client.queue \/ k.queue = client.queue \o Body
  PROVE  HttpInv'
<1>1. CASE st = Null
  <2>1. conn = "syn" => OneRequest(client.queue, client.pending, Held(client.holds))
    BY <1>1 DEF HttpInv
  <2>2. Held(client.holds) = BodyLen /\ Held(k.holds) = 0 /\ client.queue \in Seq(Tokens)
        /\ BodyLen \in Nat
    BY ClientIs, BodyIs DEF Held
  <2>3. CASE k.queue = client.queue
    <3>1. conn = "syn" => OneRequest(client.queue, client.pending, 0)
      <4>1. ASSUME OneRequest(client.queue, client.pending, BodyLen)
            PROVE  OneRequest(client.queue, client.pending, 0)
        <5>1. Len(client.queue) \in Nat /\ BodyLen \in {0, BodyLen}
          BY <2>2
        <5> QED BY <4>1, <5>1, HeldDropped
      <4> QED BY <2>1, <2>2, <4>1
    <3>2. conn = "syn" => OneRequest(k.queue, k.pending, Held(k.holds))
      BY <2>2, <2>3, <3>1
    <3> QED BY <1>1, <3>2, ClientActsAlone
  <2>4. CASE k.queue = client.queue \o Body
    <3>1. conn = "syn" => OneRequest(client.queue \o Body, client.pending, 0)
      BY <2>1, <2>2, BodySent
    <3>2. conn = "syn" => OneRequest(k.queue, k.pending, Held(k.holds))
      BY <2>2, <2>4, <3>1
    <3> QED BY <1>1, <3>2, ClientActsAlone
  <2> QED BY <2>3, <2>4
<1>2. CASE st # Null
  <2>1. /\ InHand(st, cb, out, client.pending, client.queue)
        /\ Uploaded(st, cb, out, client, disk, spoilt) /\ ReplyFits(st, out, k.pending)
    BY <1>2, StateIs
  <2>2. /\ InHand(st, cb, out, k.pending, k.queue) /\ Uploaded(st, cb, out, k, disk, spoilt)
        /\ (conn \in {"syn", "open"} /\ ~Overread(st, cb) =>
              OneRequest(Stream(st, cb, k.queue), k.pending, Held(k.holds)))
    BY <1>2, <2>1, HeldEnds
  <2> QED BY <1>2, <2>1, <2>2, ClientMoves
<1> QED BY <1>1, <1>2

LEMMA SendBodyKeeps == ASSUME HttpInv, SendBody PROVE HttpInv'
<1>1. client.holds /\ UNCHANGED <<conn, st, cb, out, disk, open, said, spoilt>>
      /\ client' = [client EXCEPT !.holds = FALSE, !.queue = @ \o Body]
  BY DEF SendBody
<1>2. client \in ClientSet /\ client.queue \in Seq(Tokens) /\ Body \in Seq(Tokens)
      /\ client.pending \in Requests \cup {"none"}
  BY ClientIs, BodyIs
<1>3. PICK q \in Seq(Tokens) : q = client.queue \o Body
  <2>1. client.queue \o Body \in Seq(Tokens)
    BY <1>2
  <2> QED BY <2>1
<1>4. PICK h \in BOOLEAN : h = FALSE
  OBVIOUS
<1>5. PICK k : k = Asking(client, client.pending, q, h)
  OBVIOUS
<1>6. client' = k
  BY <1>1, <1>2, <1>3, <1>4, <1>5 DEF Asking, ClientSet
<1>7. k \in ClientSet /\ k.pending = client.pending /\ k.queue = q /\ ~k.holds
  <2>1. k \in ClientSet /\ k.pending = client.pending /\ k.queue = q /\ k.holds = h
    <3>1. PICK p \in Requests \cup {"none"} : p = client.pending
      BY <1>2
    <3>2. k = Asking(client, p, q, h) /\ client \in ClientSet
      BY <1>2, <1>5, <3>1
    <3>3. q \in Seq(Tokens) /\ h \in BOOLEAN
      BY <1>3, <1>4
    <3>4. k \in ClientSet /\ k.pending = p /\ k.queue = q /\ k.holds = h
      BY <3>1, <3>2, <3>3, AskingIs
    <3> QED BY <3>1, <3>4
  <2> QED BY <1>4, <2>1
<1>8. k.queue = client.queue \/ k.queue = client.queue \o Body
  BY <1>3, <1>7
<1> QED BY <1>1, <1>6, <1>7, <1>8, HeldOver

\* The client ends its side.
Leaving(c, p) == [c EXCEPT !.pending = p, !.fin = TRUE, !.holds = FALSE]

LEMMA LeavingIs ==
  ASSUME NEW c \in ClientSet, NEW p \in Requests \cup {"none"}, NEW k, k = Leaving(c, p)
  PROVE  k \in ClientSet /\ k.pending = p /\ k.queue = c.queue /\ ~k.holds
BY DEF ClientSet, Leaving

LEMMA HangUpKeeps == ASSUME HttpInv, HangUp PROVE HttpInv'
<1>1. UNCHANGED <<conn, st, cb, out, disk, open, said, spoilt>>
      /\ client' = [client EXCEPT !.fin = TRUE, !.holds = FALSE]
  BY DEF HangUp
<1>2. client \in ClientSet /\ client.pending \in Requests \cup {"none"}
      /\ client.holds \in BOOLEAN
  BY ClientIs
<1>3. PICK k : k = Leaving(client, client.pending)
  OBVIOUS
<1>4. client' = k
  BY <1>1, <1>2, <1>3 DEF Leaving, ClientSet
<1>5. k \in ClientSet /\ k.pending = client.pending /\ k.queue = client.queue /\ ~k.holds
  BY <1>2, <1>3, LeavingIs
<1>6. CASE client.holds
  BY <1>1, <1>4, <1>5, <1>6, HeldOver
<1>7. CASE ~client.holds
  <2>1. Held(client.holds) = 0 /\ Held(k.holds) = 0
    BY <1>5, <1>7 DEF Held
  <2>2. CASE st = Null
    <3>1. conn = "syn" => OneRequest(client.queue, client.pending, Held(client.holds))
      BY <2>2 DEF HttpInv
    <3>2. conn = "syn" => OneRequest(k.queue, k.pending, Held(k.holds))
      BY <1>5, <2>1, <3>1
    <3> QED BY <1>1, <1>4, <1>5, <2>2, <3>2, ClientActsAlone
  <2>3. CASE st # Null
    <3>1. /\ InHand(st, cb, out, client.pending, client.queue)
          /\ Uploaded(st, cb, out, client, disk, spoilt) /\ ReplyFits(st, out, client.pending)
          /\ (conn \in {"syn", "open"} /\ ~Overread(st, cb) =>
              OneRequest(Stream(st, cb, client.queue), client.pending, Held(client.holds)))
      BY <2>3, StateIs
    <3>2. Uploaded(st, cb, out, k, disk, spoilt)
      BY <1>5, <2>1, <3>1 DEF Uploaded
    <3>3. /\ InHand(st, cb, out, k.pending, k.queue) /\ ReplyFits(st, out, k.pending)
          /\ (conn \in {"syn", "open"} /\ ~Overread(st, cb) =>
              OneRequest(Stream(st, cb, k.queue), k.pending, Held(k.holds)))
      BY <1>5, <2>1, <3>1
    <3> QED BY <1>1, <1>4, <1>5, <2>3, <3>2, <3>3, ClientMoves
  <2> QED BY <2>2, <2>3
<1> QED BY <1>6, <1>7

LEMMA SeeClosedKeeps == ASSUME HttpInv, SeeClosed PROVE HttpInv'
<1>1. /\ UNCHANGED <<conn, st, cb, out, disk, open, said, spoilt>> /\ conn \in {"fin", "closed"}
      /\ client' = [client EXCEPT !.pending = "none", !.fin = TRUE, !.holds = FALSE]
  BY DEF SeeClosed
<1>2. client \in ClientSet
  BY ClientIs
<1>3. PICK p \in Requests \cup {"none"} : p = "none"
  OBVIOUS
<1>4. PICK k : k = Leaving(client, p)
  OBVIOUS
<1>5. client' = k
  BY <1>1, <1>3, <1>4 DEF Leaving
<1>6. k \in ClientSet /\ k.pending = p /\ k.queue = client.queue /\ ~k.holds
  BY <1>2, <1>4, LeavingIs
<1>7. CASE st = Null
  BY <1>1, <1>5, <1>6, <1>7, ClientActsAlone
<1>8. CASE st # Null
  <2>1. Parked(st, out)
    <3>1. Connection(conn, st, cb, out)
      BY <1>8, StateIs
    <3> QED BY <1>1, <3>1 DEF Connection
  <2>2. /\ InHand(st, cb, out, k.pending, k.queue) /\ ReplyFits(st, out, k.pending)
        /\ Uploaded(st, cb, out, k, disk, spoilt)
    BY <2>1, ParkedFits
  <2>3. conn \notin {"syn", "open"}
    BY <1>1
  <2> QED BY <1>1, <1>5, <1>6, <1>8, <2>2, <2>3, ClientMoves
<1> QED BY <1>7, <1>8

\* A reply that is not the 100, and not a part of a file, ends what was asked for.
LEMMA ReceivedFits ==
  ASSUME HttpInv, out # Null, ~out.received,
         NEW o \in Replies, o.received, o.code = out.code, o.more = out.more,
         NEW p, p = client.pending \/ (out.code # "100" /\ ~out.more),
         NEW k, k.queue = client.queue, k.holds = client.holds
  PROVE  /\ st # Null /\ InHand(st, cb, o, p, k.queue) /\ ReplyFits(st, o, p)
         /\ Uploaded(st, cb, o, k, disk, spoilt) /\ conn = "open" /\ ~Overread(st, cb)
         /\ OneRequest(Stream(st, cb, k.queue), p, Held(k.holds))
         /\ ~Started(st, out) /\ (Started(st, o) <=> out.code = "200 run")
<1>1. st # Null
  BY DEF HttpInv
<1>2. /\ Connection(conn, st, cb, out) /\ Sources(st, open) /\ ReplyFits(st, out, client.pending)
      /\ InHand(st, cb, out, client.pending, client.queue)
      /\ Uploaded(st, cb, out, client, disk, spoilt)
      /\ (conn \in {"syn", "open"} /\ ~Overread(st, cb) =>
              OneRequest(Stream(st, cb, client.queue), client.pending, Held(client.holds)))
  BY <1>1, StateIs
<1>3. o # Null
  BY NullIsNone
<1>4. st.pc = "sending" /\ st.then \in {"dispatch", "answered", "runs"} /\ conn = "open"
  BY <1>2 DEF Connection, Parked
<1>5. ~Overread(st, cb)
  BY <1>4 DEF Overread
<1>6. ~Acknowledged(out) /\ Acknowledged(o)
  BY <1>3 DEF Acknowledged
<1>7. /\ client.pending # "none" /\ Matches(st, client.pending)
      /\ Quiet(Stream(st, cb, client.queue))
  BY <1>2, <1>4, <1>5, <1>6 DEF InHand, Serving
<1>8. Serving(st, o) => p = client.pending
  <2>1. ASSUME Serving(st, o) PROVE p = client.pending
    <3>1. st.then = "dispatch" /\ ~AllSent(st)
      BY <1>4, <1>6, <2>1 DEF Serving
    <3>2. out.code = "100" \/ (st.begun /\ (out.more <=> st.src > 0))
      BY <1>2, <3>1 DEF ReplyFits
    <3>3. st.begun => st.src >= 0 /\ st.src # 0
      BY <1>2, <3>1 DEF Sources, AllSent
    <3>4. st.src \in Int
      BY <1>1, StateIs DEF States
    <3> QED BY <3>2, <3>3, <3>4
  <2> QED BY <2>1
<1>9. InHand(st, cb, o, p, k.queue)
  BY <1>2, <1>4, <1>7, <1>8 DEF InHand
<1>10. ReplyFits(st, o, p)
  BY <1>2 DEF ReplyFits
<1>11. Uploaded(st, cb, o, k, disk, spoilt)
  BY <1>2, <1>4, <1>6 DEF Uploaded
<1>12. OneRequest(Stream(st, cb, k.queue), p, Held(k.holds))
  BY <1>7, QuietOne
<1>13. ~Started(st, out) /\ (Started(st, o) <=> out.code = "200 run")
  BY <1>2, <1>4, <1>6 DEF Started, ReplyFits
<1> QED BY <1>1, <1>4, <1>5, <1>9, <1>10, <1>11, <1>12, <1>13

LEMMA ReceiveKeeps == ASSUME HttpInv, Receive PROVE HttpInv'
<1>1. /\ out # Null /\ ~out.received /\ UNCHANGED <<conn, st, cb, disk, open, spoilt>>
      /\ out' = [out EXCEPT !.received = TRUE]
      /\ said' = [said EXCEPT !.told = IF out.code = "200 run" THEN @ + 1 ELSE @]
  BY DEF Receive
<1>2. /\ client \in ClientSet /\ client.queue \in Seq(Tokens) /\ client.holds \in BOOLEAN
      /\ client.pending \in Requests \cup {"none"} /\ out \in Replies
      /\ said \in [told : Nat, ran : Nat] /\ said.told \in Nat /\ said.ran \in Nat
      /\ (client.holds => client.pending \in {"none", "putexpect"})
  BY <1>1, ClientIs
<1>3. PICK o \in Replies : out' = o /\ o.received /\ o.code = out.code /\ o.more = out.more
  <2>1. PICK o : o = [out EXCEPT !.received = TRUE]
    OBVIOUS
  <2>2. o \in Replies /\ o.received /\ o.code = out.code /\ o.more = out.more
    BY <1>2, <2>1 DEF Replies
  <2> QED BY <1>1, <2>1, <2>2
<1>4. PICK p \in Requests \cup {"none"} :
        /\ p = IF out.code = "100" \/ out.more THEN client.pending ELSE "none"
        /\ p = client.pending \/ (out.code # "100" /\ ~out.more)
        /\ p \in {client.pending, "none"}
  BY <1>2
<1>5. PICK q \in Seq(Tokens) :
        q = IF client.holds /\ out.code = "100" /\ ~client.fin THEN client.queue \o Body ELSE client.queue
  <2>1. client.queue \o Body \in Seq(Tokens)
    BY <1>2, BodyIs
  <2> QED BY <1>2, <2>1
<1>6. PICK h \in BOOLEAN : h = (client.holds /\ out.code # "100")
  <2> WITNESS (client.holds /\ out.code # "100") \in BOOLEAN
  <2> QED OBVIOUS
<1>7. PICK k : k = Asking(client, p, q, h)
  OBVIOUS
<1>8. client' = k
  <2>1. client' = [client EXCEPT
           !.holds = @ /\ out.code # "100",
           !.queue = IF client.holds /\ out.code = "100" /\ ~client.fin THEN @ \o Body ELSE @,
           !.pending = IF out.code = "100" \/ out.more THEN @ ELSE "none"]
    BY DEF Receive
  <2>2. client' = [client EXCEPT !.holds = h, !.queue = q, !.pending = p]
    BY <1>2, <1>4, <1>5, <1>6, <2>1 DEF ClientSet
  <2> QED BY <1>2, <1>7, <2>2 DEF Asking, ClientSet
<1>9. k \in ClientSet /\ k.pending = p /\ k.queue = q /\ k.holds = h
  <2>1. client \in ClientSet /\ k = Asking(client, p, q, h)
    BY <1>2, <1>7
  <2>2. p \in Requests \cup {"none"} /\ q \in Seq(Tokens) /\ h \in BOOLEAN
    BY <1>4, <1>5, <1>6
  <2> QED BY <2>1, <2>2, AskingIs
<1>10. k.holds => k.pending \in {"none", "putexpect"}
  BY <1>2, <1>4, <1>6, <1>9
<1>11. /\ st # Null /\ InHand(st, cb, o, p, client.queue) /\ ReplyFits(st, o, p)
       /\ Uploaded(st, cb, o, client, disk, spoilt) /\ conn = "open" /\ ~Overread(st, cb)
       /\ OneRequest(Stream(st, cb, client.queue), p, Held(client.holds))
       /\ ~Started(st, out) /\ (Started(st, o) <=> out.code = "200 run")
  BY <1>1, <1>3, <1>4, ReceivedFits
<1>12. /\ InHand(st, cb, o, k.pending, k.queue) /\ Uploaded(st, cb, o, k, disk, spoilt)
       /\ (conn \in {"syn", "open"} /\ ~Overread(st, cb) =>
              OneRequest(Stream(st, cb, k.queue), k.pending, Held(k.holds)))
  <2>1. CASE client.holds /\ out.code = "100"
    <3>1. p = client.pending
      BY <1>4, <2>1
    <3>2. k.pending = client.pending /\ ~k.holds
          /\ (k.queue = client.queue \/ k.queue = client.queue \o Body)
      BY <1>5, <1>6, <1>9, <2>1, <3>1
    <3>3. InHand(st, cb, o, client.pending, client.queue)
      BY <1>11, <3>1
    <3> QED BY <1>9, <1>11, <2>1, <3>2, <3>3, HeldEnds
  <2>2. CASE ~(client.holds /\ out.code = "100")
    <3>1. k.queue = client.queue /\ k.holds = client.holds
      BY <1>2, <1>5, <1>6, <1>9, <2>2
    <3>2. /\ InHand(st, cb, o, p, k.queue) /\ Uploaded(st, cb, o, k, disk, spoilt)
          /\ OneRequest(Stream(st, cb, k.queue), p, Held(k.holds))
      BY <1>1, <1>3, <1>4, <3>1, ReceivedFits
    <3> QED BY <1>9, <3>2
  <2> QED BY <2>1, <2>2
<1>13. PICK n \in Nat : n = IF out.code = "200 run" THEN said.told + 1 ELSE said.told
  <2>1. CASE out.code = "200 run"
    <3> said.told + 1 \in Nat
      BY <1>2
    <3> WITNESS said.told + 1 \in Nat
    <3> QED BY <2>1
  <2>2. CASE out.code # "200 run"
    <3> said.told \in Nat
      BY <1>2
    <3> WITNESS said.told \in Nat
    <3> QED BY <2>2
  <2> QED BY <2>1, <2>2
<1>14. said' \in [told : Nat, ran : Nat] /\ said'.told = n /\ said'.ran = said.ran
  <2>1. said' = [said EXCEPT !.told = n]
    BY <1>1, <1>13
  <2> QED BY <1>2, <2>1
<1>15. said.ran + One(st.idle) + One(Started(st, o)) =< n
  <2>1. said.ran + One(st.idle) + One(Started(st, out)) =< said.told
    BY <1>11, StateIs
  <2>2. One(Started(st, out)) = 0 /\ One(st.idle) \in Nat
    BY <1>11 DEF One
  <2>3. CASE out.code = "200 run"
    <3>1. n = said.told + 1 /\ One(Started(st, o)) = 1
      BY <1>11, <1>13, <2>3 DEF One
    <3> QED BY <1>2, <2>1, <2>2, <3>1
  <2>4. CASE out.code # "200 run"
    <3>1. n = said.told /\ One(Started(st, o)) = 0
      BY <1>11, <1>13, <2>4 DEF One
    <3> QED BY <1>2, <2>1, <2>2, <3>1
  <2> QED BY <2>3, <2>4
<1>16. o # Null /\ (o = Null <=> out = Null)
  BY <1>1, NullIsNone
<1>17. ReplyFits(st, o, k.pending)
  BY <1>9, <1>11
<1> QED BY <1>1, <1>3, <1>8, <1>9, <1>10, <1>11, <1>12, <1>14, <1>15, <1>16, <1>17, ClientActs

\* While nothing is asked for, connections come and go.
LEMMA ParkedOn ==
  ASSUME HttpInv, st # Null, Parked(st, out), st.ps # "READ",
         UNCHANGED <<st, out, disk, open, said>>,
         NEW k \in ClientSet, client' = k, k.holds => k.pending \in {"none", "putexpect"},
         NEW c \in Callbacks, cb' = c, ~c.live => c = Idle,
         NEW cn \in {"closed", "syn", "open", "fin"}, conn' = cn,
         cn \in {"closed", "syn"} => ~c.live, cn # "open" => "newdata" \notin c.flags,
         "close" \notin c.flags, "idle" \in c.flags => st.idle,
         cn \in {"syn", "open"} => OneRequest(Stream(st, c, k.queue), k.pending, Held(k.holds))
  PROVE  HttpInv'
<1>1. Typed'
  BY DEF HttpInv, Typed
<1>2. /\ InHand(st, c, out, k.pending, k.queue) /\ ReplyFits(st, out, k.pending)
      /\ Uploaded(st, c, out, k, disk, spoilt')
  BY ParkedFits
<1>3. Connection(cn, st, c, out)
  <2>1. out = Null /\ st.pc \in {"top", "header"}
    BY DEF Parked
  <2>2. Closing(st, c, out)
    BY DEF Closing
  <2>3. c.live => cn \in {"open", "fin"}
    OBVIOUS
  <2> QED BY <2>1, <2>2, <2>3 DEF Connection
<1>4. Sources(st, open) /\ said.ran + One(st.idle) + One(Started(st, out)) =< said.told
  BY StateIs
<1> QED BY <1>1, <1>2, <1>3, <1>4 DEF HttpInv

\* A client that has just connected.
Newcomer == [pending |-> "none", queue |-> <<>>, holds |-> FALSE, fin |-> FALSE]

LEMMA NewcomerIs ==
  Newcomer \in ClientSet /\ Newcomer.pending = "none" /\ Newcomer.queue = <<>> /\ ~Newcomer.holds
<1>1. <<>> \in Seq(Tokens)
  OBVIOUS
<1> QED BY <1>1 DEF Newcomer, ClientSet

LEMMA NoRequest == ASSUME NEW p, NEW h PROVE OneRequest(<<>>, p, h)
<1>1. Len(<<>>) = 0
  OBVIOUS
<1> QED BY <1>1, QuietOne DEF Quiet

\* What has been read of what nobody asked for is no line.
LEMMA ParkedStream ==
  ASSUME NEW s \in States, Quiet(s.rd), NEW p, NEW h
  PROVE  OneRequest(Stream(s, Idle, <<>>), p, h)
<1>1. <<>> \in Seq(Tokens) /\ Quiet(<<>>)
  BY DEF Quiet
<1>2. Idle \in Callbacks /\ Unread(s, Idle) = <<>>
  BY NullIsNone, NothingIdle
<1>3. Quiet(Stream(s, Idle, <<>>))
  BY <1>1, <1>2, QuietStream
<1> QED BY <1>3, QuietOne

LEMMA ConnectKeeps == ASSUME HttpInv, Connect PROVE HttpInv'
<1>1. /\ conn = "closed" /\ cb = Idle /\ conn' = "syn" /\ client' = Newcomer
      /\ UNCHANGED <<st, cb, out, disk, open, said>>
  BY DEF Connect, Newcomer
<1>2. PICK k \in ClientSet : client' = k /\ k.queue = <<>> /\ ~k.holds
  BY <1>1, NewcomerIs
<1>3. CASE st = Null
  <2>1. Typed'
    BY <1>1, <1>2 DEF HttpInv, Typed
  <2>2. OneRequest(k.queue, k.pending, Held(k.holds))
    BY <1>2, NoRequest
  <2>3. /\ out = Null /\ ~cb.live /\ open.fd = 0 /\ open.src = 0 /\ said.ran =< said.told
    BY <1>3 DEF HttpInv
  <2>4. conn' = "syn" /\ st' = Null /\ out' = Null /\ ~cb'.live /\ open'.fd = 0 /\ open'.src = 0
        /\ said'.ran =< said'.told
    BY <1>1, <1>3, <2>3
  <2> QED BY <1>2, <2>1, <2>2, <2>4 DEF HttpInv
<1>4. CASE st # Null
  <2>1. st \in States /\ Connection(conn, st, cb, out)
    BY <1>4, StateIs
  <2>2. ~cb.live /\ Idle \in Callbacks /\ Idle.flags = {}
    BY <1>1, NullIsNone
  <2>3. Parked(st, out) /\ st.ps # "READ" /\ Quiet(st.rd)
    BY <1>1, <2>1, <2>2 DEF Connection, Parked
  <2>4. OneRequest(Stream(st, Idle, k.queue), k.pending, Held(k.holds))
    BY <1>2, <2>1, <2>3, ParkedStream
  <2>5. PICK c \in Callbacks : cb' = c /\ c = Idle /\ c.flags = {} /\ ~c.live
    BY <1>1, <2>2
  <2>6. PICK cn \in {"closed", "syn", "open", "fin"} : conn' = cn /\ cn = "syn"
    BY <1>1
  <2>7. OneRequest(Stream(st, c, k.queue), k.pending, Held(k.holds))
    BY <2>4, <2>5
  <2> QED BY <1>1, <1>2, <1>4, <2>3, <2>5, <2>6, <2>7, ParkedOn
<1> QED BY <1>3, <1>4

\* What is left in the client's queue.
Fewer(c, q) == [c EXCEPT !.queue = q]

LEMMA FewerIs ==
  ASSUME NEW c \in ClientSet, NEW q \in Seq(Tokens), NEW k, k = Fewer(c, q)
  PROVE  k \in ClientSet /\ k.pending = c.pending /\ k.queue = q /\ k.holds = c.holds
BY DEF ClientSet, Fewer

LEMMA ForgottenKeeps == ASSUME HttpInv, Forgotten PROVE HttpInv'
<1>1. /\ conn = "fin" /\ cb = Idle /\ conn' = "closed"
      /\ client' = [client EXCEPT !.queue = <<>>]
      /\ UNCHANGED <<st, cb, out, disk, open, said, spoilt>>
  BY DEF Forgotten
<1>2. PICK q \in Seq(Tokens) : q = <<>>
  <2>1. <<>> \in Seq(Tokens)
    OBVIOUS
  <2> QED BY <2>1
<1>3. PICK k : k = Fewer(client, q)
  OBVIOUS
<1>4. client' = k
  BY <1>1, <1>2, <1>3 DEF Fewer
<1>5. k \in ClientSet /\ (k.holds => k.pending \in {"none", "putexpect"})
  BY <1>3, ClientIs, FewerIs
<1>6. st # Null
  BY <1>1 DEF HttpInv
<1>7. Connection(conn, st, cb, out)
  BY <1>6, StateIs
<1>8. PICK c \in Callbacks : cb' = c /\ c = cb /\ c = Idle /\ c.flags = {} /\ ~c.live
  BY <1>1, NullIsNone
<1>9. Parked(st, out) /\ st.ps # "READ"
  BY <1>1, <1>7, <1>8 DEF Connection
<1>10. PICK cn \in {"closed", "syn", "open", "fin"} : conn' = cn /\ cn = "closed"
  BY <1>1
<1> QED BY <1>1, <1>4, <1>5, <1>6, <1>8, <1>9, <1>10, ParkedOn

\* uIP calls with the flags f and the data d.
Called(f, d) == [flags |-> f, data |-> d, live |-> TRUE]

LEMMA CalledIs ==
  ASSUME NEW f \in SUBSET Flags, NEW d \in Seq(Tokens), NEW c, c = Called(f, d)
  PROVE  c \in Callbacks /\ c.flags = f /\ c.data = d /\ c.live
<1>1. TRUE \in BOOLEAN
  OBVIOUS
<1> QED BY <1>1 DEF Called, Callbacks

\* The first k units of the client's queue are sent.
LEMMA SegmentSent ==
  ASSUME HttpInv, NEW k \in 0..Len(client.queue),
         NEW q, q = SubSeq(client.queue, k + 1, Len(client.queue)),
         NEW d, d = SubSeq(client.queue, 1, k)
  PROVE  /\ q \in Seq(Tokens) /\ d \in Seq(Tokens)
         /\ \A p : \A h \in Nat : OneRequest(client.queue, p, h) => OneRequest(q, p, h)
<1>1. client.queue \in Seq(Tokens)
  BY ClientIs
<1>2. q \in Seq(Tokens) /\ d \in Seq(Tokens) /\ Without(q, client.queue, k)
  BY <1>1, WithoutFirst
<1>3. Len(client.queue) \in Nat /\ Len(q) \in Nat /\ k \in Nat
  BY <1>1, <1>2
<1>4. ASSUME NEW p, NEW h \in Nat, OneRequest(client.queue, p, h) PROVE OneRequest(q, p, h)
  BY <1>2, <1>3, <1>4, WithoutOne
<1> QED BY <1>2, <1>4

LEMMA AllocIs ==
  /\ Alloc \in States /\ Alloc.pc = "top" /\ Alloc.rd = <<>> /\ Alloc.src = -1 /\ ~Alloc.fd
  /\ ~Alloc.idle /\ Alloc.ps = "NONE" /\ ~Alloc.begun /\ Len(Alloc.buf) =< BufSize /\ Alloc # Null
  /\ Alloc.handler = "none"
<1>1. PICK e \in Texts : e = <<>>
  <2>1. <<>> \in Texts
    BY DEF Texts
  <2> QED BY <2>1
<1>2. PICK b \in BOOLEAN : b = FALSE
  OBVIOUS
<1>3. PICK p \in Pcs : p = "top"
  BY DEF Pcs
<1>4. PICK z \in Lefts : z = 0
  <2>1. 0 \in Lefts
    BY BodyIs DEF Lefts
  <2> QED BY <2>1
<1>5. PICK n \in Lengths : n = -1
  BY DEF Lengths
<1>6. PICK r \in Readings : r = "NONE"
  BY DEF Readings
<1>7. PICK h \in Handlers : h = "none"
  BY DEF Handlers
<1>8. PICK c \in Results : c = 0
  BY DEF Results
<1>9. PICK s \in Strings : s = 0
  BY DEF Strings
<1>10. PICK i \in Int : i = -1
  OBVIOUS
<1>11. Alloc = [pc |-> p, then |-> p, handler |-> h, code |-> c, str |-> s,
                len |-> n, expect |-> b, form |-> b, fd |-> b, src |-> i,
                left |-> z, begun |-> b, ps |-> r, rd |-> e, buf |-> e, junk |-> b,
                idle |-> b]
  BY <1>1, <1>2, <1>3, <1>4, <1>5, <1>6, <1>7, <1>8, <1>9, <1>10, Zenon DEF Alloc
<1>12. Alloc \in States
  BY <1>11 DEF States
<1>13. Len(<<>>) = 0 /\ BufSize \in Nat
  BY HttpAssumption
<1>14. Alloc # Null
  BY <1>12, NullIsNone
<1>15. /\ Alloc.pc = "top" /\ Alloc.rd = <<>> /\ Alloc.src = -1 /\ ~Alloc.fd /\ ~Alloc.idle
       /\ Alloc.ps = "NONE" /\ ~Alloc.begun /\ Alloc.buf = <<>> /\ Alloc.handler = "none"
  BY DEF Alloc
<1>16. Len(Alloc.buf) =< BufSize
  <2>1. Len(Alloc.buf) = 0
    BY <1>13, <1>15
  <2> QED BY <1>13, <2>1
<1> QED BY <1>12, <1>14, <1>15, <1>16

\* The CONNECTED callback allocates the state of a connection that has none.
LEMMA Accepted ==
  ASSUME HttpInv, st = Null, conn = "syn", conn' = "open", st' = Alloc,
         NEW k \in ClientSet, client' = k, k.pending = client.pending, k.holds = client.holds,
         OneRequest(client.queue, client.pending, Held(client.holds))
            => OneRequest(k.queue, client.pending, Held(client.holds)),
         UNCHANGED <<cb, out, disk, open, said>>
  PROVE  HttpInv'
<1>1. /\ out = Null /\ ~cb.live /\ open.fd = 0 /\ open.src = 0 /\ said.ran =< said.told
      /\ OneRequest(client.queue, client.pending, Held(client.holds))
  BY DEF HttpInv
<1>2. cb = Idle
  BY <1>1 DEF HttpInv, Typed
<1>3. PICK a \in States : a = Alloc
  BY AllocIs
<1>4. /\ a.pc = "top" /\ a.rd = <<>> /\ a.src = -1 /\ ~a.fd /\ ~a.idle /\ a.ps = "NONE"
      /\ ~a.begun /\ Len(a.buf) =< BufSize /\ a # Null /\ a.handler = "none"
  BY <1>3, AllocIs
<1>5. Typed'
  BY <1>3, <1>4 DEF HttpInv, Typed
<1>6. Parked(a, Null)
  <2>1. Quiet(a.rd)
    BY <1>4 DEF Quiet
  <2> QED BY <1>4, <2>1 DEF Parked
<1>7. /\ InHand(a, cb, Null, k.pending, k.queue) /\ ReplyFits(a, Null, k.pending)
      /\ Uploaded(a, cb, Null, k, disk, spoilt') /\ ~Started(a, Null)
  BY <1>6, ParkedFits
<1>8. Connection("open", a, cb, Null)
  <2>1. Closing(a, cb, Null)
    BY <1>2, NullIsNone DEF Closing
  <2> QED BY <1>1, <1>4, <2>1, <1>2, NullIsNone DEF Connection
<1>9. Sources(a, open)
  BY <1>1, <1>4 DEF Sources
<1>10. said.ran + One(a.idle) + One(Started(a, Null)) =< said.told
  <2>1. One(a.idle) = 0 /\ One(Started(a, Null)) = 0
    BY <1>4, <1>7 DEF One
  <2> QED BY <1>1, <2>1, ClientIs
<1>11. OneRequest(Stream(a, cb, k.queue), k.pending, Held(k.holds))
  <2>1. k.queue \in Seq(Tokens)
    BY DEF ClientSet
  <2>2. Stream(a, cb, k.queue) = k.queue
    <3>1. Unread(a, cb) = <<>>
      BY <1>2, NothingIdle
    <3>2. <<>> \o <<>> = <<>> /\ <<>> \o k.queue = k.queue
      BY <2>1
    <3> QED BY <1>4, <3>1, <3>2 DEF Stream
  <2> QED BY <1>1, <2>2
<1>12. k.holds => k.pending \in {"none", "putexpect"}
  BY ClientIs
<1>13. "idle" \notin cb.flags
  BY <1>2, NullIsNone
<1> QED BY <1>1, <1>3, <1>4, <1>5, <1>7, <1>8, <1>9, <1>10, <1>11, <1>12, <1>13 DEF HttpInv

LEMMA IdleFlagIs == IdleFlag \subseteq {"idle"} /\ (st # Null /\ IdleFlag # {} => st.idle)
BY DEF IdleFlag

LEMMA AcceptKeeps == ASSUME HttpInv, NEW k \in 0..Len(client.queue), Accept(k) PROVE HttpInv'
<1>1. /\ conn = "syn" /\ cb = Idle /\ conn' = "open" /\ UNCHANGED <<out, disk, open, said>>
      /\ client' = [client EXCEPT !.queue = SubSeq(@, k + 1, Len(@))]
  BY DEF Accept
<1>2. /\ client \in ClientSet /\ client.queue \in Seq(Tokens) /\ Held(client.holds) \in Nat
      /\ (client.holds => client.pending \in {"none", "putexpect"})
  BY ClientIs
<1>3. PICK q : q = SubSeq(client.queue, k + 1, Len(client.queue))
  OBVIOUS
<1>4. PICK d : d = SubSeq(client.queue, 1, k)
  OBVIOUS
<1>5. /\ q \in Seq(Tokens) /\ d \in Seq(Tokens)
      /\ \A p : \A h \in Nat : OneRequest(client.queue, p, h) => OneRequest(q, p, h)
  BY <1>3, <1>4, SegmentSent
<1>6. PICK n : n = Fewer(client, q)
  OBVIOUS
<1>7. client' = n
  BY <1>1, <1>2, <1>3, <1>6 DEF Fewer, ClientSet
<1>8. n \in ClientSet /\ n.pending = client.pending /\ n.queue = q /\ n.holds = client.holds
  BY <1>2, <1>5, <1>6, FewerIs
<1>9. CASE st = Null
  <2>1. st' = Alloc /\ UNCHANGED cb
    BY <1>9 DEF Accept
  <2>2. OneRequest(client.queue, client.pending, Held(client.holds))
            => OneRequest(n.queue, client.pending, Held(client.holds))
    BY <1>2, <1>5, <1>8
  <2> QED BY <1>1, <1>7, <1>8, <1>9, <2>1, <2>2, Accepted
<1>10. CASE st # Null
  <2>1. PICK f \in SUBSET Flags : f = IdleFlag \cup (IF k > 0 THEN {"newdata"} ELSE {})
    <3>1. IdleFlag \cup (IF k > 0 THEN {"newdata"} ELSE {}) \subseteq Flags
      BY IdleFlagIs DEF Flags
    <3> QED BY <3>1
  <2>2. PICK c : c = Called(f, d)
    OBVIOUS
  <2>3. c \in Callbacks /\ c.flags = f /\ c.data = d /\ c.live
    BY <1>5, <2>1, <2>2, CalledIs
  <2>4. cb' = c /\ UNCHANGED st
    BY <1>4, <1>10, <2>1, <2>2 DEF Accept, Called
  <2>5. /\ "close" \notin c.flags /\ ("idle" \in c.flags => st.idle)
        /\ ("newdata" \in c.flags <=> k > 0)
    BY <1>10, <2>1, <2>3, IdleFlagIs
  <2>6. /\ st \in States /\ Connection(conn, st, cb, out)
        /\ (~Overread(st, cb) =>
              OneRequest(Stream(st, cb, client.queue), client.pending, Held(client.holds)))
    BY <1>1, <1>10, StateIs
  <2>7. ~cb.live /\ Idle \in Callbacks /\ "newdata" \notin Idle.flags
    BY <1>1, NullIsNone
  <2>8. Parked(st, out) /\ st.ps # "READ"
    BY <1>1, <2>6, <2>7 DEF Connection
  <2>9. Stream(st, c, n.queue) = Stream(st, cb, client.queue)
    <3>1. Stream(st, c, SubSeq(client.queue, k + 1, Len(client.queue))) = Stream(st, Idle, client.queue)
      BY <1>2, <1>4, <2>3, <2>5, <2>6, <2>7, <2>8, SegmentComes
    <3> QED BY <1>1, <1>3, <1>8, <3>1
  <2>10. OneRequest(Stream(st, c, n.queue), n.pending, Held(n.holds))
    <3>1. ~Overread(st, cb)
      BY <1>1, <2>8, ParkedFits
    <3> QED BY <1>8, <2>6, <2>9, <3>1
  <2>11. PICK cn \in {"closed", "syn", "open", "fin"} : conn' = cn /\ cn = "open"
    BY <1>1
  <2>12. n.holds => n.pending \in {"none", "putexpect"}
    BY <1>2, <1>8
  <2> QED BY <1>1, <1>7, <1>8, <1>10, <2>3, <2>4, <2>5, <2>8, <2>10, <2>11, <2>12, ParkedOn
<1> QED BY <1>9, <1>10

LEMMA CloseFinKeeps == ASSUME HttpInv, CloseFin PROVE HttpInv'
<1>1. /\ conn = "fin" /\ cb = Idle /\ UNCHANGED <<conn, st, out, disk, open, said>>
      /\ cb' = [flags |-> IdleFlag \cup {"closed"}, data |-> <<>>, live |-> TRUE]
      /\ client' = [client EXCEPT !.queue = <<>>]
  BY DEF CloseFin
<1>2. PICK q \in Seq(Tokens) : q = <<>>
  <2>1. <<>> \in Seq(Tokens)
    OBVIOUS
  <2> QED BY <2>1
<1>3. PICK n : n = Fewer(client, q)
  OBVIOUS
<1>4. client' = n
  BY <1>1, <1>2, <1>3 DEF Fewer
<1>5. n \in ClientSet /\ (n.holds => n.pending \in {"none", "putexpect"})
  BY <1>3, ClientIs, FewerIs
<1>6. PICK f \in SUBSET Flags : f = IdleFlag \cup {"closed"}
  <2>1. IdleFlag \cup {"closed"} \subseteq Flags
    BY IdleFlagIs DEF Flags
  <2> QED BY <2>1
<1>7. PICK c : c = Called(f, q)
  OBVIOUS
<1>8. c \in Callbacks /\ c.flags = f /\ c.live
  BY <1>2, <1>6, <1>7, CalledIs
<1>9. cb' = c
  BY <1>1, <1>2, <1>6, <1>7 DEF Called
<1>10. st # Null
  BY <1>1 DEF HttpInv
<1>11. "close" \notin c.flags /\ ("idle" \in c.flags => st.idle) /\ "newdata" \notin c.flags
  BY <1>6, <1>8, <1>10, IdleFlagIs
<1>12. Connection(conn, st, cb, out) /\ ~cb.live
  BY <1>1, <1>10, StateIs, NullIsNone
<1>13. Parked(st, out) /\ st.ps # "READ"
  BY <1>1, <1>12 DEF Connection
<1>14. PICK cn \in {"closed", "syn", "open", "fin"} : conn' = cn /\ cn = "fin"
  BY <1>1
<1> QED BY <1>1, <1>4, <1>5, <1>8, <1>9, <1>10, <1>11, <1>13, <1>14, ParkedOn

\* A segment: k units of the client's queue, the acknowledgement, the FIN.
LEMMA DeliverKeeps ==
  ASSUME HttpInv, NEW k \in 0..Len(client.queue), NEW acks \in BOOLEAN, NEW fin \in BOOLEAN,
         Deliver(k, acks, fin)
  PROVE  HttpInv'
<1>1. /\ conn = "open" /\ cb = Idle /\ UNCHANGED <<conn, st, disk, open, said, spoilt>>
      /\ (acks => out # Null) /\ (out # Null => (acks => out.received) /\ (fin => acks))
      /\ client' = [client EXCEPT !.queue = SubSeq(@, k + 1, Len(@))]
      /\ out' = IF acks THEN Null ELSE out
  BY DEF Deliver
<1>2. /\ client \in ClientSet /\ client.queue \in Seq(Tokens) /\ Held(client.holds) \in Nat
      /\ (client.holds => client.pending \in {"none", "putexpect"})
      /\ (out = Null \/ out \in Replies)
  BY ClientIs
<1>3. PICK q : q = SubSeq(client.queue, k + 1, Len(client.queue))
  OBVIOUS
<1>4. PICK d : d = SubSeq(client.queue, 1, k)
  OBVIOUS
<1>5. q \in Seq(Tokens) /\ d \in Seq(Tokens)
  BY <1>3, <1>4, SegmentSent
<1>6. PICK n : n = Fewer(client, q)
  OBVIOUS
<1>7. client' = n
  BY <1>1, <1>2, <1>3, <1>6 DEF Fewer, ClientSet
<1>8. n \in ClientSet /\ n.pending = client.pending /\ n.queue = q /\ n.holds = client.holds
  BY <1>2, <1>5, <1>6, FewerIs
<1>9. st # Null
  BY <1>1 DEF HttpInv
<1>10. PICK f \in SUBSET Flags : f = IdleFlag \cup (IF k > 0 THEN {"newdata"} ELSE {})
                                       \cup (IF acks THEN {"acked"} ELSE {})
                                       \cup (IF fin THEN {"closed"} ELSE {})
  <2>1. IdleFlag \cup (IF k > 0 THEN {"newdata"} ELSE {}) \cup (IF acks THEN {"acked"} ELSE {})
                 \cup (IF fin THEN {"closed"} ELSE {}) \subseteq Flags
    BY IdleFlagIs DEF Flags
  <2> QED BY <2>1
<1>11. PICK c : c = Called(f, d)
  OBVIOUS
<1>12. c \in Callbacks /\ c.flags = f /\ c.data = d /\ c.live
  BY <1>5, <1>10, <1>11, CalledIs
<1>13. cb' = c
  BY <1>4, <1>10, <1>11 DEF Deliver, Called
<1>14. /\ "close" \notin c.flags /\ ("idle" \in c.flags => st.idle)
       /\ ("newdata" \in c.flags <=> k > 0) /\ ("acked" \in c.flags <=> acks)
       /\ ("closed" \in c.flags <=> fin)
  <2>1. /\ "close" \notin IdleFlag /\ "newdata" \notin IdleFlag /\ "acked" \notin IdleFlag
        /\ "closed" \notin IdleFlag /\ ("idle" \in IdleFlag => st.idle)
    BY <1>9, IdleFlagIs
  <2> QED BY <1>10, <1>12, <2>1
<1>15. /\ st \in States /\ Connection(conn, st, cb, out) /\ Sources(st, open)
       /\ InHand(st, cb, out, client.pending, client.queue)
       /\ ReplyFits(st, out, client.pending)
       /\ Uploaded(st, cb, out, client, disk, spoilt)
       /\ said.ran + One(st.idle) + One(Started(st, out)) =< said.told
       /\ (conn \in {"syn", "open"} /\ ~Overread(st, cb) =>
              OneRequest(Stream(st, cb, client.queue), client.pending, Held(client.holds)))
  BY <1>9, StateIs
<1>16. ~cb.live /\ Idle \in Callbacks /\ Idle.flags = {} /\ cb.flags = {}
  BY <1>1, NullIsNone
<1>17. /\ st.pc \in {"top", "header", "receive", "sending"} /\ st.ps # "READ"
       /\ (out # Null <=> st.pc = "sending")
       /\ (st.pc = "sending" => st.then \in {"dispatch", "answered", "runs"})
  BY <1>15, <1>16 DEF Connection
<1>18. PICK o : out' = o /\ o = (IF acks THEN Null ELSE out)
  BY <1>1
<1>19. /\ (Acknowledged(o) <=> Acknowledged(out)) /\ (o # Null => o = out /\ ~acks)
       /\ (o = Null \/ o \in Replies) /\ (acks <=> st.pc = "sending" /\ o = Null)
       /\ (fin => o = Null) /\ (o # Null => st.pc = "sending")
  BY <1>1, <1>2, <1>17, <1>18 DEF Acknowledged
<1>20. ~Overread(st, cb) /\ ~Overread(st, c)
  BY <1>17 DEF Overread
<1>21. Stream(st, c, n.queue) = Stream(st, cb, client.queue)
  <2>1. "newdata" \notin Idle.flags
    BY <1>16
  <2>2. Stream(st, c, SubSeq(client.queue, k + 1, Len(client.queue))) = Stream(st, Idle, client.queue)
    BY <1>2, <1>4, <1>12, <1>14, <1>15, <1>16, <1>17, <2>1, SegmentComes
  <2> QED BY <1>1, <1>3, <1>8, <2>2
<1>22. Connection("open", st, c, o)
  <2>1. Closing(st, c, o)
    BY <1>14 DEF Closing
  <2> QED BY <1>12, <1>14, <1>17, <1>19, <2>1 DEF Connection
<1>23. InHand(st, c, o, n.pending, n.queue)
  <2>1. Serving(st, o) <=> Serving(st, out)
    BY <1>19 DEF Serving
  <2> QED BY <1>8, <1>15, <1>20, <1>21, <2>1 DEF InHand
<1>24. ReplyFits(st, o, n.pending)
  BY <1>8, <1>15, <1>19 DEF ReplyFits
<1>25. Uploaded(st, c, o, n, disk, spoilt)
  <2>1. ~Acknowledged(o) => o = out
    BY <1>19 DEF Acknowledged
  <2>2. st.pc \notin {"write", "result"}
    BY <1>17
  <2> QED BY <1>8, <1>15, <1>19, <1>21, <2>1, <2>2 DEF Uploaded
<1>26. Started(st, o) <=> Started(st, out)
  BY <1>19 DEF Started
<1>27. said.ran + One(st.idle) + One(Started(st, o)) =< said.told
  <2>1. One(Started(st, o)) = One(Started(st, out))
    BY <1>26 DEF One
  <2> QED BY <1>15, <2>1
<1>28. OneRequest(Stream(st, c, n.queue), n.pending, Held(n.holds))
  BY <1>1, <1>8, <1>15, <1>20, <1>21
<1>29. Typed'
  BY <1>1, <1>7, <1>8, <1>12, <1>13, <1>18, <1>19 DEF HttpInv, Typed
<1>30. n.holds => n.pending \in {"none", "putexpect"}
  BY <1>2, <1>8
<1> QED BY <1>1, <1>7, <1>9, <1>13, <1>14, <1>15, <1>18, <1>22, <1>23, <1>24, <1>25, <1>27, <1>28,
           <1>29, <1>30 DEF HttpInv

\* A reset, or no answer for too long: what is open is closed.
LEMMA BrokenKeeps == ASSUME HttpInv, Broken PROVE HttpInv'
<1>1. /\ cb = Idle /\ conn' = "closed" /\ out' = Null /\ st' = Null /\ UNCHANGED <<cb, disk, spoilt>>
      /\ client' = [client EXCEPT !.queue = <<>>, !.holds = FALSE]
  BY DEF Broken
<1>2. /\ client \in ClientSet /\ said \in [told : Nat, ran : Nat] /\ said.ran \in Nat
      /\ client.pending \in Requests \cup {"none"} /\ said.told \in Nat
  BY ClientIs
<1>3. PICK q \in Seq(Tokens) : q = <<>>
  <2>1. <<>> \in Seq(Tokens)
    OBVIOUS
  <2> QED BY <2>1
<1>4. PICK h \in BOOLEAN : h = FALSE
  OBVIOUS
<1>5. PICK p \in Requests \cup {"none"} : p = client.pending
  BY <1>2
<1>6. PICK n : n = Asking(client, p, q, h)
  OBVIOUS
<1>7. client' = n
  BY <1>1, <1>2, <1>3, <1>4, <1>5, <1>6 DEF Asking, ClientSet
<1>8. n \in ClientSet /\ ~n.holds
  <2>1. client \in ClientSet /\ p \in Requests \cup {"none"} /\ q \in Seq(Tokens) /\ h \in BOOLEAN
    BY <1>2, <1>3, <1>4, <1>5
  <2>2. n \in ClientSet /\ n.holds = h
    BY <1>6, <2>1, AskingIs
  <2> QED BY <1>4, <2>2
<1>9. open' \in [fd : Int, src : Int] /\ open'.fd = 0 /\ open'.src = 0
      /\ said' \in [told : Nat, ran : Nat] /\ said'.ran =< said'.told
  <2>1. CASE st = Null
    BY <2>1 DEF Broken, HttpInv, Typed
  <2>2. CASE st # Null
    <3>1. Release(st.idle)
      BY <2>2 DEF Broken
    <3>2. st \in States /\ Sources(st, open)
          /\ said.ran + One(st.idle) + One(Started(st, out)) =< said.told
      BY <2>2, StateIs
    <3>3. st.src \in Int /\ st.idle \in BOOLEAN
      BY <3>2 DEF States
    <3>4. open' = [fd |-> 0, src |-> 0]
      <4>1. open.fd = (IF st.fd THEN 1 ELSE 0) /\ open.src = (IF st.src >= 0 THEN 1 ELSE 0)
        BY <3>2 DEF Sources
      <4> QED BY <3>1, <3>3, <4>1 DEF Release
    <3>5. PICK r \in Nat : r = said.ran + One(st.idle)
      BY <1>2 DEF One
    <3>6. said' = [said EXCEPT !.ran = r]
      <4>1. CASE st.idle
        BY <1>2, <3>1, <3>5, <4>1 DEF Release, IdleRun, One
      <4>2. CASE ~st.idle
        BY <1>2, <3>1, <3>5, <4>2 DEF Release, IdleRun, One
      <4> QED BY <4>1, <4>2
    <3>7. r =< said.told
      <4>1. One(Started(st, out)) \in Nat /\ said.ran + One(st.idle) \in Nat
        BY <3>5 DEF One
      <4> QED BY <1>2, <3>2, <3>5, <4>1
    <3>8. said' \in [told : Nat, ran : Nat] /\ said'.ran = r /\ said'.told = said.told
      BY <1>2, <3>6
    <3> QED BY <3>4, <3>7, <3>8
  <2> QED BY <2>1, <2>2
<1>10. Typed'
  BY <1>1, <1>7, <1>8, <1>9 DEF HttpInv, Typed
<1>11. ~cb'.live
  BY <1>1, NullIsNone
<1> QED BY <1>1, <1>7, <1>8, <1>9, <1>10, <1>11 DEF HttpInv

-----------------------------------------------------------------------------
(* The invariant, and what follows from it.                                 *)

LEMMA HttpInit == ASSUME Init PROVE HttpInv
<1>1. client = Newcomer /\ st = Null /\ cb = Idle /\ out = Null /\ conn = "closed"
      /\ disk = <<>> /\ open = [fd |-> 0, src |-> 0] /\ said = [told |-> 0, ran |-> 0]
  BY DEF Init, Newcomer
<1>2. <<>> \in Seq(Tokens)
  OBVIOUS
<1>3. client \in ClientSet /\ ~client.holds
  BY <1>1, NewcomerIs
<1>4. /\ open \in [fd : Int, src : Int] /\ said \in [told : Nat, ran : Nat]
      /\ open.fd = 0 /\ open.src = 0 /\ said.ran =< said.told
  BY <1>1
<1>5. cb \in Callbacks /\ ~cb.live
  BY <1>1, NullIsNone
<1>6. Typed
  BY <1>1, <1>2, <1>3, <1>4, <1>5 DEF Typed
<1> QED BY <1>1, <1>3, <1>4, <1>5, <1>6 DEF HttpInv

LEMMA ThreadKeeps == ASSUME HttpInv, Thread PROVE HttpInv'
BY SentKeeps, NotYetKeeps, TopKeeps, ReadMoreKeeps, ReadLineKeeps, ContinueKeeps, PostKeeps,
   ReadBodyKeeps, WriteKeeps, ReceivedKeeps, GetKeeps, DeleteKeeps, RunKeeps, RunsKeeps,
   AnswerKeeps, Next200Keeps, CloseExitKeeps, ExitKeeps DEF Thread

LEMMA HttpStep == ASSUME HttpInv, [Next]_vars PROVE HttpInv'
<1>1. ASSUME NEW r \in Requests, Ask(r) PROVE HttpInv'
  BY <1>1, AskKeeps
<1>2. CASE SendBody \/ Receive \/ HangUp \/ SeeClosed
  BY <1>2, SendBodyKeeps, ReceiveKeeps, HangUpKeeps, SeeClosedKeeps
<1>3. CASE Thread
  BY <1>3, ThreadKeeps
<1>4. CASE Connect \/ CloseFin \/ Broken \/ Forgotten
  BY <1>4, ConnectKeeps, CloseFinKeeps, BrokenKeeps, ForgottenKeeps
<1>5. CASE Accepts
  BY <1>5, AcceptKeeps DEF Accepts
<1>6. CASE Delivers
  BY <1>6, DeliverKeeps DEF Delivers
<1>7. CASE UNCHANGED vars
  BY <1>7 DEF HttpInv, Typed, vars, bounds
<1> QED BY <1>1, <1>2, <1>3, <1>4, <1>5, <1>6, <1>7 DEF Next

\* The inductive invariant of the server and its client.
THEOREM HttpInvariant == Spec => []HttpInv
<1>1. Init => HttpInv
  BY HttpInit
<1>2. HttpInv /\ [Next]_vars => HttpInv'
  BY HttpStep
<1> QED BY <1>1, <1>2, PTL DEF Spec

\* httpd_state keeps its ranges: what is left of an upload never goes below zero,
\* inputbuf holds what it can, and an answer is one of http_responses[].
THEOREM HttpTypeOK == Spec => []TypeOK
<1>1. ASSUME HttpInv PROVE TypeOK
  <2>1. /\ client.queue \in Seq(Tokens) /\ client.pending \in Requests \cup {"none"}
        /\ cb \in Callbacks /\ (out = Null \/ out \in Replies)
        /\ conn \in {"closed", "syn", "open", "fin"}
    BY <1>1, ClientIs DEF HttpInv, Typed
  <2>2. cb.flags \subseteq {"newdata", "acked", "closed", "close", "idle"} /\ cb.data \in Seq(Tokens)
    BY <2>1 DEF Callbacks, Flags
  <2>3. cb.live => st # Null
    BY <1>1 DEF HttpInv
  <2>4. out # Null => out.code \in Codes /\ conn = "open"
    <3>1. ASSUME out # Null PROVE conn = "open"
      <4>1. st # Null
        BY <1>1, <3>1 DEF HttpInv
      <4>2. Connection(conn, st, cb, out)
        BY <1>1, <4>1, StateIs
      <4> QED BY <3>1, <4>2 DEF Connection, Parked
    <3> QED BY <2>1, <3>1 DEF Replies
  <2>5. ASSUME st # Null
        PROVE  /\ st.left \in 0..BodyLen /\ st.len \in {-1, BodyLen}
               /\ Len(st.buf) <= BufSize /\ st.rd \in Seq(Tokens)
               /\ st.handler \in {"none", "post", "get", "delete", "run"}
               /\ st.code \in Responses \cup {0, 401}
               /\ st.str \in Responses \cup {0}
    <3>1. st \in States /\ Len(st.buf) <= BufSize
      BY <1>1, <2>5, StateIs
    <3>2. /\ st.left \in Lefts /\ st.len \in Lengths /\ st.rd \in Texts /\ st.handler \in Handlers
          /\ st.code \in Results /\ st.str \in Strings
      BY <3>1 DEF States
    <3> QED BY <3>1, <3>2 DEF Lefts, Lengths, Texts, Handlers, Results, Strings
  <2> QED BY <2>1, <2>2, <2>3, <2>4, <2>5 DEF TypeOK
<1> QED BY <1>1, HttpInvariant, PTL

\* Every file handle and data source that httpd.c opens is in the state, where
\* httpd_free_state() finds it, whatever interrupts the reply or the upload.
THEOREM NothingLeftOpenHolds == Spec => []NothingLeftOpen
<1>1. ASSUME HttpInv PROVE NothingLeftOpen
  <2>1. open \in [fd : Int, src : Int]
    BY <1>1 DEF HttpInv, Typed
  <2>2. CASE st = Null
    <3>1. open.fd = 0 /\ open.src = 0
      BY <1>1, <2>2 DEF HttpInv
    <3> QED BY <2>1, <2>2, <3>1 DEF NothingLeftOpen
  <2>3. CASE st # Null
    <3>1. Sources(st, open)
      BY <1>1, <2>3, StateIs
    <3> QED BY <2>1, <2>3, <3>1 DEF NothingLeftOpen, Sources
  <2> QED BY <2>2, <2>3
<1> QED BY <1>1, HttpInvariant, PTL

\* handle_idle_run() runs a program only for a client that handle_run() told of it.
THEOREM RunOnceHolds == Spec => []RunOnce
<1>1. ASSUME HttpInv PROVE RunOnce
  <2>1. CASE st = Null
    BY <1>1, <2>1 DEF HttpInv, RunOnce
  <2>2. CASE st # Null
    <3>1. said.ran + One(st.idle) + One(Started(st, out)) =< said.told
      BY <1>1, <2>2, StateIs
    <3>2. said.ran \in Nat /\ said.told \in Nat
      BY <1>1, ClientIs
    <3> QED BY <3>1, <3>2 DEF RunOnce, One
  <2> QED BY <2>1, <2>2
<1> QED BY <1>1, HttpInvariant, PTL

\* What PSOCK_SEND_STR() sends is for the request that the client waits for.
THEOREM RepliesInTurnHolds == Spec => []RepliesInTurn
<1>1. ASSUME HttpInv PROVE RepliesInTurn
  <2>1. CASE out = Null
    BY <2>1 DEF RepliesInTurn
  <2>2. CASE out # Null
    <3>1. st # Null
      BY <1>1, <2>2 DEF HttpInv
    <3>2. ReplyFits(st, out, client.pending)
      BY <1>1, <3>1, StateIs
    <3> QED BY <2>2, <3>2 DEF RepliesInTurn, ReplyFits
  <2> QED BY <2>1, <2>2
<1> QED BY <1>1, HttpInvariant, PTL

\* receive_file() has stored the whole body when the client is sent "201 Created":
\* for a body of any length, cut into segments anywhere, through a buffer of any size.
THEOREM CreatedIsStoredHolds == Spec => []CreatedIsStored
<1>1. ASSUME HttpInv PROVE CreatedIsStored
  <2>1. CASE out = Null
    BY <2>1 DEF CreatedIsStored
  <2>2. CASE out # Null
    <3>1. st # Null
      BY <1>1, <2>2 DEF HttpInv
    <3>2. Uploaded(st, cb, out, client, disk, spoilt)
      BY <1>1, <3>1, StateIs
    <3> QED BY <2>2, <3>2 DEF CreatedIsStored, Uploaded, Acknowledged
  <2> QED BY <2>1, <2>2
<1> QED BY <1>1, HttpInvariant, PTL
=============================================================================
