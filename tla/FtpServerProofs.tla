--------------------------- MODULE FtpServerProofs ---------------------------
(***************************************************************************)
(* Of the FTP server, for any number of clients, slots, ports, blocks and  *)
(* commands and any sizes: type correctness.  For one client, whose data   *)
(* connections may be lost at any point: no handler uses a data state that *)
(* is not there unless one was lost.  When the client also waits for the   *)
(* handshake of its data connection before it gives the command: 226 is    *)
(* told only of a transfer that went to its end, and a transfer is replied *)
(* to only when its connection is over.  With two clients the sweep that   *)
(* one starts frees states the other still reads, and with overlapping     *)
(* connections the end of one ends the transfer of the next.               *)
(***************************************************************************)
EXTENDS FtpServer, FiniteSetTheorems, WellFoundedInduction, TLAPS

-----------------------------------------------------------------------------
(* The inductive invariant, said of a world, because a callback goes from   *)
(* world to world.                                                          *)

BlockSet ==
  [st : {"CLOSED", "SYN_RCVD", "SYN_SENT", "ESTABLISHED", "LAST_ACK", "FIN_WAIT", "TIME_WAIT"},
   port : Ports, out : BOOLEAN, who : Clients \union {Nobody}]

CtlSet ==
  [pc : Sending \union {"none", "read", "closing", "pasv", "connList", "connRetr", "busy", "disc"},
   port : Ports, code : {0, 200, 226, 452}, ready : BOOLEAN, moved : {"no", "all", "short", "cut"},
   left : 0..Commands]

Worlds ==
  [st : [Slots -> StateSet \union {Null}], ls : [Entries -> Ports], cn : [Blocks -> BlockSet],
   ctl : [Clients -> CtlSet], bad : BOOLEAN]

\* lastport counts no further than the commands and sessions that were used up.
Used(ctls) == {p \in Clients \X (1..Commands) : ctls[p[1]].left < p[2]}
CountInv(w, last) == last \in Nat /\ last =< Cardinality(Used(w.ctl))

\* From the reply to PASV or PORT on to the end of the transfer the server and the
\* client agree on a data port.
Transfer == {"connList", "connRetr", "sent150", "sent125", "sentStor", "busy", "disc"}
Agreed(l) == l.ready \/ l.pc = "sent227" \/ l.pc \in Transfer

Live(k) == k.st \notin {"CLOSED", "TIME_WAIT"}
Opening(k) == k.st \in {"SYN_RCVD", "SYN_SENT"}

\* No two states have the same port: a passive one is its slot's, an active one new.
PortsInv(w, last) ==
  /\ \A i \in Slots : w.st[i] # Null =>
       w.st[i].port = FTPD_BASE_DATA_PORT + i \/ w.st[i].port =< last
  /\ \A i, j \in Slots :
       w.st[i] # Null /\ w.st[j] # Null /\ w.st[i].port = w.st[j].port => i = j

\* Only blocks that are closed are nobody's.
WhoInv(w) == \A b \in Blocks : w.cn[b].who = Nobody => w.cn[b].st = "CLOSED"

\* While a port is agreed all connections of the client are to that port, and its
\* state is there; l is the control connection.
AgreedInv(w, l, lo) ==
  /\ l.ready => l.pc \in {"read", "result"}
  /\ l.pc \in {"pasv", "sent227"} => \A b \in Blocks : ~Live(w.cn[b])
  /\ Agreed(l) =>
       /\ \A b \in Blocks : Live(w.cn[b]) => w.cn[b].port = l.port
       /\ lo \/ Has(w, l.port)

\* A state serves the transfer of its owner.
Requests == {"List", "Retr", "Stor"}
Uses(s) == s.req \in Requests \/ s.at \in {"send", "store"}
OwnerInv(w, l) == \A i \in Slots : w.st[i] # Null =>
  /\ Uses(w.st[i]) \/ w.st[i].busy => w.st[i].owner \in Clients
  /\ w.st[i].busy => l.pc \in Transfer /\ w.st[i].port = l.port

\* Whether a transfer has not been asked for yet.
Unasked(l) == l.ready \/ l.pc \in {"sent227", "sent150", "connList"}

\* Until then the state waits, unless its connection has closed.
Fresh(s) ==
  /\ s.req \in {"Wait", "Quit"} /\ (s.closed <=> s.req = "Quit")
  /\ s.req = "Wait" => s.at = "wait"

\* The state of the agreed port is that of the connection.
StateInv(w, l) == \A i \in Slots :
  Agreed(l) /\ w.st[i] # Null /\ w.st[i].port = l.port =>
    /\ Unasked(l) => Fresh(w.st[i])
    /\ \A b \in Blocks :
         /\ w.cn[b].st = "ESTABLISHED" => w.st[i].connected /\ ~w.st[i].closed
         /\ w.cn[b].st \in {"LAST_ACK", "FIN_WAIT"} => w.st[i].closed

\* A client has one data connection at a time, and the server dials its own ports only.
Coming(k) == Opening(k) \/ k.st = "ESTABLISHED"
SoleInv(w, l) ==
  /\ Agreed(l) => \A b, d \in Blocks : Coming(w.cn[b]) /\ Coming(w.cn[d]) => b = d
  /\ \A b \in Blocks : w.cn[b].st = "SYN_SENT" => w.cn[b].port < FTPD_BASE_DATA_PORT

InOrder(w, l, last, lo) ==
  /\ PortsInv(w, last) /\ WhoInv(w) /\ AgreedInv(w, l, lo)
  /\ OwnerInv(w, l) /\ StateInv(w, l) /\ SoleInv(w, l)

FtpInv(w, last, lo) ==
  IF w.bad THEN lo ELSE \A c \in Clients : InOrder(w, w.ctl[c], last, lo)

\* The transfer is complete, has failed, or the client has closed its connection.
Settled(s, l) == s.code = 452 \/ l.moved \in {"all", "short", "cut"}

ResultInv(l) == l.pc = "result" /\ l.code = 226 => l.moved \in {"all", "short", "cut"}

\* During a transfer: no connection is still to come, and a state that no longer
\* counts as connected has its outcome.
TransferInv(w, l) == l.pc \in Transfer =>
  /\ \A b \in Blocks : ~Opening(w.cn[b])
  /\ \A i \in Slots : w.st[i] # Null /\ w.st[i].port = l.port =>
       /\ w.st[i].closed => ~w.st[i].connected
       /\ w.st[i].req = "Quit" => w.st[i].closed
       /\ ~w.st[i].connected \/ w.st[i].at = "yield" => Settled(w.st[i], l)

\* While a client's transfer goes on with a null pointer used its state is not there.
HonestAt(w, l) ==
  /\ ResultInv(l)
  /\ IF w.bad THEN l.pc \in Transfer => ~Has(w, l.port) ELSE TransferInv(w, l)

HonestInv(w) == \A c \in Clients : HonestAt(w, w.ctl[c])
-----------------------------------------------------------------------------
(* Least elements, and the records.                                         *)

LEMMA LeastOf ==
  ASSUME NEW S \in SUBSET Nat, IsFiniteSet(S), S # {}
  PROVE  Min(S) \in S /\ \A y \in S : Min(S) =< y
<1> DEFINE Below(x) == {y \in S : y =< x}
           T == {Below(x) : x \in S}
<1>1. T \subseteq SUBSET S /\ T # {}
  OBVIOUS
<1>2. \E u \in T : \A v \in T : ~(<<v, u>> \in StrictSubsetOrdering(S))
  <2> HIDE DEF T
  <2>1. IsWellFoundedOn(StrictSubsetOrdering(S), SUBSET S)
    BY FS_StrictSubsetOrderingWellFounded, FS_FiniteSubsetsOfFinite
  <2> QED BY <1>1, <2>1, WFMin
<1>3. PICK x \in S : \A v \in T : ~(<<v, Below(x)>> \in StrictSubsetOrdering(S))
  BY <1>2
<1>4. ASSUME NEW y \in S PROVE x =< y
  <2> SUFFICES ASSUME ~(x =< y) PROVE FALSE
    OBVIOUS
  <2>0. x \in Nat /\ y \in Nat /\ y < x
    OBVIOUS
  <2>a. Below(y) \in T
    OBVIOUS
  <2>b. \A z \in S : z \in Nat /\ (z =< y => z =< x)
    BY <2>0
  <2>c. Below(y) \subseteq Below(x) /\ x \in Below(x) /\ x \notin Below(y)
    <3> HIDE DEF T
    <3>1. x =< x
      BY <2>0
    <3> QED BY <2>0, <2>b, <3>1
  <2>1. Below(y) \in T /\ Below(y) \subseteq Below(x) /\ x \in Below(x) /\ x \notin Below(y)
    BY <2>a, <2>c
  <2>2. <<Below(y), Below(x)>> \in StrictSubsetOrdering(S)
    <3> HIDE DEF T
    <3> QED BY <2>1 DEF StrictSubsetOrdering
  <2> QED BY <1>3, <2>1, <2>2
<1> HIDE DEF T, Below
<1> QED BY <1>4 DEF Min

LEMMA SlotsAreNumbers ==
  /\ Slots \subseteq Nat /\ Entries \subseteq Nat /\ Blocks \subseteq Nat
  /\ IsFiniteSet(Slots) /\ IsFiniteSet(Entries) /\ IsFiniteSet(Blocks)
  /\ Ports \subseteq Nat /\ 0 \in Ports /\ FTPD_BASE_DATA_PORT \in Nat
  /\ \A i \in Slots : FTPD_BASE_DATA_PORT + i \in Ports \ {0}
<1>1. /\ FTPD_MAX_DATA_CONNECTIONS \in Nat \ {0} /\ UIP_CONNS \in Nat \ {0}
      /\ UIP_LISTENPORTS \in Nat \ {0} /\ FTPD_BASE_DATA_PORT \in Nat
  BY SizesAssumption
<1>2. IsFiniteSet(Slots) /\ IsFiniteSet(Entries) /\ IsFiniteSet(Blocks)
  BY <1>1, FS_Interval DEF Slots, Entries, Blocks
<1>3. FTPD_BASE_DATA_PORT > 0
  <2>1. Commands \in Nat /\ Cardinality(Clients) \in Nat
    BY SizesAssumption, FS_CardinalityType
  <2>2. Commands * Cardinality(Clients) >= 0
    BY <2>1
  <2>3. FTPD_BASE_DATA_PORT > Commands * Cardinality(Clients)
    BY SizesAssumption
  <2> QED BY <2>1, <2>2, <2>3, <1>1
<1> QED BY <1>1, <1>2, <1>3 DEF Slots, Entries, Blocks, Ports

LEMMA NullIsNone == Null \notin StateSet
BY DEF Null, StateSet

StatePorts == Ports \ {0}
StateReqs == {"Wait", "List", "Stor", "Retr", "Quit"}
Places == {"wait", "send", "store", "yield"}
Owners == Clients \union {Nobody}
Codes == {226, 452}
Fills == 0..(INPUTBUF_SIZE - 1)

LEMMA StateSetIs ==
  StateSet = [port : StatePorts, req : StateReqs, busy : BOOLEAN, closed : BOOLEAN,
              connected : BOOLEAN, code : Codes, at : Places, fill : Fills, owner : Owners]
BY DEF StateSet, StatePorts, StateReqs, Places, Owners, Codes, Fills

LEMMA StateFields ==
  ASSUME NEW s \in StateSet
  PROVE  /\ s # Null
         /\ s.port \in StatePorts /\ s.port # 0 /\ s.port \in Nat
         /\ s.req \in StateReqs
         /\ s.busy \in BOOLEAN /\ s.closed \in BOOLEAN /\ s.connected \in BOOLEAN
         /\ s.code \in Codes /\ s.at \in Places /\ s.fill \in Fills /\ s.owner \in Owners
<1>1. s.port \in StatePorts
  BY StateSetIs
<1>2. s.port # 0 /\ s.port \in Nat
  BY <1>1, SlotsAreNumbers DEF StatePorts
<1> QED BY <1>1, <1>2, NullIsNone, StateSetIs

LEMMA NewStateFields ==
  ASSUME NEW p \in StatePorts
  PROVE  /\ NewState(p) \in StateSet
         /\ NewState(p).port = p /\ NewState(p).req = "Wait" /\ NewState(p).busy = FALSE
         /\ NewState(p).closed = FALSE /\ NewState(p).connected = FALSE
         /\ NewState(p).code = 226 /\ NewState(p).at = "wait" /\ NewState(p).owner = Nobody
<1>1. /\ NewState(p).port = p /\ NewState(p).req = "Wait" /\ NewState(p).busy = FALSE
      /\ NewState(p).closed = FALSE /\ NewState(p).connected = FALSE
      /\ NewState(p).code = 226 /\ NewState(p).at = "wait" /\ NewState(p).owner = Nobody
  BY DEF NewState
<1>2. "Wait" \in StateReqs /\ 226 \in Codes /\ "wait" \in Places /\ Nobody \in Owners
  BY DEF StateReqs, Codes, Places, Owners
<1>a. 0 \in Fills
  BY SizesAssumption DEF Fills
<1>3. PICK q \in StateReqs, k \in Codes, a \in Places, f \in Fills :
        q = "Wait" /\ k = 226 /\ a = "wait" /\ f = 0
  BY <1>2, <1>a
<1>4. NewState(p) = [port |-> p, req |-> q, busy |-> FALSE, closed |-> FALSE,
                     connected |-> FALSE, code |-> k, at |-> a, fill |-> f, owner |-> Nobody]
  BY <1>3 DEF NewState
<1> QED BY <1>1, <1>2, <1>4, StateSetIs

\* A state with another request.
Requested(s, req, c) == [s EXCEPT !.req = req, !.busy = TRUE, !.owner = c]

LEMMA RequestedFields ==
  ASSUME NEW s \in StateSet, NEW req \in Requests, NEW c \in Clients
  PROVE  /\ Requested(s, req, c) \in StateSet
         /\ Requested(s, req, c).port = s.port /\ Requested(s, req, c).req = req
         /\ Requested(s, req, c).busy = TRUE /\ Requested(s, req, c).owner = c
         /\ Requested(s, req, c).closed = s.closed
         /\ Requested(s, req, c).connected = s.connected
         /\ Requested(s, req, c).code = s.code /\ Requested(s, req, c).at = s.at
<1>1. req \in StateReqs /\ c \in Owners
  BY DEF Requests, StateReqs, Owners
<1> QED BY <1>1, StateSetIs DEF Requested

\* z is s with the request req of the client c.
AsksOf(z, s, req, c) ==
  /\ z \in StateSet /\ z.port = s.port /\ z.req = req /\ z.busy = TRUE /\ z.owner = c
  /\ z.closed = s.closed /\ z.connected = s.connected /\ z.code = s.code /\ z.at = s.at

LEMMA RequestedIs ==
  ASSUME NEW s \in StateSet, NEW req \in Requests, NEW c \in Clients
  PROVE  AsksOf(Requested(s, req, c), s, req, c)
<1>1. req \in StateReqs /\ c \in Owners
  BY DEF Requests, StateReqs, Owners
<1> QED BY <1>1, StateSetIs DEF Requested, AsksOf

LEMMA ClosedFields ==
  ASSUME NEW s \in StateSet
  PROVE  /\ Closed(s) \in StateSet
         /\ Closed(s).port = s.port /\ Closed(s).req = "Quit"
         /\ Closed(s).busy = FALSE /\ Closed(s).owner = s.owner
         /\ Closed(s).closed = TRUE /\ Closed(s).connected = FALSE
         /\ Closed(s).code = s.code /\ Closed(s).at = s.at /\ Closed(s).fill = s.fill
<1> PICK q \in StateReqs : q = "Quit"
  BY DEF StateReqs
<1> QED BY StateSetIs DEF Closed

\* z is s, closed.
ClosedOf(z, s) ==
  /\ z \in StateSet /\ z.port = s.port /\ z.req = "Quit" /\ z.busy = FALSE /\ z.owner = s.owner
  /\ z.closed = TRUE /\ z.connected = FALSE /\ z.code = s.code /\ z.at = s.at

LEMMA ClosedIs ==
  ASSUME NEW s \in StateSet
  PROVE  ClosedOf(Closed(s), s)
BY ClosedFields, Zenon DEF ClosedOf

\* A state whose protothread waits elsewhere, with another code and more or less
\* in its buffer.
Waits(s, at, code, fill) == [s EXCEPT !.code = code, !.at = at, !.fill = fill]

LEMMA WaitsFields ==
  ASSUME NEW s \in StateSet, NEW at \in Places, NEW code \in Codes, NEW fill \in Fills
  PROVE  LET z == Waits(s, at, code, fill)
         IN /\ z \in StateSet
            /\ z.port = s.port /\ z.req = s.req /\ z.busy = s.busy /\ z.owner = s.owner
            /\ z.closed = s.closed /\ z.connected = s.connected
            /\ z.code = code /\ z.at = at /\ z.fill = fill
BY StateSetIs DEF Waits

LEMMA WaitsAt ==
  ASSUME NEW s \in StateSet, NEW at \in Places
  PROVE  [s EXCEPT !.at = at] = Waits(s, at, s.code, s.fill)
BY StateSetIs DEF Waits

LEMMA WaitsWith ==
  ASSUME NEW s \in StateSet, NEW at \in Places, NEW code \in Codes
  PROVE  [s EXCEPT !.code = code, !.at = at] = Waits(s, at, code, s.fill)
BY StateSetIs DEF Waits

Came(s) == [s EXCEPT !.connected = TRUE]
LEMMA CameFields ==
  ASSUME NEW s \in StateSet
  PROVE  /\ Came(s) \in StateSet
         /\ Came(s).port = s.port /\ Came(s).req = s.req
         /\ Came(s).busy = s.busy /\ Came(s).owner = s.owner
         /\ Came(s).closed = s.closed /\ Came(s).connected = TRUE
         /\ Came(s).code = s.code /\ Came(s).at = s.at
BY StateSetIs DEF Came

-----------------------------------------------------------------------------
(* Control connections, blocks and worlds.                                  *)

Pcs == Sending \union {"none", "read", "closing", "pasv", "connList", "connRetr", "busy", "disc"}
Replies == {0, 200, 226, 452}
Moves == {"no", "all", "short", "cut"}
Phases == {"CLOSED", "SYN_RCVD", "SYN_SENT", "ESTABLISHED", "LAST_ACK", "FIN_WAIT", "TIME_WAIT"}

Control(pc, port, code, ready, moved, left) ==
  [pc |-> pc, port |-> port, code |-> code, ready |-> ready, moved |-> moved, left |-> left]

LEMMA CtlSetIs ==
  CtlSet = [pc : Pcs, port : Ports, code : Replies, ready : BOOLEAN, moved : Moves,
            left : 0..Commands]
BY DEF CtlSet, Pcs, Replies, Moves

LEMMA CtlFields ==
  ASSUME NEW l \in CtlSet
  PROVE  /\ l.pc \in Pcs /\ l.port \in Ports /\ l.port \in Nat /\ l.code \in Replies
         /\ l.ready \in BOOLEAN /\ l.moved \in Moves /\ l.left \in 0..Commands
         /\ l = Control(l.pc, l.port, l.code, l.ready, l.moved, l.left)
<1>1. /\ l.pc \in Pcs /\ l.port \in Ports /\ l.code \in Replies
      /\ l.ready \in BOOLEAN /\ l.moved \in Moves /\ l.left \in 0..Commands
      /\ l = Control(l.pc, l.port, l.code, l.ready, l.moved, l.left)
  BY CtlSetIs DEF Control
<1>2. l.port \in Nat
  BY <1>1, SlotsAreNumbers
<1> QED BY <1>1, <1>2

LEMMA ControlFields ==
  ASSUME NEW pc \in Pcs, NEW port \in Ports, NEW code \in Replies, NEW ready \in BOOLEAN,
         NEW moved \in Moves, NEW left \in 0..Commands
  PROVE  LET l == Control(pc, port, code, ready, moved, left)
         IN /\ l \in CtlSet
            /\ l.pc = pc /\ l.port = port /\ l.code = code /\ l.ready = ready
            /\ l.moved = moved /\ l.left = left
BY CtlSetIs DEF Control

\* The updates of a control connection in the model.
LEMMA ControlPuts ==
  ASSUME NEW l \in CtlSet, NEW x
  PROVE  /\ [l EXCEPT !.pc = x] = Control(x, l.port, l.code, l.ready, l.moved, l.left)
         /\ [l EXCEPT !.port = x] = Control(l.pc, x, l.code, l.ready, l.moved, l.left)
         /\ [l EXCEPT !.code = x] = Control(l.pc, l.port, x, l.ready, l.moved, l.left)
         /\ [l EXCEPT !.ready = x] = Control(l.pc, l.port, l.code, x, l.moved, l.left)
         /\ [l EXCEPT !.moved = x] = Control(l.pc, l.port, l.code, l.ready, x, l.left)
<1>0. l = Control(l.pc, l.port, l.code, l.ready, l.moved, l.left)
  BY CtlFields
<1>1. [l EXCEPT !.pc = x] = Control(x, l.port, l.code, l.ready, l.moved, l.left)
  BY <1>0 DEF Control
<1>2. [l EXCEPT !.port = x] = Control(l.pc, x, l.code, l.ready, l.moved, l.left)
  BY <1>0 DEF Control
<1>3. [l EXCEPT !.code = x] = Control(l.pc, l.port, x, l.ready, l.moved, l.left)
  BY <1>0 DEF Control
<1>4. [l EXCEPT !.ready = x] = Control(l.pc, l.port, l.code, x, l.moved, l.left)
  BY <1>0 DEF Control
<1>5. [l EXCEPT !.moved = x] = Control(l.pc, l.port, l.code, l.ready, x, l.left)
  BY <1>0 DEF Control
<1> QED BY <1>1, <1>2, <1>3, <1>4, <1>5

Block(st, port, out, who) == [st |-> st, port |-> port, out |-> out, who |-> who]

LEMMA BlockSetIs == BlockSet = [st : Phases, port : Ports, out : BOOLEAN, who : Owners]
BY DEF BlockSet, Phases, Owners

LEMMA BlockFields ==
  ASSUME NEW k \in BlockSet
  PROVE  /\ k.st \in Phases /\ k.port \in Ports /\ k.out \in BOOLEAN /\ k.who \in Owners
         /\ k = Block(k.st, k.port, k.out, k.who)
BY BlockSetIs DEF Block

LEMMA BlockIs ==
  ASSUME NEW st \in Phases, NEW port \in Ports, NEW out \in BOOLEAN, NEW who \in Owners
  PROVE  LET k == Block(st, port, out, who)
         IN k \in BlockSet /\ k.st = st /\ k.port = port /\ k.out = out /\ k.who = who
BY BlockSetIs DEF Block

StateTabs == [Slots -> StateSet \union {Null}]
ListenTabs == [Entries -> Ports]
BlockTabs == [Blocks -> BlockSet]
CtlTabs == [Clients -> CtlSet]
Tables(st, ls, cn, ct, bd) == [st |-> st, ls |-> ls, cn |-> cn, ctl |-> ct, bad |-> bd]

LEMMA WorldsIs ==
  Worlds = [st : StateTabs, ls : ListenTabs, cn : BlockTabs, ctl : CtlTabs, bad : BOOLEAN]
BY DEF Worlds, StateTabs, ListenTabs, BlockTabs, CtlTabs

LEMMA TablesIn ==
  ASSUME NEW st \in StateTabs, NEW ls \in ListenTabs, NEW cn \in BlockTabs, NEW ct \in CtlTabs,
         NEW bd \in BOOLEAN
  PROVE  LET w == Tables(st, ls, cn, ct, bd)
         IN /\ w \in Worlds
            /\ w.st = st /\ w.ls = ls /\ w.cn = cn /\ w.ctl = ct /\ w.bad = bd
BY WorldsIs DEF Tables

LEMMA WorldFields ==
  ASSUME NEW w \in Worlds
  PROVE  /\ w.st \in StateTabs /\ w.ls \in ListenTabs /\ w.cn \in BlockTabs
         /\ w.ctl \in CtlTabs /\ w.bad \in BOOLEAN
         /\ w = Tables(w.st, w.ls, w.cn, w.ctl, w.bad)
BY WorldsIs DEF Tables

LEMMA WorldEntries ==
  ASSUME NEW w \in Worlds
  PROVE  /\ \A i \in Slots : w.st[i] = Null \/ w.st[i] \in StateSet
         /\ \A i \in Slots : w.st[i] # Null => w.st[i] \in StateSet
         /\ \A b \in Blocks : w.cn[b] \in BlockSet
         /\ \A c \in Clients : w.ctl[c] \in CtlSet
BY WorldFields, NullIsNone DEF StateTabs, BlockTabs, CtlTabs

LEMMA TabUpdates ==
  /\ \A t \in StateTabs, i \in Slots, s \in StateSet \union {Null} :
       /\ [t EXCEPT ![i] = s] \in StateTabs /\ [t EXCEPT ![i] = s][i] = s
       /\ \A j \in Slots : j # i => [t EXCEPT ![i] = s][j] = t[j]
  /\ \A t \in BlockTabs, i \in Blocks, s \in BlockSet :
       /\ [t EXCEPT ![i] = s] \in BlockTabs /\ [t EXCEPT ![i] = s][i] = s
       /\ \A j \in Blocks : j # i => [t EXCEPT ![i] = s][j] = t[j]
  /\ \A t \in CtlTabs, i \in Clients, s \in CtlSet :
       /\ [t EXCEPT ![i] = s] \in CtlTabs /\ [t EXCEPT ![i] = s][i] = s
       /\ \A j \in Clients : j # i => [t EXCEPT ![i] = s][j] = t[j]
  /\ \A t \in ListenTabs, i \in Entries, s \in Ports : [t EXCEPT ![i] = s] \in ListenTabs
<1>1. \A t \in StateTabs, i \in Slots, s \in StateSet \union {Null} :
        /\ [t EXCEPT ![i] = s] \in StateTabs /\ [t EXCEPT ![i] = s][i] = s
        /\ \A j \in Slots : j # i => [t EXCEPT ![i] = s][j] = t[j]
  BY DEF StateTabs
<1>2. \A t \in BlockTabs, i \in Blocks, s \in BlockSet :
        /\ [t EXCEPT ![i] = s] \in BlockTabs /\ [t EXCEPT ![i] = s][i] = s
        /\ \A j \in Blocks : j # i => [t EXCEPT ![i] = s][j] = t[j]
  BY DEF BlockTabs
<1>3. \A t \in CtlTabs, i \in Clients, s \in CtlSet :
        /\ [t EXCEPT ![i] = s] \in CtlTabs /\ [t EXCEPT ![i] = s][i] = s
        /\ \A j \in Clients : j # i => [t EXCEPT ![i] = s][j] = t[j]
  BY DEF CtlTabs
<1>4. \A t \in ListenTabs, i \in Entries, s \in Ports : [t EXCEPT ![i] = s] \in ListenTabs
  BY DEF ListenTabs
<1> QED BY <1>1, <1>2, <1>3, <1>4

LEMMA ListenKeeps ==
  ASSUME NEW ls \in ListenTabs, NEW p \in Ports
  PROVE  Listen(ls, p) \in ListenTabs /\ Unlisten(ls, p) \in ListenTabs
<1>1. ASSUME NEW q \in Ports, \E e \in Entries : ls[e] = q
      PROVE  Min({e \in Entries : ls[e] = q}) \in Entries
  <2>1. {e \in Entries : ls[e] = q} \in SUBSET Nat /\ IsFiniteSet({e \in Entries : ls[e] = q})
    BY SlotsAreNumbers, FS_Subset
  <2>2. {e \in Entries : ls[e] = q} # {}
    BY <1>1
  <2> QED BY <2>1, <2>2, LeastOf
<1>2. 0 \in Ports
  BY SlotsAreNumbers
<1>3. Listen(ls, p) \in ListenTabs
  BY <1>1, <1>2, TabUpdates DEF Listen
<1>4. Unlisten(ls, p) \in ListenTabs
  BY <1>1, <1>2, TabUpdates DEF Unlisten
<1> QED BY <1>3, <1>4

-----------------------------------------------------------------------------
(* What the calls of a handler do to the tables.                            *)

CtlOnly(v, w, c, l) ==
  /\ v \in Worlds /\ v.st = w.st /\ v.ls = w.ls /\ v.cn = w.cn /\ v.bad = w.bad
  /\ v.ctl[c] = l /\ l \in CtlSet
  /\ \A d \in Clients : d # c => v.ctl[d] = w.ctl[d]

StateOnly(v, w, i, s) ==
  /\ v \in Worlds /\ v.ls = w.ls /\ v.cn = w.cn /\ v.ctl = w.ctl /\ v.bad = w.bad
  /\ v.st[i] = s
  /\ \A j \in Slots : j # i => v.st[j] = w.st[j]

PutCtl(w, c, l) == [w EXCEPT !.ctl = [w.ctl EXCEPT ![c] = l]]
PutState(w, i, s) == [w EXCEPT !.st = [w.st EXCEPT ![i] = s]]
PutListen(w, l) == [w EXCEPT !.ls = l]
PutBlock(w, b, k) == [w EXCEPT !.cn = [w.cn EXCEPT ![b] = k]]
PutBad(w) == [w EXCEPT !.bad = TRUE]

LEMMA PutCtlFacts ==
  ASSUME NEW w \in Worlds, NEW c \in Clients, NEW l \in CtlSet
  PROVE  CtlOnly(PutCtl(w, c, l), w, c, l)
<1> DEFINE t == [w.ctl EXCEPT ![c] = l]
<1>1. t \in CtlTabs /\ t[c] = l /\ \A d \in Clients : d # c => t[d] = w.ctl[d]
  BY TabUpdates, WorldFields
<1>2. PutCtl(w, c, l) = Tables(w.st, w.ls, w.cn, t, w.bad)
  BY WorldsIs DEF Tables, PutCtl
<1> HIDE DEF t
<1> QED BY <1>1, <1>2, TablesIn, WorldFields DEF CtlOnly

LEMMA PutStateFacts ==
  ASSUME NEW w \in Worlds, NEW i \in Slots, NEW s \in StateSet \union {Null}
  PROVE  StateOnly(PutState(w, i, s), w, i, s)
<1> DEFINE t == [w.st EXCEPT ![i] = s]
<1>1. t \in StateTabs /\ t[i] = s /\ \A d \in Slots : d # i => t[d] = w.st[d]
  BY TabUpdates, WorldFields
<1>2. PutState(w, i, s) = Tables(t, w.ls, w.cn, w.ctl, w.bad)
  BY WorldsIs DEF Tables, PutState
<1> HIDE DEF t
<1> QED BY <1>1, <1>2, TablesIn, WorldFields DEF StateOnly

LEMMA PutListenFacts ==
  ASSUME NEW w \in Worlds, NEW l \in ListenTabs
  PROVE  LET v == PutListen(w, l)
         IN /\ v \in Worlds /\ v.st = w.st /\ v.ls = l /\ v.cn = w.cn
            /\ v.ctl = w.ctl /\ v.bad = w.bad
<1>1. PutListen(w, l) = Tables(w.st, l, w.cn, w.ctl, w.bad)
  BY WorldsIs DEF Tables, PutListen
<1> QED BY <1>1, TablesIn, WorldFields

LEMMA PutBadIs ==
  ASSUME NEW w \in Worlds, NEW x
  PROVE  [w EXCEPT !.bad = x] = Tables(w.st, w.ls, w.cn, w.ctl, x)
BY WorldsIs DEF Tables

LEMMA PutBadFacts ==
  ASSUME NEW w \in Worlds
  PROVE  LET v == PutBad(w)
         IN /\ v \in Worlds /\ v.st = w.st /\ v.ls = w.ls /\ v.cn = w.cn
            /\ v.ctl = w.ctl /\ v.bad
<1> PICK yes \in BOOLEAN : yes = TRUE
  OBVIOUS
<1>0. PutBad(w) = [w EXCEPT !.bad = yes]
  BY DEF PutBad
<1>1. PutBad(w) = Tables(w.st, w.ls, w.cn, w.ctl, yes)
  BY <1>0, PutBadIs
<1>2. \A y \in BOOLEAN :
        LET v == Tables(w.st, w.ls, w.cn, w.ctl, y)
        IN /\ v \in Worlds /\ v.st = w.st /\ v.ls = w.ls /\ v.cn = w.cn
           /\ v.ctl = w.ctl /\ v.bad = y
  BY TablesIn, WorldFields
<1>3. /\ PutBad(w) \in Worlds /\ PutBad(w).st = w.st /\ PutBad(w).ls = w.ls
      /\ PutBad(w).cn = w.cn /\ PutBad(w).ctl = w.ctl /\ PutBad(w).bad = yes
  BY <1>1, <1>2
<1> QED BY <1>3

BlockOnly(v, w, b, k) ==
  /\ v \in Worlds /\ v.st = w.st /\ v.ls = w.ls /\ v.ctl = w.ctl /\ v.bad = w.bad
  /\ v.cn[b] = k
  /\ \A d \in Blocks : d # b => v.cn[d] = w.cn[d]

LEMMA PutBlockFacts ==
  ASSUME NEW w \in Worlds, NEW b \in Blocks, NEW k \in BlockSet
  PROVE  BlockOnly(PutBlock(w, b, k), w, b, k)
<1> DEFINE t == [w.cn EXCEPT ![b] = k]
<1>1. t \in BlockTabs /\ t[b] = k /\ \A d \in Blocks : d # b => t[d] = w.cn[d]
  BY TabUpdates, WorldFields
<1>2. PutBlock(w, b, k) = Tables(w.st, w.ls, t, w.ctl, w.bad)
  BY WorldsIs DEF Tables, PutBlock
<1> HIDE DEF t
<1> QED BY <1>1, <1>2, TablesIn, WorldFields DEF BlockOnly

\* The state that is found.
LEMMA SlotFacts ==
  ASSUME NEW w \in Worlds, NEW port
  PROVE  /\ Has(w, port) => /\ SlotOf(w, port) \in Slots
                            /\ w.st[SlotOf(w, port)] \in StateSet
                            /\ w.st[SlotOf(w, port)] # Null
                            /\ w.st[SlotOf(w, port)].port = port
                            /\ StateOf(w, port) = w.st[SlotOf(w, port)]
         /\ Has(w, port) <=> \E i \in Slots : w.st[i] # Null /\ w.st[i].port = port
<1>1. Holding(w, port) \in SUBSET Nat /\ IsFiniteSet(Holding(w, port))
  BY SlotsAreNumbers, FS_Subset DEF Holding
<1>2. Has(w, port) => SlotOf(w, port) \in Holding(w, port)
  BY <1>1, LeastOf DEF Has, SlotOf
<1>3. Has(w, port) => w.st[SlotOf(w, port)] \in StateSet
  BY <1>2, WorldEntries DEF Holding
<1> QED BY <1>2, <1>3 DEF Holding, Has, StateOf

LEMMA AtFacts ==
  ASSUME NEW w \in Worlds, NEW c \in Clients, NEW pc \in Pcs
  PROVE  CtlOnly(At(w, c, pc), w, c,
                 Control(pc, w.ctl[c].port, w.ctl[c].code, w.ctl[c].ready, w.ctl[c].moved,
                         w.ctl[c].left))
<1> DEFINE l == Control(pc, w.ctl[c].port, w.ctl[c].code, w.ctl[c].ready, w.ctl[c].moved,
                        w.ctl[c].left)
<1>1. w.ctl[c] \in CtlSet
  BY WorldEntries
<1>2. l \in CtlSet
  BY <1>1, CtlFields, ControlFields
<1>3. At(w, c, pc) = PutCtl(w, c, [w.ctl[c] EXCEPT !.pc = pc])
  BY DEF At, PutCtl
<1>4. [w.ctl[c] EXCEPT !.pc = pc] = l
  BY <1>1, ControlPuts
<1> HIDE DEF l
<1> QED BY <1>2, <1>3, <1>4, PutCtlFacts DEF l

SweepOnly(v, w) ==
  /\ v \in Worlds /\ v.ls = w.ls /\ v.cn = w.cn /\ v.ctl = w.ctl /\ v.bad = w.bad
  /\ \A i \in Slots : v.st[i] = w.st[i] \/ v.st[i] = Null

LEMMA CollectFacts ==
  ASSUME NEW w \in Worlds
  PROVE  SweepOnly(Collect(w), w)
<1> DEFINE t == [i \in Slots |->
                   IF w.st[i] # Null /\ (w.st[i].closed \/ ClosedWith(w.cn, w.st[i].port))
                   THEN Null ELSE w.st[i]]
<1>1. \A i \in Slots : t[i] = w.st[i] \/ t[i] = Null
  OBVIOUS
<1>2. t \in StateTabs
  BY WorldEntries DEF StateTabs
<1>3. Collect(w) = [w EXCEPT !.st = t]
  BY DEF Collect
<1> HIDE DEF t
<1>4. [w EXCEPT !.st = t] = Tables(t, w.ls, w.cn, w.ctl, w.bad)
  BY WorldsIs DEF Tables
<1> QED BY <1>1, <1>2, <1>3, <1>4, TablesIn, WorldFields DEF SweepOnly

LEMMA FreeFacts ==
  ASSUME NEW w \in Worlds, NEW port
  PROVE  /\ Has(w, port) => StateOnly(Free(w, port), w, SlotOf(w, port), Null)
         /\ ~Has(w, port) => Free(w, port) = w
         /\ Free(w, port) \in Worlds
<1>1. CASE Has(w, port)
  <2>1. Free(w, port) = PutState(w, SlotOf(w, port), Null)
    BY <1>1 DEF Free, PutState
  <2>2. StateOnly(Free(w, port), w, SlotOf(w, port), Null)
    BY <1>1, <2>1, SlotFacts, PutStateFacts
  <2> QED BY <1>1, <2>2 DEF StateOnly
<1>2. CASE ~Has(w, port)
  BY <1>2 DEF Free
<1> QED BY <1>1, <1>2

LEMMA RequestFacts ==
  ASSUME NEW w \in Worlds, NEW c \in Clients, NEW req \in Requests
  PROVE  LET port == w.ctl[c].port
             i == SlotOf(w, port)
         IN /\ Has(w, port) => StateOnly(Request(w, c, req), w, i, Requested(w.st[i], req, c))
            /\ ~Has(w, port) => Request(w, c, req) = PutBad(w)
<1> DEFINE port == w.ctl[c].port
           i == SlotOf(w, port)
<1>1. CASE Has(w, port)
  <2>1. i \in Slots /\ w.st[i] \in StateSet
    BY <1>1, SlotFacts
  <2>2. Requested(w.st[i], req, c) \in StateSet
    BY <2>1, RequestedFields
  <2>3. Request(w, c, req) = PutState(w, i, Requested(w.st[i], req, c))
    BY <1>1 DEF Request, PutState, Requested
  <2>4. StateOnly(Request(w, c, req), w, i, Requested(w.st[i], req, c))
    BY <2>1, <2>2, <2>3, PutStateFacts
  <2> QED BY <1>1, <2>4
<1>2. CASE ~Has(w, port)
  BY <1>2 DEF Request, PutBad
<1> QED BY <1>1, <1>2

\* The slot a new state gets, and its port.
AllocOnly(v, w, c, i, p) ==
  /\ v \in Worlds /\ v.cn = w.cn /\ v.bad = w.bad
  /\ w.st[i] = Null /\ v.st[i] = NewState(p)
  /\ \A j \in Slots : j # i => v.st[j] = w.st[j]
  /\ v.ctl[c] = Control(w.ctl[c].pc, p, w.ctl[c].code, w.ctl[c].ready, w.ctl[c].moved,
                        w.ctl[c].left)
  /\ \A d \in Clients : d # c => v.ctl[d] = w.ctl[d]

LEMMA AllocFacts ==
  ASSUME NEW w \in Worlds, NEW c \in Clients, NEW port \in Ports, FreeSlots(w) # {}
  PROVE  \E i \in Slots, p \in StatePorts :
           /\ p = IF port = 0 THEN FTPD_BASE_DATA_PORT + i ELSE port
           /\ AllocOnly(AllocIn(w, c, port), w, c, i, p)
<1> DEFINE i == Min(FreeSlots(w))
           p == IF port = 0 THEN FTPD_BASE_DATA_PORT + i ELSE port
           l == Control(w.ctl[c].pc, p, w.ctl[c].code, w.ctl[c].ready, w.ctl[c].moved,
                        w.ctl[c].left)
<1>1. i \in FreeSlots(w)
  <2>1. FreeSlots(w) \in SUBSET Nat /\ IsFiniteSet(FreeSlots(w))
    BY SlotsAreNumbers, FS_Subset DEF FreeSlots
  <2> QED BY <2>1, LeastOf
<1>2. i \in Slots /\ w.st[i] = Null
  BY <1>1 DEF FreeSlots
<1> HIDE DEF i
<1>3. p \in StatePorts /\ p \in Ports
  BY <1>2, SlotsAreNumbers DEF StatePorts
<1>4. AllocIn(w, c, port)
        = PutCtl(PutListen(PutState(w, i, NewState(p)), Listen(w.ls, p)), c,
                 [w.ctl[c] EXCEPT !.port = p])
  BY WorldsIs DEF AllocIn, PutCtl, PutListen, PutState, i
<1> HIDE DEF p
<1>5. w.ctl[c] \in CtlSet
  BY WorldEntries
<1>6. [w.ctl[c] EXCEPT !.port = p] = l
  BY <1>5, ControlPuts
<1>7. l \in CtlSet
  BY <1>5, <1>3, CtlFields, ControlFields
<1> HIDE DEF l
<1>8. NewState(p) \in StateSet
  BY <1>3, NewStateFields
<1> DEFINE w1 == PutState(w, i, NewState(p))
           w2 == PutListen(w1, Listen(w.ls, p))
           w3 == PutCtl(w2, c, l)
<1>9. StateOnly(w1, w, i, NewState(p))
  BY <1>2, <1>8, PutStateFacts
<1>10. Listen(w.ls, p) \in ListenTabs /\ w1 \in Worlds
  BY <1>3, <1>9, ListenKeeps, WorldFields DEF StateOnly
<1> HIDE DEF w1
<1>11. w2 \in Worlds /\ w2.st = w1.st /\ w2.cn = w1.cn /\ w2.ctl = w1.ctl /\ w2.bad = w1.bad
  BY <1>10, PutListenFacts
<1> HIDE DEF w2
<1>12. CtlOnly(w3, w2, c, l)
  BY <1>11, <1>7, PutCtlFacts
<1>13. AllocIn(w, c, port) = w3
  BY <1>4, <1>6 DEF w1, w2
<1> HIDE DEF w3
<1>14. AllocOnly(w3, w, c, i, p)
  BY <1>2, <1>9, <1>11, <1>12 DEF AllocOnly, StateOnly, CtlOnly, l
<1> QED BY <1>2, <1>3, <1>13, <1>14 DEF p

-----------------------------------------------------------------------------
(* What a turn of a control connection comes to.                            *)

\* A sweep, and then a state for port p in slot i.
Begun(v, w, c, i, p, l) ==
  /\ v \in Worlds /\ v.cn = w.cn /\ v.bad = w.bad
  /\ i \in Slots /\ p \in StatePorts /\ v.st[i] = NewState(p)
  /\ \A j \in Slots : j # i => v.st[j] = w.st[j] \/ v.st[j] = Null
  /\ v.ctl[c] = l /\ l \in CtlSet
  /\ \A d \in Clients : d # c => v.ctl[d] = w.ctl[d]

\* A request to the state in slot i.
Asked(v, w, c, i, req, l) ==
  /\ v \in Worlds /\ v.ls = w.ls /\ v.cn = w.cn /\ v.bad = w.bad
  /\ i \in Slots /\ w.st[i] \in StateSet /\ w.st[i].port = w.ctl[c].port
  /\ req \in Requests /\ v.st[i] = Requested(w.st[i], req, c)
  /\ \A j \in Slots : j # i => v.st[j] = w.st[j]
  /\ v.ctl[c] = l /\ l \in CtlSet
  /\ \A d \in Clients : d # c => v.ctl[d] = w.ctl[d]

\* The state with the port is freed.
Freed(v, w, c, port, l) ==
  /\ v \in Worlds /\ v.ls = w.ls /\ v.cn = w.cn /\ v.bad = w.bad
  /\ \A j \in Slots : v.st[j] = w.st[j] \/ v.st[j] = Null
  /\ Has(w, port) => v.st[SlotOf(w, port)] = Null
  /\ \A j \in Slots : v.st[j] # w.st[j] => w.st[j] # Null /\ w.st[j].port = port
  /\ v.ctl[c] = l /\ l \in CtlSet
  /\ \A d \in Clients : d # c => v.ctl[d] = w.ctl[d]

\* A control connection that goes on to wait at pc.
GoesTo(k, pc) == Control(pc, k.port, k.code, k.ready, k.moved, k.left)

LEMMA GoesToFields ==
  ASSUME NEW k \in CtlSet, NEW pc \in Pcs
  PROVE  /\ GoesTo(k, pc) \in CtlSet
         /\ GoesTo(k, pc).pc = pc /\ GoesTo(k, pc).port = k.port
         /\ GoesTo(k, pc).code = k.code /\ GoesTo(k, pc).ready = k.ready
         /\ GoesTo(k, pc).moved = k.moved /\ GoesTo(k, pc).left = k.left
BY CtlFields, ControlFields DEF GoesTo

LEMMA GoesFacts ==
  ASSUME NEW w \in Worlds, NEW c \in Clients, NEW pc \in Pcs
  PROVE  CtlOnly(At(w, c, pc), w, c, GoesTo(w.ctl[c], pc))
BY AtFacts DEF GoesTo

\* The end of a transfer with its code.
EndsWith(k, code) == Control("result", k.port, code, k.ready, k.moved, k.left)

LEMMA FinishFacts ==
  ASSUME NEW w \in Worlds, NEW c \in Clients
  PROVE  LET port == w.ctl[c].port
         IN /\ Has(w, port) =>
                 Freed(Finish(w, c), w, c, port, EndsWith(w.ctl[c], StateOf(w, port).code))
            /\ ~Has(w, port) => Finish(w, c) = PutBad(w)
<1> DEFINE port == w.ctl[c].port
           code == StateOf(w, port).code
           f == Free(w, port)
           k == w.ctl[c]
           u == PutCtl(f, c, Control(k.pc, k.port, code, k.ready, k.moved, k.left))
           v == At(u, c, "result")
<1>1. CASE Has(w, port)
  <2>1. code \in Codes /\ code \in Replies /\ "result" \in Pcs
    <3>1. StateOf(w, port) \in StateSet
      BY <1>1, SlotFacts
    <3>2. code \in Codes
      BY <3>1, StateFields
    <3> HIDE DEF code
    <3> QED BY <3>2 DEF Codes, Replies, Pcs, Sending
  <2>2. StateOnly(f, w, SlotOf(w, port), Null) /\ SlotOf(w, port) \in Slots
        /\ w.st[SlotOf(w, port)] # Null /\ w.st[SlotOf(w, port)].port = port
    BY <1>1, FreeFacts, SlotFacts
  <2>3. k \in CtlSet
    BY WorldEntries
  <2>4. f \in Worlds /\ f.ctl[c] = k
    BY <2>2 DEF StateOnly
  <2>5. [f EXCEPT !.ctl[c].code = code] = PutCtl(f, c, [f.ctl[c] EXCEPT !.code = code])
    BY DEF PutCtl
  <2>6. [f.ctl[c] EXCEPT !.code = code]
          = Control(k.pc, k.port, code, k.ready, k.moved, k.left)
    <3> PICK l \in CtlSet : l = k
      BY <2>3
    <3> HIDE DEF f, k, code
    <3>1. [l EXCEPT !.code = code] = Control(l.pc, l.port, code, l.ready, l.moved, l.left)
      <4>1. l = Control(l.pc, l.port, l.code, l.ready, l.moved, l.left)
        BY CtlFields
      <4> QED BY <4>1 DEF Control
    <3> QED BY <2>4, <3>1
  <2>7. Finish(w, c) = v
    BY <1>1, <2>5, <2>6 DEF Finish
  <2> HIDE DEF f, code, port
  <2>8. Control(k.pc, k.port, code, k.ready, k.moved, k.left) \in CtlSet
    BY <2>3, <2>1, CtlFields, ControlFields
  <2>9. CtlOnly(u, f, c, Control(k.pc, k.port, code, k.ready, k.moved, k.left))
    BY <2>4, <2>8, PutCtlFacts
  <2> HIDE DEF u
  <2>10. u \in Worlds
    BY <2>9 DEF CtlOnly
  <2>11. CtlOnly(v, u, c, GoesTo(u.ctl[c], "result"))
    BY <2>10, <2>1, GoesFacts
  <2> HIDE DEF v
  <2>12. u.ctl[c] = Control(k.pc, k.port, code, k.ready, k.moved, k.left)
    BY <2>9 DEF CtlOnly
  <2>13. GoesTo(u.ctl[c], "result") = EndsWith(k, code)
    BY <2>12, <2>3, <2>1, CtlFields, ControlFields DEF GoesTo, EndsWith
  <2> HIDE DEF k
  <2>14. Freed(v, w, c, port, EndsWith(k, code))
    BY <2>2, <2>9, <2>11, <2>13 DEF Freed, StateOnly, CtlOnly
  <2> QED BY <1>1, <2>7, <2>14 DEF port, code, k
<1>2. CASE ~Has(w, port)
  BY <1>2 DEF Finish, PutBad
<1> QED BY <1>1, <1>2

\* A passive data connection is made ready.
Reserves(v, w, c) ==
  \E i \in Slots :
    Begun(v, w, c, i, FTPD_BASE_DATA_PORT + i,
          Control("sent227", FTPD_BASE_DATA_PORT + i, w.ctl[c].code, w.ctl[c].ready,
                  w.ctl[c].moved, w.ctl[c].left))

LEMMA ReservesFacts ==
  ASSUME NEW w \in Worlds, NEW c \in Clients, FreeSlots(Collect(w)) # {}
  PROVE  Reserves(At(AllocIn(Collect(w), c, 0), c, "sent227"), w, c)
<1> DEFINE u == Collect(w)
           a == AllocIn(u, c, 0)
           v == At(a, c, "sent227")
           k == w.ctl[c]
<1>1. SweepOnly(u, w)
  BY CollectFacts
<1> HIDE DEF u
<1>2. u \in Worlds /\ u.ctl[c] = k
  BY <1>1 DEF SweepOnly
<1>3. FreeSlots(u) # {} /\ 0 \in Ports
  BY SlotsAreNumbers DEF u
<1>4. PICK i \in Slots, p \in StatePorts :
        p = FTPD_BASE_DATA_PORT + i /\ AllocOnly(a, u, c, i, p)
  BY <1>2, <1>3, AllocFacts
<1> HIDE DEF a
<1>5. a \in Worlds /\ "sent227" \in Pcs
  BY <1>4 DEF AllocOnly, Pcs, Sending
<1>6. CtlOnly(v, a, c, GoesTo(a.ctl[c], "sent227"))
  BY <1>5, GoesFacts
<1>7. a.ctl[c] = Control(k.pc, p, k.code, k.ready, k.moved, k.left)
  BY <1>4, <1>2 DEF AllocOnly
<1>8. k \in CtlSet /\ p \in Ports
  BY WorldEntries DEF StatePorts
<1>9. GoesTo(a.ctl[c], "sent227") = Control("sent227", p, k.code, k.ready, k.moved, k.left)
  BY <1>7, <1>8, CtlFields, ControlFields DEF GoesTo
<1> HIDE DEF v, k
<1>10. Begun(v, w, c, i, p, Control("sent227", p, k.code, k.ready, k.moved, k.left))
  BY <1>1, <1>4, <1>6, <1>9 DEF SweepOnly, AllocOnly, CtlOnly, Begun
<1> QED BY <1>4, <1>10 DEF Reserves, v, a, u, k

\* A null pointer is used.
Spoils(v, w, c, l) ==
  /\ v \in Worlds /\ v.bad /\ v.st = w.st /\ v.ls = w.ls /\ v.cn = w.cn
  /\ v.ctl[c] = l /\ l \in CtlSet
  /\ \A d \in Clients : d # c => v.ctl[d] = w.ctl[d]

LEMMA SpoilsFacts ==
  ASSUME NEW w \in Worlds, NEW c \in Clients
  PROVE  Spoils(PutBad(w), w, c, w.ctl[c])
BY PutBadFacts, WorldEntries DEF Spoils

\* A turn of the protothread in a wait.
Turned(v, w, c) ==
  LET k == w.ctl[c]
      conn == Connected(w, k.port)
  IN \/ v = w
     \/ k.pc = "pasv" /\ (SweepOnly(v, w) \/ Reserves(v, w, c))
     \/ k.pc = "connList" /\ conn /\ CtlOnly(v, w, c, GoesTo(k, "sent150"))
     \/ k.pc = "connRetr" /\ conn /\ CtlOnly(v, w, c, GoesTo(k, "sent125"))
     \/ k.pc \in {"busy", "disc"} /\ conn /\ CtlOnly(v, w, c, GoesTo(k, "disc"))
     \/ /\ k.pc \in {"busy", "disc"} /\ ~conn /\ (k.pc = "busy" => ~Busy(w, k.port))
        /\ Has(w, k.port)
        /\ Freed(v, w, c, k.port, EndsWith(k, StateOf(w, k.port).code))
     \/ k.pc \in {"busy", "disc"} /\ ~Has(w, k.port) /\ Spoils(v, w, c, k)

LEMMA TurnedIn ==
  ASSUME NEW v, NEW w \in Worlds, NEW c, Turned(v, w, c)
  PROVE  v \in Worlds
<1>1. SweepOnly(v, w) \/ Reserves(v, w, c) => v \in Worlds
  BY DEF SweepOnly, Reserves, Begun
<1>2. ASSUME NEW l, CtlOnly(v, w, c, l) \/ Spoils(v, w, c, l) PROVE v \in Worlds
  BY <1>2 DEF CtlOnly, Spoils
<1>3. ASSUME NEW port, NEW l, Freed(v, w, c, port, l) PROVE v \in Worlds
  BY <1>3 DEF Freed
<1> QED BY <1>1, <1>2, <1>3, Zenon DEF Turned

LEMMA PcNames ==
  {"greet", "sent227", "sent150", "sent125", "sentStor", "result", "quit", "none", "read",
   "closing", "pasv", "connList", "connRetr", "busy", "disc"} = Pcs
BY DEF Pcs, Sending

LEMMA ResumeCases ==
  ASSUME NEW w \in Worlds, NEW c \in Clients
  PROVE  Turned(Resume(w, c), w, c)
<1> DEFINE k == w.ctl[c]
           v == Resume(w, c)
<1>0. k.pc \in Pcs
  BY WorldEntries, CtlFields
<1>1. CASE k.pc = "pasv"
  <2>1. v = LET swept == Collect(w)
            IN IF FreeSlots(swept) = {} THEN swept ELSE At(AllocIn(swept, c, 0), c, "sent227")
    BY <1>1 DEF Resume
  <2>2. CASE FreeSlots(Collect(w)) = {}
    <3>1. v = Collect(w)
      BY <2>1, <2>2
    <3> HIDE DEF v
    <3> QED BY <1>1, <3>1, CollectFacts DEF Turned, v
  <2>3. CASE FreeSlots(Collect(w)) # {}
    <3>1. v = At(AllocIn(Collect(w), c, 0), c, "sent227")
      BY <2>1, <2>3
    <3>2. Reserves(v, w, c)
      BY <3>1, <2>3, ReservesFacts
    <3> HIDE DEF v
    <3> QED BY <1>1, <3>2 DEF Turned, v
  <2> QED BY <2>2, <2>3
<1>2. CASE k.pc = "connList"
  <2>1. CASE Connected(w, k.port)
    <3>1. v = At(w, c, "sent150")
      BY <1>2, <2>1 DEF Resume
    <3>2. CtlOnly(v, w, c, GoesTo(k, "sent150"))
      BY <3>1, GoesFacts, PcNames
    <3> HIDE DEF v
    <3> QED BY <1>2, <2>1, <3>2 DEF Turned, v
  <2>2. CASE ~Connected(w, k.port)
    <3>1. v = w
      BY <1>2, <2>2 DEF Resume
    <3> QED BY <3>1 DEF Turned
  <2> QED BY <2>1, <2>2
<1>3. CASE k.pc = "connRetr"
  <2>1. CASE Connected(w, k.port)
    <3>1. v = At(w, c, "sent125")
      BY <1>3, <2>1 DEF Resume
    <3>2. CtlOnly(v, w, c, GoesTo(k, "sent125"))
      BY <3>1, GoesFacts, PcNames
    <3> HIDE DEF v
    <3> QED BY <1>3, <2>1, <3>2 DEF Turned, v
  <2>2. CASE ~Connected(w, k.port)
    <3>1. v = w
      BY <1>3, <2>2 DEF Resume
    <3> QED BY <3>1 DEF Turned
  <2> QED BY <2>1, <2>2
<1>4. CASE k.pc \in {"busy", "disc"}
  <2>1. v = UntilOver(w, c)
    BY <1>4 DEF Resume
  <2>2. CASE k.pc = "busy" /\ Busy(w, k.port)
    <3>1. v = w
      BY <2>1, <2>2 DEF UntilOver
    <3> QED BY <3>1 DEF Turned
  <2>3. CASE ~(k.pc = "busy" /\ Busy(w, k.port)) /\ Connected(w, k.port)
    <3>1. v = At(w, c, "disc")
      BY <2>1, <2>3 DEF UntilOver
    <3>2. CtlOnly(v, w, c, GoesTo(k, "disc"))
      BY <3>1, GoesFacts, PcNames
    <3> HIDE DEF v
    <3> QED BY <1>4, <2>3, <3>2 DEF Turned, v
  <2>4. CASE ~(k.pc = "busy" /\ Busy(w, k.port)) /\ ~Connected(w, k.port)
    <3>1. v = Finish(w, c)
      BY <2>1, <2>4 DEF UntilOver
    <3>2. /\ Has(w, k.port) => Freed(v, w, c, k.port, EndsWith(k, StateOf(w, k.port).code))
          /\ ~Has(w, k.port) => Spoils(v, w, c, k)
      BY <3>1, FinishFacts, SpoilsFacts
    <3> HIDE DEF v
    <3> QED BY <1>4, <2>4, <3>2 DEF Turned, v
  <2> QED BY <2>2, <2>3, <2>4
<1>5. CASE k.pc \notin {"pasv", "connList", "connRetr", "busy", "disc"}
  <2>1. v = w
    BY <1>5 DEF Resume
  <2> QED BY <2>1 DEF Turned
<1> QED BY <1>1, <1>2, <1>3, <1>4, <1>5

\* A request before the protothread goes on to wait at pc.
Asks(v, w, c, req, l) ==
  \/ Has(w, w.ctl[c].port) /\ Asked(v, w, c, SlotOf(w, w.ctl[c].port), req, l)
  \/ ~Has(w, w.ctl[c].port) /\ Spoils(v, w, c, l)

LEMMA AsksFacts ==
  ASSUME NEW w \in Worlds, NEW c \in Clients, NEW req \in Requests, NEW pc \in Pcs
  PROVE  Asks(At(Request(w, c, req), c, pc), w, c, req, GoesTo(w.ctl[c], pc))
<1> DEFINE k == w.ctl[c]
           i == SlotOf(w, k.port)
           r == Request(w, c, req)
           v == At(r, c, pc)
<1>0. k \in CtlSet /\ GoesTo(k, pc) \in CtlSet
  BY WorldEntries, GoesToFields
<1>1. CASE Has(w, k.port)
  <2>1. StateOnly(r, w, i, Requested(w.st[i], req, c))
    BY <1>1, RequestFacts
  <2>2. i \in Slots /\ w.st[i] \in StateSet /\ w.st[i].port = k.port
    BY <1>1, SlotFacts
  <2> HIDE DEF r, i
  <2>3. r \in Worlds /\ r.ctl[c] = k
    BY <2>1 DEF StateOnly
  <2>4. CtlOnly(v, r, c, GoesTo(k, pc))
    BY <2>3, GoesFacts
  <2> HIDE DEF v, k
  <2>5. k = w.ctl[c]
    BY DEF k
  <2>6. Asked(v, w, c, i, req, GoesTo(k, pc))
    BY <2>1, <2>2, <2>4, <2>5, <1>0 DEF StateOnly, CtlOnly, Asked
  <2> QED BY <1>1, <2>6 DEF Asks, v, r, i, k
<1>2. CASE ~Has(w, k.port)
  <2>1. r = PutBad(w)
    BY <1>2, RequestFacts
  <2>2. r \in Worlds /\ r.ctl[c] = k
    BY <2>1, PutBadFacts
  <2> HIDE DEF r
  <2>3. CtlOnly(v, r, c, GoesTo(k, pc))
    BY <2>2, GoesFacts
  <2> HIDE DEF v
  <2>4. Spoils(v, w, c, GoesTo(k, pc))
    BY <2>1, <2>3, PutBadFacts DEF CtlOnly, Spoils
  <2> QED BY <1>2, <2>4 DEF Asks, v, r
<1> QED BY <1>1, <1>2

Ready(k) == [k EXCEPT !.ready = TRUE]
Readied(k) == GoesTo(Ready(k), "read")

LEMMA ReadyFields ==
  ASSUME NEW k \in CtlSet
  PROVE  /\ Ready(k) \in CtlSet
         /\ Ready(k).pc = k.pc /\ Ready(k).port = k.port /\ Ready(k).code = k.code
         /\ Ready(k).ready = TRUE /\ Ready(k).moved = k.moved /\ Ready(k).left = k.left
BY CtlSetIs DEF Ready

\* What an acknowledgement comes to.
Answers(v, w, c) ==
  LET k == w.ctl[c]
  IN \/ k.pc = "sent227" /\ CtlOnly(v, w, c, Readied(k))
     \/ k.pc = "sent150" /\ \E u \in Worlds : Asks(u, w, c, "List", GoesTo(k, "busy")) /\ Turned(v, u, c)
     \/ k.pc = "sent125" /\ \E u \in Worlds : CtlOnly(u, w, c, GoesTo(k, "busy")) /\ Turned(v, u, c)
     \/ k.pc = "sentStor" /\ \E u \in Worlds : CtlOnly(u, w, c, GoesTo(k, "disc")) /\ Turned(v, u, c)
     \/ k.pc = "quit" /\ CtlOnly(v, w, c, GoesTo(k, "closing"))
     \/ k.pc \in {"greet", "result"} /\ CtlOnly(v, w, c, GoesTo(k, "read"))

LEMMA AnswersIn ==
  ASSUME NEW v, NEW w \in Worlds, NEW c, Answers(v, w, c)
  PROVE  v \in Worlds
<1>1. ASSUME NEW l, CtlOnly(v, w, c, l) PROVE v \in Worlds
  BY <1>1 DEF CtlOnly
<1>2. ASSUME NEW u \in Worlds, Turned(v, u, c) PROVE v \in Worlds
  BY <1>2, TurnedIn
<1> QED BY <1>1, <1>2, Zenon DEF Answers

LEMMA AckedCases ==
  ASSUME NEW w \in Worlds, NEW c \in Clients, w.ctl[c].pc \in Sending
  PROVE  Answers(Acked(w, c), w, c)
<1> DEFINE k == w.ctl[c]
           v == Acked(w, c)
<1>0. k \in CtlSet /\ Pcs = {"greet", "sent227", "sent150", "sent125", "sentStor", "result",
         "quit", "none", "read", "closing", "pasv", "connList", "connRetr", "busy", "disc"}
  BY WorldEntries, PcNames
<1>1. CASE k.pc = "sent227"
  <2> DEFINE u == [w EXCEPT !.ctl[c].ready = TRUE]
  <2>1. v = At(u, c, "read")
    BY <1>1 DEF Acked
  <2>2. u = PutCtl(w, c, Ready(k))
    BY DEF PutCtl, Ready
  <2>3. Ready(k) \in CtlSet
    BY <1>0, ReadyFields
  <2>4. CtlOnly(u, w, c, Ready(k))
    BY <2>2, <2>3, PutCtlFacts
  <2> HIDE DEF u
  <2>5. u \in Worlds /\ u.ctl[c] = Ready(k)
    BY <2>4 DEF CtlOnly
  <2>6. CtlOnly(v, u, c, Readied(k))
    BY <2>1, <2>5, <1>0, GoesFacts DEF Readied
  <2> HIDE DEF v
  <2>7. CtlOnly(v, w, c, Readied(k))
    BY <2>4, <2>6 DEF CtlOnly
  <2> QED BY <1>1, <2>7 DEF Answers, v
<1>2. CASE k.pc = "sent150"
  <2> DEFINE u == At(Request(w, c, "List"), c, "busy")
  <2>1. v = Resume(u, c)
    BY <1>2 DEF Acked
  <2>2. Asks(u, w, c, "List", GoesTo(k, "busy"))
    BY <1>0, AsksFacts DEF Requests
  <2> HIDE DEF u
  <2>3. u \in Worlds
    BY <2>2 DEF Asks, Asked, Spoils
  <2>4. Turned(v, u, c)
    BY <2>1, <2>3, ResumeCases
  <2> HIDE DEF v
  <2> QED BY <1>2, <2>2, <2>3, <2>4 DEF Answers, v
<1>3. CASE k.pc = "sent125"
  <2> DEFINE u == At(w, c, "busy")
  <2>1. v = Resume(u, c)
    BY <1>3 DEF Acked
  <2>2. CtlOnly(u, w, c, GoesTo(k, "busy"))
    BY <1>0, GoesFacts
  <2> HIDE DEF u
  <2>3. u \in Worlds
    BY <2>2 DEF CtlOnly
  <2>4. Turned(v, u, c)
    BY <2>1, <2>3, ResumeCases
  <2> HIDE DEF v
  <2> QED BY <1>3, <2>2, <2>3, <2>4 DEF Answers, v
<1>4. CASE k.pc = "sentStor"
  <2> DEFINE u == At(w, c, "disc")
  <2>1. v = Resume(u, c)
    BY <1>4 DEF Acked
  <2>2. CtlOnly(u, w, c, GoesTo(k, "disc"))
    BY <1>0, GoesFacts
  <2> HIDE DEF u
  <2>3. u \in Worlds
    BY <2>2 DEF CtlOnly
  <2>4. Turned(v, u, c)
    BY <2>1, <2>3, ResumeCases
  <2> HIDE DEF v
  <2> QED BY <1>4, <2>2, <2>3, <2>4 DEF Answers, v
<1>5. CASE k.pc = "quit"
  <2>1. v = At(w, c, "closing")
    BY <1>5 DEF Acked
  <2>2. CtlOnly(v, w, c, GoesTo(k, "closing"))
    BY <2>1, <1>0, GoesFacts
  <2> HIDE DEF v
  <2> QED BY <1>5, <2>2 DEF Answers, v
<1>6. CASE k.pc \in {"greet", "result"}
  <2>1. v = At(w, c, "read")
    BY <1>6 DEF Acked
  <2>2. CtlOnly(v, w, c, GoesTo(k, "read"))
    BY <2>1, <1>0, GoesFacts
  <2> HIDE DEF v
  <2> QED BY <1>6, <2>2 DEF Answers, v
<1> QED BY <1>1, <1>2, <1>3, <1>4, <1>5, <1>6 DEF Sending

-----------------------------------------------------------------------------
(* The callbacks of a control connection.                                   *)

LEMMA WorldIs ==
  /\ World.st = states /\ World.ls = listen /\ World.cn = conns /\ World.ctl = ctl
  /\ World.bad = bad
BY DEF World

LEMMA WorldNext ==
  /\ World'.st = states' /\ World'.ls = listen' /\ World'.cn = conns' /\ World'.ctl = ctl'
  /\ World'.bad = bad'
BY DEF World

LEMMA BecomesIs ==
  ASSUME NEW w \in Worlds, Becomes(w)
  PROVE  World' = w
<1>1. World' = Tables(w.st, w.ls, w.cn, w.ctl, w.bad)
  BY DEF Becomes, World, Tables
<1> QED BY <1>1, WorldFields

LEMMA HasSame ==
  ASSUME NEW u, NEW w, u.st = w.st, NEW port
  PROVE  /\ Has(u, port) <=> Has(w, port)
         /\ SlotOf(u, port) = SlotOf(w, port)
         /\ StateOf(u, port) = StateOf(w, port)
         /\ Connected(u, port) <=> Connected(w, port)
         /\ Busy(u, port) <=> Busy(w, port)
<1>1. Holding(u, port) = Holding(w, port)
  BY DEF Holding
<1>2. (Has(u, port) <=> Has(w, port)) /\ SlotOf(u, port) = SlotOf(w, port)
  BY <1>1 DEF Has, SlotOf
<1>3. StateOf(u, port) = StateOf(w, port)
  BY <1>2 DEF StateOf
<1> QED BY <1>2, <1>3 DEF Connected, Busy

\* A control connection that has read a command.
Spent(k) == [[[k EXCEPT !.left = k.left - 1] EXCEPT !.ready = FALSE] EXCEPT !.moved = "no"]

LEMMA SpentFields ==
  ASSUME NEW k \in CtlSet, k.left > 0
  PROVE  /\ [k EXCEPT !.left = k.left - 1] \in CtlSet
         /\ [[k EXCEPT !.left = k.left - 1] EXCEPT !.ready = FALSE] \in CtlSet
         /\ Spent(k) \in CtlSet
         /\ Spent(k).pc = k.pc /\ Spent(k).port = k.port /\ Spent(k).code = k.code
         /\ Spent(k).ready = FALSE /\ Spent(k).moved = "no" /\ Spent(k).left = k.left - 1
<1>1. k.left - 1 \in 0..Commands /\ "no" \in Moves
  BY CtlFields, SizesAssumption DEF Moves
<1> DEFINE x == [k EXCEPT !.left = k.left - 1]
           y == [x EXCEPT !.ready = FALSE]
           z == [y EXCEPT !.moved = "no"]
<1>2. /\ x \in CtlSet /\ x.pc = k.pc /\ x.port = k.port /\ x.code = k.code
      /\ x.left = k.left - 1
  BY <1>1, CtlSetIs
<1> HIDE DEF x
<1>3. /\ y \in CtlSet /\ y.pc = k.pc /\ y.port = k.port /\ y.code = k.code
      /\ y.left = k.left - 1 /\ y.ready = FALSE
  BY <1>2, CtlSetIs
<1> HIDE DEF y
<1> PICK m \in Moves : m = "no"
  BY <1>1
<1>4. /\ z \in CtlSet /\ z.pc = k.pc /\ z.port = k.port /\ z.code = k.code
      /\ z.left = k.left - 1 /\ z.ready = FALSE /\ z.moved = "no"
  BY <1>3, CtlSetIs
<1> QED BY <1>2, <1>3, <1>4 DEF Spent, x, y, z

LEMMA ReadingFacts ==
  ASSUME World \in Worlds, NEW c \in Clients, ctl[c].left > 0
  PROVE  CtlOnly(Reading(c), World, c, Spent(World.ctl[c]))
<1> DEFINE k == World.ctl[c]
<1>1. k \in CtlSet /\ k.left > 0
  BY WorldEntries, WorldIs
<1> DEFINE x == [k EXCEPT !.left = k.left - 1]
           y == [x EXCEPT !.ready = FALSE]
           z == [y EXCEPT !.moved = "no"]
           u == PutCtl(World, c, x)
           v == PutCtl(u, c, y)
           w == PutCtl(v, c, z)
<1>2. x \in CtlSet /\ y \in CtlSet /\ z \in CtlSet /\ z = Spent(k)
  BY <1>1, SpentFields DEF Spent
<1>3. Reading(c) = [[[World EXCEPT !.ctl[c].left = @ - 1] EXCEPT !.ctl[c].ready = FALSE]
                     EXCEPT !.ctl[c].moved = "no"]
  BY DEF Reading
<1>4. [World EXCEPT !.ctl[c].left = @ - 1] = u
  BY DEF PutCtl
<1> HIDE DEF z
<1>5. CtlOnly(u, World, c, x)
  BY <1>2, PutCtlFacts
<1> HIDE DEF u, x
<1>6. u \in Worlds /\ u.ctl[c] = x
  BY <1>5 DEF CtlOnly
<1>7. [u EXCEPT !.ctl[c].ready = FALSE] = v
  BY <1>6 DEF PutCtl
<1>8. CtlOnly(v, u, c, y)
  BY <1>2, <1>6, PutCtlFacts
<1> HIDE DEF v, y
<1>9. v \in Worlds /\ v.ctl[c] = y
  BY <1>8 DEF CtlOnly
<1>10. [v EXCEPT !.ctl[c].moved = "no"] = w
  BY <1>9 DEF PutCtl, z
<1>11. CtlOnly(w, v, c, z)
  BY <1>2, <1>9, PutCtlFacts
<1>12. Reading(c) = w
  BY <1>3, <1>4, <1>7, <1>10
<1> HIDE DEF w
<1>13. CtlOnly(w, World, c, z)
  BY <1>5, <1>8, <1>11 DEF CtlOnly
<1> QED BY <1>2, <1>12, <1>13

LEMMA GoneFields ==
  ASSUME NEW n \in 0..Commands
  PROVE  /\ Gone(n) \in CtlSet
         /\ Gone(n).pc = "none" /\ Gone(n).port = 0 /\ Gone(n).code = 0
         /\ Gone(n).ready = FALSE /\ Gone(n).moved = "no" /\ Gone(n).left = n
<1>1. /\ Gone(n).pc = "none" /\ Gone(n).port = 0 /\ Gone(n).code = 0
      /\ Gone(n).ready = FALSE /\ Gone(n).moved = "no" /\ Gone(n).left = n
  BY DEF Gone
<1>2. "none" \in Pcs /\ 0 \in Ports /\ 0 \in Replies /\ "no" \in Moves
  BY PcNames, SlotsAreNumbers DEF Replies, Moves
<1>3. PICK pc \in Pcs, p \in Ports, r \in Replies, m \in Moves :
        pc = "none" /\ p = 0 /\ r = 0 /\ m = "no"
  BY <1>2
<1>4. Gone(n) = [pc |-> pc, port |-> p, code |-> r, ready |-> FALSE, moved |-> m, left |-> n]
  BY <1>3 DEF Gone
<1> QED BY <1>1, <1>4, CtlSetIs

\* One action after the other, as a step from world to world.
LEMMA GoesPut ==
  ASSUME NEW k \in CtlSet, NEW pc
  PROVE  [k EXCEPT !.pc = pc] = GoesTo(k, pc)
BY ControlPuts DEF GoesTo

LEMMA OpenStep ==
  ASSUME World \in Worlds, NEW c \in Clients, Open(c)
  PROVE  LET k == World.ctl[c]
         IN /\ k.pc = "none" /\ k.left > 0
            /\ CtlOnly(World', World, c, GoesTo(Gone(k.left - 1), "greet"))
            /\ lastport' = lastport /\ lost' = lost
<1> DEFINE w == World
           k == w.ctl[c]
           l == GoesTo(Gone(k.left - 1), "greet")
<1>1. k \in CtlSet /\ k.left > 0 /\ k.pc = "none" /\ k = ctl[c]
  BY WorldEntries, WorldIs DEF Open
<1>2. "greet" \in Pcs /\ k.left - 1 \in 0..Commands
  BY <1>1, PcNames, CtlFields, SizesAssumption
<1>3. Gone(k.left - 1) \in CtlSet
  BY <1>2, GoneFields
<1>4. l \in CtlSet
  BY <1>2, <1>3, GoesToFields
<1>5. [Gone(ctl[c].left - 1) EXCEPT !.pc = "greet"] = l
  <2>1. [Gone(k.left - 1) EXCEPT !.pc = "greet"] = GoesTo(Gone(k.left - 1), "greet")
    BY <1>3, GoesPut
  <2> QED BY <1>1, <2>1
<1>6. ctl' = [w.ctl EXCEPT ![c] = l]
  BY <1>5, WorldIs DEF Open
<1>7. World' = Tables(w.st, w.ls, w.cn, [w.ctl EXCEPT ![c] = l], w.bad)
  BY <1>6, WorldIs DEF World, Tables, Open
<1> HIDE DEF l, w
<1>8. PutCtl(w, c, l) = Tables(w.st, w.ls, w.cn, [w.ctl EXCEPT ![c] = l], w.bad)
  BY WorldsIs DEF PutCtl, Tables, w
<1>9. CtlOnly(World', w, c, l)
  BY <1>4, <1>7, <1>8, PutCtlFacts DEF w
<1> QED BY <1>1, <1>9 DEF Open, w, l

LEMMA ControlPollStep ==
  ASSUME World \in Worlds, NEW c \in Clients, ControlPoll(c)
  PROVE  Turned(World', World, c) /\ lastport' = lastport /\ lost' = lost
<1>1. Turned(Resume(World, c), World, c)
  BY ResumeCases
<1>2. Resume(World, c) \in Worlds
  BY <1>1, TurnedIn
<1>3. Becomes(Resume(World, c))
  BY DEF ControlPoll
<1>4. World' = Resume(World, c)
  BY <1>2, <1>3, BecomesIs
<1> QED BY <1>1, <1>4 DEF ControlPoll

LEMMA ControlAckedStep ==
  ASSUME World \in Worlds, NEW c \in Clients, ControlAcked(c)
  PROVE  Answers(World', World, c) /\ lastport' = lastport /\ lost' = lost
<1>1. Answers(Acked(World, c), World, c)
  BY AckedCases, WorldIs DEF ControlAcked
<1>2. Acked(World, c) \in Worlds
  BY <1>1, AnswersIn
<1>3. Becomes(Acked(World, c))
  BY DEF ControlAcked
<1>4. World' = Acked(World, c)
  BY <1>2, <1>3, BecomesIs
<1> QED BY <1>1, <1>4 DEF ControlAcked

\* No connection of a client is open.
NoneLingers(w, c) ==
  \A b \in Blocks : w.cn[b].who = c => w.cn[b].st \in Done

LEMMA PasvStep ==
  ASSUME World \in Worlds, NEW c \in Clients, Pasv(c)
  PROVE  LET k == World.ctl[c]
         IN /\ k.pc = "read" /\ k.left > 0 /\ NoneLingers(World, c)
            /\ \E u \in Worlds : /\ CtlOnly(u, World, c, GoesTo(Spent(k), "pasv"))
                                 /\ Turned(World', u, c)
            /\ lastport' = lastport /\ lost' = lost
<1> DEFINE k == World.ctl[c]
           u == At(Reading(c), c, "pasv")
           v == Resume(u, c)
<1>1. k \in CtlSet /\ k.left > 0 /\ k.pc = "read"
  BY WorldEntries, WorldIs DEF Pasv, MayCommand
<1>2. CtlOnly(Reading(c), World, c, Spent(k))
  BY <1>1, ReadingFacts, WorldIs
<1>3. CtlOnly(u, Reading(c), c, GoesTo(Spent(k), "pasv"))
  <2>1. Reading(c) \in Worlds /\ Reading(c).ctl[c] = Spent(k) /\ "pasv" \in Pcs
    BY <1>2, PcNames DEF CtlOnly
  <2> QED BY <2>1, GoesFacts
<1>4. Becomes(v)
  BY DEF Pasv
<1> HIDE DEF u
<1>5. CtlOnly(u, World, c, GoesTo(Spent(k), "pasv"))
  BY <1>2, <1>3 DEF CtlOnly
<1>6. u \in Worlds
  BY <1>5 DEF CtlOnly
<1>7. Turned(v, u, c)
  BY <1>6, ResumeCases
<1>8. v \in Worlds
  BY <1>6, <1>7, TurnedIn
<1>9. World' = v
  BY <1>4, <1>8, BecomesIs
<1>10. NoneLingers(World, c)
  BY WorldIs DEF Pasv, Lingering, NoneLingers
<1> QED BY <1>1, <1>5, <1>6, <1>7, <1>9, <1>10 DEF Pasv

\* The client has opened its data connection.
OpenedIn(w, c) ==
  \E b \in Blocks :
    /\ w.cn[b].who = c /\ w.cn[b].port = w.ctl[c].port
    /\ w.cn[b].st = "ESTABLISHED" \/ (HandshakeLag /\ w.cn[b].st = "SYN_RCVD")

LEMMA MayTransferIs ==
  ASSUME NEW c \in Clients, MayTransfer(c)
  PROVE  LET k == World.ctl[c]
         IN k.pc = "read" /\ k.left > 0 /\ k.ready /\ OpenedIn(World, c)
BY WorldIs DEF MayTransfer, MayCommand, Opened, OpenedIn

LEMMA ListStep ==
  ASSUME World \in Worlds, NEW c \in Clients, List(c)
  PROVE  LET k == World.ctl[c]
         IN /\ k.pc = "read" /\ k.left > 0 /\ k.ready /\ OpenedIn(World, c)
            /\ \E u \in Worlds : /\ CtlOnly(u, World, c, GoesTo(Spent(k), "connList"))
                                 /\ Turned(World', u, c)
            /\ lastport' = lastport /\ lost' = lost
<1> DEFINE k == World.ctl[c]
           u == At(Reading(c), c, "connList")
           v == Resume(u, c)
<1>1. k \in CtlSet /\ k.pc = "read" /\ k.left > 0 /\ k.ready /\ OpenedIn(World, c)
  BY WorldEntries, MayTransferIs DEF List
<1>2. CtlOnly(Reading(c), World, c, Spent(k))
  BY <1>1, ReadingFacts, WorldIs
<1>3. CtlOnly(u, Reading(c), c, GoesTo(Spent(k), "connList"))
  <2>1. Reading(c) \in Worlds /\ Reading(c).ctl[c] = Spent(k) /\ "connList" \in Pcs
    BY <1>2, PcNames DEF CtlOnly
  <2> QED BY <2>1, GoesFacts
<1>4. Becomes(v)
  BY DEF List
<1> HIDE DEF u
<1>5. CtlOnly(u, World, c, GoesTo(Spent(k), "connList"))
  BY <1>2, <1>3 DEF CtlOnly
<1>6. u \in Worlds
  BY <1>5 DEF CtlOnly
<1>7. Turned(v, u, c)
  BY <1>6, ResumeCases
<1>8. v \in Worlds
  BY <1>6, <1>7, TurnedIn
<1>9. World' = v
  BY <1>4, <1>8, BecomesIs
<1> QED BY <1>1, <1>5, <1>6, <1>7, <1>9 DEF List

LEMMA AsksFrom ==
  ASSUME NEW w \in Worlds, NEW r, NEW v, NEW c \in Clients, NEW req, NEW k, NEW l,
         CtlOnly(r, w, c, k), k.port = w.ctl[c].port, Asks(v, r, c, req, l)
  PROVE  Asks(v, w, c, req, l)
<1> DEFINE port == w.ctl[c].port
<1>1. r.st = w.st /\ r.ctl[c].port = port
  BY DEF CtlOnly
<1>2. (Has(r, port) <=> Has(w, port)) /\ SlotOf(r, port) = SlotOf(w, port)
  BY <1>1, HasSame
<1> HIDE DEF port
<1>3. CASE Has(w, port)
  <2>1. Asked(v, r, c, SlotOf(w, port), req, l)
    BY <1>1, <1>2, <1>3, SpoilsFacts DEF Asks
  <2>2. Asked(v, w, c, SlotOf(w, port), req, l)
    BY <1>1, <2>1 DEF Asked, CtlOnly, port
  <2> QED BY <1>3, <2>2 DEF Asks, port
<1>4. CASE ~Has(w, port)
  <2>1. Spoils(v, r, c, l)
    BY <1>1, <1>2, <1>4 DEF Asks
  <2>2. Spoils(v, w, c, l)
    BY <2>1 DEF Spoils, CtlOnly
  <2> QED BY <1>4, <2>2 DEF Asks, port
<1> QED BY <1>3, <1>4

LEMMA AsksReading ==
  ASSUME World \in Worlds, NEW c \in Clients, ctl[c].left > 0,
         NEW req \in Requests, NEW pc \in Pcs
  PROVE  Asks(At(Request(Reading(c), c, req), c, pc), World, c, req,
              GoesTo(Spent(World.ctl[c]), pc))
<1> DEFINE k == World.ctl[c]
<1>1. k \in CtlSet /\ k.left > 0
  BY WorldEntries, WorldIs
<1>2. CtlOnly(Reading(c), World, c, Spent(k)) /\ Spent(k).port = k.port
  BY <1>1, ReadingFacts, SpentFields
<1>3. Reading(c) \in Worlds /\ Reading(c).ctl[c] = Spent(k)
  BY <1>2 DEF CtlOnly
<1>4. Asks(At(Request(Reading(c), c, req), c, pc), Reading(c), c, req, GoesTo(Spent(k), pc))
  BY <1>3, AsksFacts
<1> QED BY <1>2, <1>4, AsksFrom

LEMMA RetrStep ==
  ASSUME World \in Worlds, NEW c \in Clients, Retr(c)
  PROVE  LET k == World.ctl[c]
         IN /\ k.pc = "read" /\ k.left > 0 /\ k.ready /\ OpenedIn(World, c)
            /\ \E u \in Worlds : /\ Asks(u, World, c, "Retr", GoesTo(Spent(k), "connRetr"))
                                 /\ Turned(World', u, c)
            /\ lastport' = lastport /\ lost' = lost
<1> DEFINE k == World.ctl[c]
           u == At(Request(Reading(c), c, "Retr"), c, "connRetr")
           v == Resume(u, c)
<1>1. k.pc = "read" /\ k.left > 0 /\ k.ready /\ OpenedIn(World, c)
  BY MayTransferIs DEF Retr
<1>2. Asks(u, World, c, "Retr", GoesTo(Spent(k), "connRetr"))
  BY <1>1, AsksReading, PcNames, WorldIs DEF Requests
<1>4. Becomes(v)
  BY DEF Retr
<1> HIDE DEF u
<1>6. u \in Worlds
  BY <1>2 DEF Asks, Asked, Spoils
<1>7. Turned(v, u, c)
  BY <1>6, ResumeCases
<1>8. v \in Worlds
  BY <1>6, <1>7, TurnedIn
<1>9. World' = v
  BY <1>4, <1>8, BecomesIs
<1> QED BY <1>1, <1>2, <1>6, <1>7, <1>9 DEF Retr

LEMMA StorStep ==
  ASSUME World \in Worlds, NEW c \in Clients, Stor(c)
  PROVE  LET k == World.ctl[c]
         IN /\ k.pc = "read" /\ k.left > 0 /\ k.ready /\ OpenedIn(World, c)
            /\ Asks(World', World, c, "Stor", GoesTo(Spent(k), "sentStor"))
            /\ lastport' = lastport /\ lost' = lost
<1> DEFINE k == World.ctl[c]
           v == At(Request(Reading(c), c, "Stor"), c, "sentStor")
<1>1. k.pc = "read" /\ k.left > 0 /\ k.ready /\ OpenedIn(World, c)
  BY MayTransferIs DEF Stor
<1>2. Asks(v, World, c, "Stor", GoesTo(Spent(k), "sentStor"))
  BY <1>1, AsksReading, PcNames, WorldIs DEF Requests
<1>4. Becomes(v)
  BY DEF Stor
<1> HIDE DEF v
<1>6. v \in Worlds
  BY <1>2 DEF Asks, Asked, Spoils
<1>9. World' = v
  BY <1>4, <1>6, BecomesIs
<1> QED BY <1>1, <1>2, <1>9 DEF Stor

LEMMA QuitStep ==
  ASSUME World \in Worlds, NEW c \in Clients, Quit(c)
  PROVE  LET k == World.ctl[c]
         IN /\ k.pc = "read" /\ k.left > 0
            /\ \E pc \in {"closing", "quit"} : CtlOnly(World', World, c, GoesTo(Spent(k), pc))
            /\ lastport' = lastport /\ lost' = lost
<1> DEFINE k == World.ctl[c]
           pc == IF ctl[c].code = 0 THEN "closing" ELSE "quit"
           v == At(Reading(c), c, pc)
<1>1. k \in CtlSet /\ k.pc = "read" /\ k.left > 0
  BY WorldEntries, WorldIs DEF Quit, MayCommand
<1>2. CtlOnly(Reading(c), World, c, Spent(k))
  BY <1>1, ReadingFacts, WorldIs
<1>3. pc \in {"closing", "quit"} /\ pc \in Pcs
  BY PcNames
<1>4. Becomes(v)
  BY DEF Quit
<1> HIDE DEF pc
<1>5. CtlOnly(v, Reading(c), c, GoesTo(Spent(k), pc))
  <2>1. Reading(c) \in Worlds /\ Reading(c).ctl[c] = Spent(k)
    BY <1>2, PcNames DEF CtlOnly
  <2> QED BY <2>1, <1>3, GoesFacts
<1> HIDE DEF v
<1>6. CtlOnly(v, World, c, GoesTo(Spent(k), pc))
  BY <1>2, <1>5 DEF CtlOnly
<1>7. World' = v
  BY <1>6, <1>4, BecomesIs DEF CtlOnly
<1> QED BY <1>1, <1>3, <1>6, <1>7 DEF Quit

\* A command that is only replied to.
Replied(k) == GoesTo([[k EXCEPT !.left = k.left - 1] EXCEPT !.code = 200], "result")

LEMMA RepliedFields ==
  ASSUME NEW k \in CtlSet, k.left > 0
  PROVE  /\ [k EXCEPT !.left = k.left - 1] \in CtlSet
         /\ [[k EXCEPT !.left = k.left - 1] EXCEPT !.code = 200] \in CtlSet
         /\ Replied(k) \in CtlSet
         /\ Replied(k).pc = "result" /\ Replied(k).port = k.port /\ Replied(k).code = 200
         /\ Replied(k).ready = k.ready /\ Replied(k).moved = k.moved
         /\ Replied(k).left = k.left - 1
<1>1. k.left - 1 \in 0..Commands /\ "result" \in Pcs
  BY CtlFields, SizesAssumption, PcNames
<1> DEFINE x == [k EXCEPT !.left = k.left - 1]
           y == [x EXCEPT !.code = 200]
<1>2. /\ x \in CtlSet /\ x.pc = k.pc /\ x.port = k.port /\ x.ready = k.ready
      /\ x.moved = k.moved /\ x.left = k.left - 1
  BY <1>1, CtlSetIs
<1> HIDE DEF x
<1> PICK m \in Replies : m = 200
  BY DEF Replies
<1>3. /\ y \in CtlSet /\ y.pc = k.pc /\ y.port = k.port /\ y.code = 200
      /\ y.left = k.left - 1 /\ y.ready = k.ready /\ y.moved = k.moved
  BY <1>2, CtlSetIs
<1> HIDE DEF y
<1>4. GoesTo(y, "result") \in CtlSet /\ GoesTo(y, "result").pc = "result"
      /\ GoesTo(y, "result").port = k.port /\ GoesTo(y, "result").code = 200
      /\ GoesTo(y, "result").ready = k.ready /\ GoesTo(y, "result").moved = k.moved
      /\ GoesTo(y, "result").left = k.left - 1
  BY <1>1, <1>3, GoesToFields
<1> QED BY <1>2, <1>3, <1>4 DEF Replied, x, y

LEMMA OtherStep ==
  ASSUME World \in Worlds, NEW c \in Clients, Other(c)
  PROVE  LET k == World.ctl[c]
         IN /\ k.pc = "read" /\ k.left > 0
            /\ CtlOnly(World', World, c, Replied(k))
            /\ lastport' = lastport /\ lost' = lost
<1> DEFINE k == World.ctl[c]
           x == [k EXCEPT !.left = k.left - 1]
           y == [x EXCEPT !.code = 200]
           u == PutCtl(World, c, x)
           v == PutCtl(u, c, y)
           w == At(v, c, "result")
<1>1. k \in CtlSet /\ k.left > 0 /\ k.pc = "read"
  BY WorldEntries, WorldIs DEF Other, MayCommand
<1>2. x \in CtlSet /\ y \in CtlSet
  BY <1>1, RepliedFields
<1>3. Becomes(At([[World EXCEPT !.ctl[c].left = @ - 1] EXCEPT !.ctl[c].code = 200], c, "result"))
  BY DEF Other
<1>4. [World EXCEPT !.ctl[c].left = @ - 1] = u
  BY DEF PutCtl
<1>5. CtlOnly(u, World, c, x)
  BY <1>2, PutCtlFacts
<1> HIDE DEF u, x
<1>6. u \in Worlds /\ u.ctl[c] = x
  BY <1>5 DEF CtlOnly
<1>7. [u EXCEPT !.ctl[c].code = 200] = v
  BY <1>6 DEF PutCtl
<1>8. CtlOnly(v, u, c, y)
  BY <1>2, <1>6, PutCtlFacts
<1> HIDE DEF v, y
<1>9. v \in Worlds /\ v.ctl[c] = y
  BY <1>8 DEF CtlOnly
<1>10. CtlOnly(w, v, c, GoesTo(y, "result"))
  BY <1>9, GoesFacts, PcNames
<1>11. Becomes(w)
  BY <1>3, <1>4, <1>7
<1> HIDE DEF w
<1>12. CtlOnly(w, World, c, GoesTo(y, "result"))
  BY <1>5, <1>8, <1>10 DEF CtlOnly
<1>13. World' = w
  BY <1>11, <1>12, BecomesIs DEF CtlOnly
<1>14. GoesTo(y, "result") = Replied(k)
  BY DEF Replied, x, y
<1> QED BY <1>1, <1>12, <1>13, <1>14 DEF Other

LEMMA EndStep ==
  ASSUME World \in Worlds, NEW c \in Clients, End(c)
  PROVE  LET k == World.ctl[c]
         IN /\ k.pc # "none"
            /\ \E u \in Worlds :
                 /\ Turned(u, World, c) \/ Answers(u, World, c)
                 /\ Freed(World', u, c, IF k.pc = "closing" THEN 0 ELSE u.ctl[c].port,
                          Gone(k.left))
            /\ lastport' = lastport /\ lost' = lost
<1> DEFINE k == World.ctl[c]
<1>1. k \in CtlSet /\ k = ctl[c] /\ k.pc # "none"
  BY WorldEntries, WorldIs DEF End
<1>2. Turned(Resume(World, c), World, c)
  BY ResumeCases
<1>3. ctl[c].pc \in Sending => Answers(Acked(World, c), World, c)
  BY AckedCases, WorldIs
<1>4. PICK u \in {Resume(World, c)} \union
                 (IF ctl[c].pc \in Sending THEN {Acked(World, c)} ELSE {}) :
        LET port == IF ctl[c].pc = "closing" THEN 0 ELSE u.ctl[c].port
        IN Becomes([Free(u, port) EXCEPT !.ctl[c] = Gone(ctl[c].left)])
  BY DEF End
<1>5. Turned(u, World, c) \/ Answers(u, World, c)
  BY <1>2, <1>3, <1>4
<1>6. u \in Worlds
  BY <1>5, TurnedIn, AnswersIn
<1> DEFINE port == IF k.pc = "closing" THEN 0 ELSE u.ctl[c].port
           f == Free(u, port)
           g == Gone(k.left)
           v == PutCtl(f, c, g)
<1>7. Becomes([f EXCEPT !.ctl[c] = g])
  BY <1>4, <1>1
<1> HIDE DEF port
<1>8. g \in CtlSet
  BY <1>1, CtlFields, GoneFields
<1>9. f \in Worlds
  BY <1>6, FreeFacts
<1>10. /\ Has(u, port) => StateOnly(f, u, SlotOf(u, port), Null)
       /\ ~Has(u, port) => f = u
  BY <1>6, FreeFacts
<1>11. [f EXCEPT !.ctl[c] = g] = v
  BY DEF PutCtl
<1> HIDE DEF f
<1>12. CtlOnly(v, f, c, g)
  BY <1>8, <1>9, PutCtlFacts
<1>13. World' = v
  BY <1>7, <1>11, <1>12, BecomesIs DEF CtlOnly
<1> HIDE DEF v
<1>14. Freed(v, u, c, port, g)
  <2>1. Has(u, port) => /\ SlotOf(u, port) \in Slots /\ u.st[SlotOf(u, port)] # Null
                        /\ u.st[SlotOf(u, port)].port = port
    BY <1>6, SlotFacts
  <2>2. CASE Has(u, port)
    BY <2>1, <2>2, <1>8, <1>10, <1>12 DEF Freed, StateOnly, CtlOnly
  <2>3. CASE ~Has(u, port)
    BY <2>3, <1>8, <1>10, <1>12 DEF Freed, CtlOnly
  <2> QED BY <2>2, <2>3
<1> QED BY <1>1, <1>5, <1>6, <1>13, <1>14 DEF End, port

LEMMA NewBlocksFacts ==
  ASSUME NEW cn, NEW b \in NewBlocks(cn)
  PROVE  b \in Blocks /\ cn[b].st \in {"CLOSED", "TIME_WAIT"}
<1> DEFINE closed == {d \in Blocks : cn[d].st = "CLOSED"}
<1>1. CASE closed # {}
  <2>1. closed \in SUBSET Nat /\ IsFiniteSet(closed)
    BY SlotsAreNumbers, FS_Subset
  <2>2. Min(closed) \in closed
    BY <1>1, <2>1, LeastOf
  <2> QED BY <1>1, <2>2 DEF NewBlocks
<1>2. CASE closed = {}
  BY <1>2 DEF NewBlocks
<1> QED BY <1>1, <1>2

\* What a client is told after PORT.
AtPort(k, p) == Control(k.pc, p, k.code, k.ready, k.moved, k.left)
Told(k, p) == GoesTo([Ready(AtPort(k, p)) EXCEPT !.code = 200], "result")

\* l is k after PORT for the port p.
ToldOf(l, k, p) ==
  /\ l \in CtlSet /\ l.pc = "result" /\ l.port = p /\ l.code = 200
  /\ l.ready = TRUE /\ l.moved = k.moved /\ l.left = k.left

LEMMA ToldFields ==
  ASSUME NEW k \in CtlSet, NEW p \in Ports
  PROVE  /\ AtPort(k, p) \in CtlSet /\ Ready(AtPort(k, p)) \in CtlSet
         /\ [Ready(AtPort(k, p)) EXCEPT !.code = 200] \in CtlSet
         /\ ToldOf(Told(k, p), k, p)
<1> DEFINE a == AtPort(k, p)
           r == Ready(a)
           s == [r EXCEPT !.code = 200]
<1>1. /\ a \in CtlSet /\ a.pc = k.pc /\ a.port = p /\ a.moved = k.moved /\ a.left = k.left
  BY CtlFields, ControlFields DEF AtPort
<1> HIDE DEF a
<1>2. /\ r \in CtlSet /\ r.pc = k.pc /\ r.port = p /\ r.moved = k.moved /\ r.left = k.left
      /\ r.ready = TRUE
  BY <1>1, ReadyFields
<1> HIDE DEF r
<1> PICK m \in Replies : m = 200
  BY DEF Replies
<1>3. /\ s \in CtlSet /\ s.pc = k.pc /\ s.port = p /\ s.moved = k.moved /\ s.left = k.left
      /\ s.ready = TRUE /\ s.code = 200
  BY <1>2, CtlSetIs
<1> HIDE DEF s
<1>4. ToldOf(GoesTo(s, "result"), k, p)
  BY <1>3, GoesToFields, PcNames DEF ToldOf
<1> QED BY <1>1, <1>2, <1>3, <1>4 DEF Told, a, r, s

\* A connection to the client, and then a state for it.
Dials(v, w, c, p) ==
  \E b \in Blocks, r, u \in Worlds, i \in Slots :
    /\ w.cn[b].st \in {"CLOSED", "TIME_WAIT"}
    /\ CtlOnly(r, w, c, Spent(w.ctl[c]))
    /\ BlockOnly(u, r, b, Block("SYN_SENT", p, FALSE, c))
    /\ Begun(v, u, c, i, p, Told(Spent(w.ctl[c]), p))

LEMMA SynSentIn ==
  ASSUME NEW p \in Ports, NEW c \in Clients
  PROVE  /\ Block("SYN_SENT", p, FALSE, c) \in BlockSet
         /\ Block("SYN_RCVD", p, FALSE, c) \in BlockSet
BY DEF Block, BlockSet

LEMMA PortStep ==
  ASSUME World \in Worlds, NEW c \in Clients, Port(c), lastport + 1 \in StatePorts
  PROVE  LET k == World.ctl[c]
         IN /\ k.pc = "read" /\ k.left > 0 /\ NoneLingers(World, c)
            /\ \/ /\ NewBlocks(World.cn) = {} /\ Spoils(World', World, c, Spent(k))
               \/ Dials(World', World, c, lastport + 1)
            /\ lastport' = lastport + 1 /\ lost' = lost
<1> DEFINE k == World.ctl[c]
           r == Reading(c)
           p == lastport + 1
<1>1. k \in CtlSet /\ k.left > 0 /\ k.pc = "read" /\ NoneLingers(World, c)
  BY WorldEntries, WorldIs DEF Port, MayCommand, Lingering, NoneLingers
<1>2. CtlOnly(r, World, c, Spent(k)) /\ Spent(k) \in CtlSet
  BY <1>1, ReadingFacts, WorldIs, SpentFields
<1>3. r \in Worlds /\ r.ctl[c] = Spent(k) /\ r.cn = World.cn
  BY <1>2 DEF CtlOnly
<1>4. CASE NewBlocks(conns) = {}
  <2>1. Becomes(PutBad(r))
    BY <1>4 DEF Port, PutBad
  <2> HIDE DEF r
  <2>2. PutBad(r) \in Worlds
    BY <1>3, PutBadFacts
  <2>3. World' = PutBad(r)
    BY <2>1, <2>2, BecomesIs
  <2>4. Spoils(World', World, c, Spent(k))
    BY <2>3, <1>2, <1>3, PutBadFacts DEF Spoils, CtlOnly
  <2> QED BY <1>1, <1>4, <2>4, WorldIs DEF Port
<1>5. CASE NewBlocks(conns) # {}
  <2>1. PICK b \in NewBlocks(conns) :
          LET w == Collect([r EXCEPT
                      !.cn[b] = [st |-> "SYN_SENT", port |-> lastport', out |-> FALSE, who |-> c]])
          IN /\ FreeSlots(w) # {}
             /\ Becomes(At([AllocIn(w, c, lastport') EXCEPT !.ctl[c].ready = TRUE,
                                                             !.ctl[c].code = 200],
                           c, "result"))
    BY <1>5 DEF Port
  <2>2. b \in Blocks /\ World.cn[b].st \in {"CLOSED", "TIME_WAIT"}
    BY NewBlocksFacts, WorldIs
  <2> DEFINE x == Block("SYN_SENT", p, FALSE, c)
             u == PutBlock(r, b, x)
             w == Collect(u)
             a == AllocIn(w, c, p)
             a1 == PutCtl(a, c, Ready(a.ctl[c]))
             a2 == PutCtl(a1, c, [a1.ctl[c] EXCEPT !.code = 200])
             v == At(a2, c, "result")
  <2>3. lastport' = p
    BY DEF Port
  <2>4. [r EXCEPT !.cn[b] = [st |-> "SYN_SENT", port |-> lastport', out |-> FALSE, who |-> c]]
          = u
    BY <2>3 DEF PutBlock, Block
  <2> HIDE DEF u
  <2>5. /\ FreeSlots(w) # {}
        /\ Becomes(At([[a EXCEPT !.ctl[c].ready = TRUE] EXCEPT !.ctl[c].code = 200], c, "result"))
    BY <2>1, <2>3, <2>4
  <2>6. p \in StatePorts /\ p \in Ports /\ p # 0
    BY DEF StatePorts
  <2> HIDE DEF p, w, r
  <2>7. x \in BlockSet
    BY <2>6, SynSentIn
  <2> HIDE DEF x
  <2>8. BlockOnly(u, r, b, x) /\ u \in Worlds
    BY <1>3, <2>2, <2>7, PutBlockFacts DEF u, BlockOnly
  <2>9. SweepOnly(w, u) /\ w \in Worlds
    BY <2>8, CollectFacts DEF w, SweepOnly
  <2>10. PICK i \in Slots, q \in StatePorts :
           q = p /\ AllocOnly(a, w, c, i, q)
    BY <2>5, <2>6, <2>9, AllocFacts
  <2>11. [a EXCEPT !.ctl[c].ready = TRUE] = a1
    BY DEF PutCtl, Ready
  <2> HIDE DEF a
  <2>12. a \in Worlds
    BY <2>10 DEF AllocOnly
  <2>13. w.ctl[c] = Spent(k)
    BY <1>3, <2>8, <2>9 DEF BlockOnly, SweepOnly
  <2>14. a.ctl[c] = AtPort(Spent(k), p)
    BY <2>10, <2>13 DEF AllocOnly, AtPort
  <2>15. Ready(a.ctl[c]) \in CtlSet
    BY <2>14, <2>6, <1>2, ToldFields
  <2>16. CtlOnly(a1, a, c, Ready(a.ctl[c]))
    BY <2>12, <2>15, PutCtlFacts
  <2> HIDE DEF a1
  <2>17. a1 \in Worlds /\ a1.ctl[c] = Ready(AtPort(Spent(k), p))
    BY <2>14, <2>16 DEF CtlOnly
  <2>18. [a1 EXCEPT !.ctl[c].code = 200] = a2
    BY DEF PutCtl
  <2>19. [a1.ctl[c] EXCEPT !.code = 200] \in CtlSet
    BY <2>17, <2>6, <1>2, ToldFields
  <2>20. CtlOnly(a2, a1, c, [a1.ctl[c] EXCEPT !.code = 200])
    BY <2>17, <2>19, PutCtlFacts
  <2> HIDE DEF a2
  <2>21. a2 \in Worlds /\ a2.ctl[c] = [Ready(AtPort(Spent(k), p)) EXCEPT !.code = 200]
    BY <2>17, <2>20 DEF CtlOnly
  <2>22. CtlOnly(v, a2, c, Told(Spent(k), p))
    BY <2>21, GoesFacts, PcNames DEF Told
  <2>23. Becomes(v)
    BY <2>5, <2>11, <2>18
  <2> HIDE DEF v
  <2>24. World' = v
    BY <2>22, <2>23, BecomesIs DEF CtlOnly
  <2>25. Begun(v, u, c, i, p, Told(Spent(k), p))
    BY <2>9, <2>10, <2>16, <2>20, <2>22 DEF Begun, SweepOnly, AllocOnly, CtlOnly
  <2>26. Dials(v, World, c, p)
    BY <2>2, <1>2, <1>3, <2>8, <2>25 DEF Dials, x
  <2> QED BY <1>1, <2>24, <2>26 DEF Port, p
<1> QED BY <1>4, <1>5

\* A connection of the client comes in.
Calls(v, w, c) ==
  \E b \in Blocks :
    /\ w.cn[b].st \in {"CLOSED", "TIME_WAIT"}
    /\ BlockOnly(v, w, b, Block("SYN_RCVD", w.ctl[c].port, FALSE, c))

LEMMA SynStep ==
  ASSUME World \in Worlds, NEW c \in Clients, Syn(c)
  PROVE  /\ World.ctl[c].ready
         /\ \A b \in Blocks : World.cn[b].who = c /\ World.cn[b].port = World.ctl[c].port
                                => World.cn[b].st # "ESTABLISHED"
         /\ \A b \in Blocks : World.cn[b].who = c => World.cn[b].st # "SYN_RCVD"
         /\ FTPD_BASE_DATA_PORT =< World.ctl[c].port
         /\ Calls(World', World, c)
         /\ lastport' = lastport /\ lost' = lost
<1> DEFINE w == World
<1>1. PICK b \in NewBlocks(conns) :
        conns' = [conns EXCEPT ![b] =
          [st |-> "SYN_RCVD", port |-> ctl[c].port, out |-> FALSE, who |-> c]]
  BY DEF Syn
<1>2. b \in Blocks /\ w.cn[b].st \in {"CLOSED", "TIME_WAIT"}
  BY NewBlocksFacts, WorldIs
<1> DEFINE x == Block("SYN_RCVD", w.ctl[c].port, FALSE, c)
<1>3. x \in BlockSet
  BY SynSentIn, WorldEntries, CtlFields
<1>4. World' = Tables(w.st, w.ls, [w.cn EXCEPT ![b] = x], w.ctl, w.bad)
  BY <1>1, WorldIs DEF World, Tables, Syn, Block
<1> HIDE DEF w, x
<1>5. PutBlock(w, b, x) = Tables(w.st, w.ls, [w.cn EXCEPT ![b] = x], w.ctl, w.bad)
  BY WorldsIs DEF PutBlock, Tables, w
<1>6. BlockOnly(World', w, b, x)
  BY <1>2, <1>3, <1>4, <1>5, PutBlockFacts DEF w
<1>7. Calls(World', World, c)
  BY <1>2, <1>6 DEF Calls, w, x
<1>8. /\ World.ctl[c].ready
      /\ \A d \in Blocks : World.cn[d].who = c /\ World.cn[d].port = World.ctl[c].port
                             => World.cn[d].st # "ESTABLISHED"
      /\ \A d \in Blocks : World.cn[d].who = c => World.cn[d].st # "SYN_RCVD"
      /\ lastport' = lastport /\ lost' = lost
  BY WorldIs DEF Syn, Opened
<1>9. FTPD_BASE_DATA_PORT =< World.ctl[c].port
  <2>1. World.ctl[c].port \in Nat /\ FTPD_BASE_DATA_PORT \in Nat
    BY WorldEntries, CtlFields, SlotsAreNumbers
  <2> QED BY <2>1, WorldIs DEF Syn
<1> QED BY <1>7, <1>8, <1>9

-----------------------------------------------------------------------------
(* The callbacks of a data connection.                                      *)

\* A data state after a turn and what follows it; "all" says that the transfer
\* became complete.
AfterTurn(z, s, flags, all) ==
  /\ z \in StateSet /\ z.port = s.port /\ z.owner = s.owner
  /\ \/ /\ s.at # "yield" /\ "CLOSE" \notin flags
        /\ z.req = s.req /\ z.busy = s.busy /\ z.closed = s.closed /\ z.connected = s.connected
     \/ /\ s.at = "yield" \/ "CLOSE" \in flags
        /\ z.req = "Quit" /\ z.busy = FALSE /\ z.closed = TRUE /\ z.connected = FALSE
  /\ z.at \in {"send", "store"} => Uses(s)
  /\ s.at = "wait" /\ s.req = "Wait" => z.at = "wait"
  /\ z.at = "yield" => all \/ z.code = 452 \/ s.req = "Quit"
  /\ s.code = 452 => z.code = 452
  /\ all => Uses(s)

LEMMA TurnIs ==
  ASSUME NEW s, NEW x, NEW y
  PROVE  Turn(s, x, y).s = s /\ Turn(s, x, y).sends = x /\ Turn(s, x, y).over = y
BY DEF Turn

\* Whether a turn ends its transfer.
Ends == {"no", "all", "short"}
Over(t) == t.over # "no"

\* The turn waits at another place and has perhaps a code.
WaitsOn(t, s) ==
  \E a \in Places, q \in Codes, f \in Fills :
    /\ t.s = Waits(s, a, q, f) /\ t.over \in Ends
    /\ q = s.code \/ q = 452
    /\ a \in {"send", "store"} => Uses(s)
    /\ s.at = "wait" /\ s.req = "Wait" => a = "wait"
    /\ a = "yield" => Over(t) \/ q = 452 \/ s.req = "Quit"
    /\ Over(t) => Uses(s)

LEMMA WaitsAgain ==
  ASSUME NEW s \in StateSet, NEW a \in Places, NEW q \in Codes, NEW f \in Fills,
         NEW d \in Places, NEW r \in Codes, NEW g \in Fills
  PROVE  /\ Waits(Waits(s, a, q, f), d, r, g) = Waits(s, d, r, g)
         /\ Waits(s, s.at, s.code, s.fill) = s
BY StateSetIs DEF Waits

LEMMA PlaceNames ==
  /\ Places = {"wait", "send", "store", "yield"}
  /\ StateReqs = {"Wait", "List", "Stor", "Retr", "Quit"}
  /\ Codes = {226, 452} /\ Requests = {"List", "Retr", "Stor"}
BY DEF Places, StateReqs, Codes, Requests

\* A turn that goes on to wait at a, with code q.
LEMMA MovesTo ==
  ASSUME NEW s \in StateSet, NEW a \in Places, NEW q \in Codes, NEW f \in Fills, NEW x,
         NEW y \in Ends, q = s.code \/ q = 452,
         a \in {"send", "store"} \/ y # "no" => Uses(s),
         s.at = "wait" /\ s.req = "Wait" => a = "wait",
         a = "yield" => y # "no" \/ q = 452 \/ s.req = "Quit"
  PROVE  WaitsOn(Turn(Waits(s, a, q, f), x, y), s)
BY TurnIs DEF WaitsOn, Over

\* A turn that goes on to wait where it was, with f in the buffer.
LEMMA StaysThere ==
  ASSUME NEW s \in StateSet, s.at # "yield", NEW f \in Fills, NEW x
  PROVE  WaitsOn(Turn(Waits(s, s.at, s.code, f), x, "no"), s)
<1>1. s.at \in Places /\ s.code \in Codes
  BY StateFields
<1>2. s.at \in {"send", "store"} => Uses(s)
  BY DEF Uses
<1>3. PICK a \in Places, q \in Codes, no \in Ends : a = s.at /\ q = s.code /\ no = "no"
  BY <1>1 DEF Ends
<1>4. WaitsOn(Turn(Waits(s, a, q, f), x, no), s)
  <2>1. /\ a \in {"send", "store"} \/ no # "no" => Uses(s)
        /\ s.at = "wait" /\ s.req = "Wait" => a = "wait"
        /\ q = s.code \/ q = 452
        /\ a = "yield" => no # "no" \/ q = 452 \/ s.req = "Quit"
    BY <1>2, <1>3
  <2> QED BY <2>1, MovesTo
<1> QED BY <1>3, <1>4

LEMMA StaysSo ==
  ASSUME NEW s \in StateSet, s.at # "yield", NEW x
  PROVE  WaitsOn(Turn(s, x, "no"), s)
<1>1. s.at \in Places /\ s.code \in Codes /\ s.fill \in Fills
  BY StateFields
<1>2. s = Waits(s, s.at, s.code, s.fill)
  BY <1>1, WaitsAgain
<1>3. WaitsOn(Turn(Waits(s, s.at, s.code, s.fill), x, "no"), s)
  BY <1>1, StaysThere
<1> QED BY <1>2, <1>3

LEMMA FailsThere ==
  ASSUME NEW s \in StateSet, s.at = "wait" => s.req # "Wait"
  PROVE  WaitsOn(Failed(s), s)
<1> PICK no \in Ends : no = "no"
  BY DEF Ends
<1> PICK a \in Places, q \in Codes : a = "yield" /\ q = 452
  BY PlaceNames
<1>0. s.fill \in Fills
  BY StateFields
<1>1. Failed(s) = Turn(Waits(s, a, q, s.fill), FALSE, no)
  <2>1. [s EXCEPT !.code = q, !.at = a] = Waits(s, a, q, s.fill)
    BY ONLY StateSetIs, s \in StateSet, a \in Places, q \in Codes DEF Waits
  <2> QED BY <2>1 DEF Failed
<1>2. \A x : WaitsOn(Turn(Waits(s, a, q, s.fill), x, no), s)
  <2> PICK f \in Fills : f = s.fill
    BY <1>0
  <2> SUFFICES ASSUME NEW x PROVE WaitsOn(Turn(Waits(s, a, q, f), x, no), s)
    OBVIOUS
  <2>1. /\ a \in {"send", "store"} \/ no # "no" => Uses(s)
        /\ s.at = "wait" /\ s.req = "Wait" => a = "wait"
        /\ q = s.code \/ q = 452
        /\ a = "yield" => no # "no" \/ q = 452 \/ s.req = "Quit"
    OBVIOUS
  <2> QED BY <2>1, MovesTo
<1>3. WaitsOn(Turn(Waits(s, a, q, s.fill), FALSE, no), s)
  BY ONLY <1>2
<1> QED BY ONLY <1>1, <1>3

LEMMA GetsThrough ==
  ASSUME NEW s \in StateSet, Uses(s), s.at = "wait" => s.req # "Wait",
         NEW over \in {"all", "short"}
  PROVE  WaitsOn(Through(s, over), s)
<1> PICK a \in Places : a = "yield"
  BY PlaceNames
<1>1. Through(s, over) = Turn(Waits(s, a, s.code, s.fill), FALSE, over)
  BY WaitsAt DEF Through
<1>2. s.code \in Codes /\ s.fill \in Fills /\ over \in Ends /\ over # "no"
  BY StateFields DEF Ends
<1>3. WaitsOn(Turn(Waits(s, a, s.code, s.fill), FALSE, over), s)
  BY <1>2, MovesTo
<1> QED BY <1>1, <1>3

LEMMA GoesOn ==
  ASSUME NEW s \in StateSet, NEW a \in Places, s.at = "wait" => s.req # "Wait",
         a \in {"send", "store"} => Uses(s), a = "yield" => s.req = "Quit", NEW x
  PROVE  WaitsOn(Turn([s EXCEPT !.at = a], x, "no"), s)
<1> PICK no \in Ends : no = "no"
  BY DEF Ends
<1>1. Turn([s EXCEPT !.at = a], x, "no") = Turn(Waits(s, a, s.code, s.fill), x, no)
  BY WaitsAt
<1>2. s.code \in Codes /\ s.fill \in Fills
  BY StateFields
<1>3. WaitsOn(Turn(Waits(s, a, s.code, s.fill), x, no), s)
  BY <1>2, MovesTo
<1> QED BY <1>1, <1>3

\* What is in the buffer stays below its size.
LEMMA FillsOn ==
  ASSUME NEW f \in Fills, NEW flags, NEW n \in Bytes(flags)
  PROVE  (f + n) % INPUTBUF_SIZE \in Fills
<1>1. INPUTBUF_SIZE \in Nat /\ UIP_TCP_MSS \in 1..INPUTBUF_SIZE
  BY SizesAssumption
<1>2. n \in Nat
  BY <1>1 DEF Bytes
<1>3. f + n \in Nat /\ INPUTBUF_SIZE > 0
  BY <1>1, <1>2 DEF Fills
<1> QED BY <1>1, <1>3 DEF Fills

\* Storing goes on from where it was.
LEMMA StoreTurns ==
  ASSUME NEW s \in StateSet, s.at = "store", NEW flags, NEW t \in Store(s, flags)
  PROVE  WaitsOn(t, s)
<1>1. Uses(s) /\ s.fill \in Fills
  BY StateFields DEF Uses
<1>2. WaitsOn(Through(s, "all"), s) /\ WaitsOn(Through(s, "short"), s) /\ WaitsOn(Failed(s), s)
  BY <1>1, GetsThrough, FailsThere
<1>3. PICK n \in Bytes(flags) : t \in StoreBytes(s, n, flags)
  BY DEF Store
<1> DEFINE f == (s.fill + n) % INPUTBUF_SIZE
<1>4. f \in Fills
  BY <1>1, FillsOn
<1>5. WaitsOn(Turn([s EXCEPT !.fill = f], FALSE, "no"), s)
  <2>1. [s EXCEPT !.fill = f] = Waits(s, s.at, s.code, f)
    BY StateSetIs DEF Waits
  <2> HIDE DEF f
  <2>2. WaitsOn(Turn(Waits(s, s.at, s.code, f), FALSE, "no"), s)
    BY <1>4, StaysThere
  <2> QED BY <2>1, <2>2
<1>6. \/ t \in {Through(s, "all"), Through(s, "short"), Failed(s)}
      \/ t = Turn([s EXCEPT !.fill = f], FALSE, "no")
  BY <1>3 DEF StoreBytes
<1> QED BY <1>2, <1>5, <1>6

LEMMA SendTurns ==
  ASSUME NEW s \in StateSet, s.at = "send", NEW flags, NEW t \in SendMore(s, flags)
  PROVE  WaitsOn(t, s)
<1>1. Uses(s)
  BY DEF Uses
<1>2. WaitsOn(Through(s, "all"), s) /\ WaitsOn(Failed(s), s)
  BY <1>1, GetsThrough, FailsThere
<1>4. CASE "ACKDATA" \in flags
  <2>1. WaitsOn(Turn(s, TRUE, "no"), s)
    BY StaysSo
  <2> QED BY <1>2, <2>1, <1>4 DEF SendMore
<1>5. CASE "ACKDATA" \notin flags
  <2>1. t = Turn(s, "REXMIT" \in flags, "no")
    BY <1>5 DEF SendMore
  <2>2. WaitsOn(Turn(s, "REXMIT" \in flags, "no"), s)
    BY StaysSo
  <2> QED BY <2>1, <2>2
<1> QED BY <1>4, <1>5

LEMMA TurnCases ==
  ASSUME NEW s \in StateSet, NEW flags, NEW t \in DataTurns(s, flags)
  PROVE  IF s.at = "yield"
         THEN t.s = Waits(Closed(s), "wait", s.code, s.fill) /\ t.over = "no"
         ELSE WaitsOn(t, s)
<1>0. s.at \in {"wait", "send", "store", "yield"}
      /\ s.req \in {"Wait", "List", "Stor", "Retr", "Quit"}
  BY StateFields, PlaceNames
<1>1. CASE s.at = "yield"
  <2>1. t = Turn([Closed(s) EXCEPT !.at = "wait"], FALSE, "no")
    BY <1>1 DEF DataTurns
  <2>2. Closed(s) \in StateSet /\ Closed(s).code = s.code /\ Closed(s).fill = s.fill
        /\ "wait" \in Places
    BY ClosedFields, PlaceNames
  <2>3. [Closed(s) EXCEPT !.at = "wait"] = Waits(Closed(s), "wait", s.code, s.fill)
    BY <2>2, WaitsAt
  <2>4. t.s = [Closed(s) EXCEPT !.at = "wait"] /\ t.over = "no"
    <3> DEFINE e == [Closed(s) EXCEPT !.at = "wait"]
    <3>1. t = Turn(e, FALSE, "no")
      BY <2>1
    <3> HIDE DEF e
    <3>2. t.s = e /\ t.over = "no"
      BY <3>1 DEF Turn
    <3> QED BY <3>2 DEF e
  <2> QED BY <1>1, <2>3, <2>4
<1>2. CASE s.at = "send"
  <2>1. t \in SendMore(s, flags)
    BY <1>2 DEF DataTurns
  <2> QED BY <1>2, <2>1, SendTurns
<1>3. CASE s.at = "store"
  <2>1. t \in Store(s, flags)
    BY <1>3 DEF DataTurns
  <2> QED BY <1>3, <2>1, StoreTurns
<1>4. CASE s.at = "wait" /\ s.req = "Wait"
  <2>1. t = Turn(s, FALSE, "no")
    BY <1>4 DEF DataTurns
  <2> QED BY <1>4, <2>1, StaysSo
<1>5. CASE s.at = "wait" /\ s.req = "Quit"
  <2>1. t = Turn([s EXCEPT !.at = "yield"], FALSE, "no")
    BY <1>5 DEF DataTurns, Through
  <2>2. PICK a \in Places : a = "yield"
    BY PlaceNames
  <2>3. WaitsOn(Turn([s EXCEPT !.at = a], FALSE, "no"), s)
    BY <1>5, <2>2, GoesOn
  <2> QED BY <1>5, <2>1, <2>2, <2>3
<1>6. CASE s.at = "wait" /\ s.req \in {"List", "Retr"}
  <2>1. t \in {Turn([s EXCEPT !.at = "send"], TRUE, "no"), Through(s, "all"), Failed(s)}
    BY <1>6 DEF DataTurns
  <2>2. PICK a \in Places : a = "send"
    BY PlaceNames
  <2>3. Uses(s)
    BY <1>6 DEF Uses, Requests
  <2>4. WaitsOn(Turn([s EXCEPT !.at = a], TRUE, "no"), s)
    BY <1>6, <2>2, <2>3, GoesOn
  <2>5. WaitsOn(Through(s, "all"), s) /\ WaitsOn(Failed(s), s)
    BY <1>6, <2>3, GetsThrough, FailsThere
  <2> QED BY <1>6, <2>1, <2>2, <2>4, <2>5
<1>7. CASE s.at = "wait" /\ s.req = "Stor"
  <2> DEFINE u == [s EXCEPT !.at = "store", !.fill = 0]
  <2>1. t \in {Failed(s)} \union Store(u, flags)
    BY <1>7 DEF DataTurns
  <2>2. PICK a \in Places : a = "store"
    BY PlaceNames
  <2>3. Uses(s)
    BY <1>7 DEF Uses, Requests
  <2>a. PICK e \in Fills : e = 0
    BY SizesAssumption DEF Fills
  <2>4. u = Waits(s, a, s.code, e) /\ s.code \in Codes
    BY <2>2, <2>a, StateFields, StateSetIs DEF Waits
  <2> HIDE DEF u
  <2>5. u \in StateSet /\ u.at = "store" /\ u.code = s.code /\ u.req = s.req
    BY <2>2, <2>4, WaitsFields
  <2>6. CASE t \in Store(u, flags)
    <3>1. WaitsOn(t, u)
      BY <2>5, <2>6, StoreTurns
    <3>2. PICK d \in Places, q \in Codes, f \in Fills :
            /\ t.s = Waits(u, d, q, f) /\ t.over \in Ends
            /\ q = u.code \/ q = 452
            /\ d = "yield" => Over(t) \/ q = 452 \/ u.req = "Quit"
      BY <3>1 DEF WaitsOn
    <3>3. t.s = Waits(s, d, q, f)
      BY <2>4, <3>2, WaitsAgain
    <3> QED BY <1>7, <2>3, <2>5, <3>2, <3>3 DEF WaitsOn
  <2>7. CASE t = Failed(s)
    <3>1. WaitsOn(Failed(s), s)
      BY <1>7, FailsThere
    <3> QED BY <1>7, <2>7, <3>1
  <2> QED BY <2>1, <2>6, <2>7
<1> QED BY <1>0, <1>1, <1>2, <1>3, <1>4, <1>5, <1>6, <1>7

LEMMA AfterFacts ==
  ASSUME NEW s \in StateSet, NEW flags, NEW t \in DataTurns(s, flags)
  PROVE  t.over \in Ends /\ AfterTurn(Ended(t.s, flags), s, flags, Over(t))
<1>0. s.code \in Codes /\ s.fill \in Fills /\ "wait" \in Places /\ "no" \in Ends
  BY StateFields, PlaceNames DEF Ends
<1>1. CASE s.at = "yield"
  <2>1. t.s = Waits(Closed(s), "wait", s.code, s.fill) /\ t.over = "no"
    BY <1>1, TurnCases
  <2>2. /\ Closed(s) \in StateSet /\ Closed(s).port = s.port /\ Closed(s).owner = s.owner
        /\ Closed(s).req = "Quit" /\ Closed(s).busy = FALSE /\ Closed(s).closed = TRUE
        /\ Closed(s).connected = FALSE
    BY ClosedFields
  <2>3. /\ t.s \in StateSet /\ t.s.port = s.port /\ t.s.owner = s.owner
        /\ t.s.req = "Quit" /\ t.s.busy = FALSE /\ t.s.closed = TRUE
        /\ t.s.connected = FALSE /\ t.s.at = "wait" /\ t.s.code = s.code
    BY <1>0, <2>1, <2>2, WaitsFields
  <2>4. CASE "CLOSE" \in flags
    <3>1. PICK x, y, all : x = t.s /\ y = Closed(x) /\ all = FALSE
      OBVIOUS
    <3>2. ClosedOf(y, x)
      BY <2>3, <3>1, ClosedIs
    <3>3. x.port = s.port /\ x.owner = s.owner /\ x.at = "wait" /\ x.code = s.code
      BY <2>3, <3>1
    <3>4. AfterTurn(y, s, flags, all)
      <4>1. y.at = "wait" /\ y.at \notin {"send", "store"} /\ y.at # "yield"
        BY <3>2, <3>3 DEF ClosedOf
      <4>2. ~all
        BY <3>1
      <4>3. /\ y \in StateSet /\ y.port = s.port /\ y.owner = s.owner /\ y.req = "Quit"
            /\ y.busy = FALSE /\ y.closed = TRUE /\ y.connected = FALSE /\ y.code = s.code
        BY <3>2, <3>3 DEF ClosedOf
      <4> QED BY <2>4, <4>1, <4>2, <4>3, Zenon DEF AfterTurn
    <3> QED BY <1>0, <2>1, <2>4, <3>1, <3>4 DEF Ended, Over
  <2>5. CASE "CLOSE" \notin flags
    <3>1. PICK x, all : x = t.s /\ all = FALSE
      OBVIOUS
    <3>2. /\ x \in StateSet /\ x.port = s.port /\ x.owner = s.owner /\ x.at = "wait"
          /\ x.code = s.code /\ x.req = "Quit" /\ x.busy = FALSE /\ x.closed = TRUE /\ x.connected = FALSE
      BY <2>3, <3>1
    <3>3. AfterTurn(x, s, flags, all)
      <4>1. x.at \notin {"send", "store"} /\ x.at # "yield"
        BY <3>2
      <4>2. ~all
        BY <3>1
      <4> QED BY <1>1, <3>2, <4>1, <4>2, Zenon DEF AfterTurn
    <3> QED BY <1>0, <2>1, <2>5, <3>1, <3>3 DEF Ended, Over
  <2> QED BY <2>4, <2>5
<1>2. CASE s.at # "yield"
  <2>0. WaitsOn(t, s)
    BY <1>2, TurnCases
  <2>1. PICK a \in Places, q \in Codes, f \in Fills :
          /\ t.s = Waits(s, a, q, f) /\ t.over \in Ends
          /\ q = s.code \/ q = 452
          /\ a \in {"send", "store"} => Uses(s)
          /\ s.at = "wait" /\ s.req = "Wait" => a = "wait"
          /\ a = "yield" => Over(t) \/ q = 452 \/ s.req = "Quit"
          /\ Over(t) => Uses(s)
    BY <2>0 DEF WaitsOn
  <2>3. /\ t.s \in StateSet /\ t.s.port = s.port /\ t.s.owner = s.owner
        /\ t.s.req = s.req /\ t.s.busy = s.busy /\ t.s.closed = s.closed
        /\ t.s.connected = s.connected /\ t.s.at = a /\ t.s.code = q
    BY <2>1, WaitsFields
  <2>4. CASE "CLOSE" \in flags
    <3>1. Ended(t.s, flags) = Closed(t.s)
      BY <2>4 DEF Ended
    <3>2. /\ Closed(t.s) \in StateSet /\ Closed(t.s).port = s.port /\ Closed(t.s).owner = s.owner
          /\ Closed(t.s).req = "Quit" /\ Closed(t.s).busy = FALSE /\ Closed(t.s).closed = TRUE
          /\ Closed(t.s).connected = FALSE /\ Closed(t.s).at = a /\ Closed(t.s).code = q
      <4>1. ClosedOf(Closed(t.s), t.s)
        BY <2>3, ClosedIs
      <4>2. PICK x, y : x = t.s /\ y = Closed(x)
        OBVIOUS
      <4>3. /\ y \in StateSet /\ y.port = s.port /\ y.owner = s.owner /\ y.req = "Quit"
            /\ y.busy = FALSE /\ y.closed = TRUE /\ y.connected = FALSE /\ y.at = a /\ y.code = q
        <5>1. ClosedOf(y, x) /\ x.port = s.port /\ x.owner = s.owner /\ x.at = a /\ x.code = q
          BY <2>3, <4>1, <4>2
        <5> QED BY <5>1 DEF ClosedOf
      <4> QED BY <4>2, <4>3
    <3> QED BY <2>1, <2>4, <3>1, <3>2 DEF AfterTurn
  <2>5. CASE "CLOSE" \notin flags
    <3>1. Ended(t.s, flags) = t.s
      BY <2>5 DEF Ended
    <3> QED BY <1>2, <2>1, <2>3, <2>5, <3>1 DEF AfterTurn
  <2> QED BY <2>1, <2>4, <2>5
<1> QED BY <1>1, <1>2

\* What a client has of its transfer after a callback.
Marked(k, m) == Control(k.pc, k.port, k.code, k.ready, m, k.left)

LEMMA MarkedFields ==
  ASSUME NEW k \in CtlSet, NEW m \in Moves
  PROVE  /\ Marked(k, m) \in CtlSet
         /\ Marked(k, m).pc = k.pc /\ Marked(k, m).port = k.port
         /\ Marked(k, m).code = k.code /\ Marked(k, m).ready = k.ready
         /\ Marked(k, m).moved = m /\ Marked(k, m).left = k.left
BY CtlFields, ControlFields DEF Marked

LEMMA MarkFacts ==
  ASSUME NEW w \in Worlds, NEW c \in Clients, NEW m \in Moves
  PROVE  CtlOnly([w EXCEPT !.ctl[c].moved = m], w, c, Marked(w.ctl[c], m))
<1>1. w.ctl[c] \in CtlSet
  BY WorldEntries
<1>2. [w EXCEPT !.ctl[c].moved = m] = PutCtl(w, c, [w.ctl[c] EXCEPT !.moved = m])
  BY DEF PutCtl
<1>3. [w.ctl[c] EXCEPT !.moved = m] = Marked(w.ctl[c], m)
  BY <1>1, ControlPuts DEF Marked
<1>4. Marked(w.ctl[c], m) \in CtlSet
  BY <1>1, MarkedFields
<1> QED BY <1>2, <1>3, <1>4, PutCtlFacts

\* The other tables are as they were.
SameButCtl(v, w) ==
  v \in Worlds /\ v.st = w.st /\ v.ls = w.ls /\ v.cn = w.cn /\ v.bad = w.bad

\* A client's transfer is complete, or was cut by the client.
Cuts(w, b, s, all) ==
  \/ all /\ s.owner = w.cn[b].who
  \/ w.cn[b].st = "LAST_ACK" /\ World.cn[b].st = "ESTABLISHED" /\ s.at # "yield"

Marks(v, w, b, s, all) ==
  /\ \A d \in Clients : \/ v.ctl[d] = w.ctl[d]
                        \/ \E m \in {"all", "short", "cut"} : v.ctl[d] = Marked(w.ctl[d], m)
  /\ w.cn[b].who \in Clients /\ Cuts(w, b, s, all)
       => v.ctl[w.cn[b].who].moved \in {"all", "short", "cut"}

LEMMA MovedFacts ==
  ASSUME NEW w \in Worlds, NEW b \in Blocks, NEW s, NEW t, t.over \in Ends
  PROVE  SameButCtl(Moved(w, b, s, t), w) /\ Marks(Moved(w, b, s, t), w, b, s, Over(t))
<1> DEFINE c == w.cn[b].who
           v == Moved(w, b, s, t)
<1>0. c \in Owners /\ "all" \in Moves /\ "cut" \in Moves
  BY WorldEntries, BlockFields DEF Moves
<1>1. CASE c = Nobody
  <2>1. v = w
    BY <1>1 DEF Moved
  <2>2. c \notin Clients
    BY <1>1, SizesAssumption
  <2> QED BY <2>1, <2>2 DEF SameButCtl, Marks
<1>2. CASE c # Nobody /\ Over(t) /\ s.owner = c
  <2>1. c \in Clients
    BY <1>0, <1>2 DEF Owners
  <2>2. PICK m \in Moves : m = t.over /\ m \in {"all", "short", "cut"}
    BY <1>2 DEF Over, Ends, Moves
  <2>3. v = [w EXCEPT !.ctl[c].moved = m]
    BY <1>2, <2>2 DEF Moved, Over
  <2>4. CtlOnly(v, w, c, Marked(w.ctl[c], m))
    BY <2>1, <2>3, MarkFacts
  <2>5. Marked(w.ctl[c], m).moved = m
    BY <2>1, WorldEntries, MarkedFields
  <2> HIDE DEF v
  <2> QED BY <2>1, <2>2, <2>4, <2>5 DEF SameButCtl, Marks, CtlOnly, v
<1>3. CASE c # Nobody /\ ~(Over(t) /\ s.owner = c) /\ w.cn[b].st = "LAST_ACK"
           /\ conns[b].st = "ESTABLISHED" /\ s.at # "yield"
  <2>1. c \in Clients
    BY <1>0, <1>3 DEF Owners
  <2>2. v = [w EXCEPT !.ctl[c].moved = "cut"]
    BY <1>3 DEF Moved, Over
  <2>3. CtlOnly(v, w, c, Marked(w.ctl[c], "cut"))
    BY <1>0, <2>1, <2>2, MarkFacts
  <2>4. Marked(w.ctl[c], "cut").moved = "cut"
    BY <1>0, <2>1, WorldEntries, MarkedFields
  <2> HIDE DEF v
  <2> QED BY <2>3, <2>4 DEF SameButCtl, Marks, CtlOnly, v
<1>4. CASE c # Nobody /\ ~(Over(t) /\ s.owner = c)
           /\ ~(w.cn[b].st = "LAST_ACK" /\ conns[b].st = "ESTABLISHED" /\ s.at # "yield")
  <2>1. v = w
    BY <1>4 DEF Moved, Over
  <2>2. ~Cuts(w, b, s, Over(t))
    BY <1>4, WorldIs DEF Cuts
  <2> QED BY <2>1, <2>2 DEF SameButCtl, Marks
<1> QED BY <1>1, <1>2, <1>3, <1>4

\* The answer to a block whose callback closes it or not.
NextPhase(st, closes) == IF st = "ESTABLISHED" /\ closes THEN "FIN_WAIT" ELSE st

LEMMA AnsweredFacts ==
  ASSUME NEW w \in Worlds, NEW b \in Blocks, NEW closes \in BOOLEAN, NEW sends, NEW flags
  PROVE  \E o \in BOOLEAN :
           BlockOnly(Answered(w, b, closes, sends, flags), w, b,
                     Block(NextPhase(w.cn[b].st, closes), w.cn[b].port, o, w.cn[b].who))
<1> DEFINE k == w.cn[b]
           v == Answered(w, b, closes, sends, flags)
<1>0. /\ k \in BlockSet /\ k.st \in Phases /\ k.port \in Ports /\ k.out \in BOOLEAN
      /\ k.who \in Owners /\ k = Block(k.st, k.port, k.out, k.who)
  BY WorldEntries, BlockFields
<1>1. CASE k.st # "ESTABLISHED"
  <2>1. v = w /\ NextPhase(k.st, closes) = k.st
    BY <1>1 DEF Answered, NextPhase
  <2>2. BlockOnly(v, w, b, Block(k.st, k.port, k.out, k.who))
    <3>1. w.cn[b] = Block(k.st, k.port, k.out, k.who)
      BY <1>0
    <3> HIDE DEF k
    <3> QED BY <2>1, <3>1 DEF BlockOnly
  <2> QED BY <1>0, <2>1, <2>2
<1>2. CASE k.st = "ESTABLISHED" /\ closes
  <2>1. v = [w EXCEPT !.cn[b].st = "FIN_WAIT", !.cn[b].out = FALSE]
    BY <1>2 DEF Answered
  <2>2. PICK o \in BOOLEAN, f \in Phases : o = FALSE /\ f = "FIN_WAIT"
    BY DEF Phases
  <2> DEFINE x == Block(f, k.port, k.out, k.who)
             y == Block(f, k.port, o, k.who)
             u == PutBlock(w, b, x)
             z == PutBlock(u, b, y)
  <2>3. x \in BlockSet /\ y \in BlockSet
    BY <1>0, BlockIs
  <2>4. [w EXCEPT !.cn[b].st = "FIN_WAIT"] = PutBlock(w, b, [k EXCEPT !.st = f])
    BY <2>2 DEF PutBlock
  <2>5. [k EXCEPT !.st = f] = x /\ [x EXCEPT !.out = o] = y
    BY <1>0, BlockSetIs DEF Block
  <2>6. v = [u EXCEPT !.cn[b].out = o]
    BY <2>1, <2>2, <2>4, <2>5
  <2>7. BlockOnly(u, w, b, x)
    BY <2>3, PutBlockFacts
  <2> HIDE DEF u, x
  <2>8. u \in Worlds /\ u.cn[b] = x
    BY <2>7 DEF BlockOnly
  <2>9. [u EXCEPT !.cn[b].out = o] = PutBlock(u, b, [x EXCEPT !.out = o])
    BY <2>8 DEF PutBlock
  <2> HIDE DEF y
  <2>10. v = z
    BY <2>5, <2>6, <2>9
  <2>11. BlockOnly(z, u, b, y)
    BY <2>3, <2>8, PutBlockFacts
  <2> HIDE DEF z
  <2>12. BlockOnly(z, w, b, y)
    BY <2>7, <2>11 DEF BlockOnly
  <2>13. f = NextPhase(k.st, closes)
    BY <1>2, <2>2 DEF NextPhase
  <2> QED BY <2>10, <2>12, <2>13 DEF y
<1>3. CASE k.st = "ESTABLISHED" /\ ~closes
  <2>1. v = [w EXCEPT !.cn[b].out = sends \/ (@ /\ "ACKDATA" \notin flags)]
    BY <1>3 DEF Answered
  <2>2. PICK o \in BOOLEAN : o = (sends \/ (k.out /\ "ACKDATA" \notin flags))
    OBVIOUS
  <2>3. v = PutBlock(w, b, [k EXCEPT !.out = o])
    BY <2>1, <2>2 DEF PutBlock
  <2>4. [k EXCEPT !.out = o] = Block(k.st, k.port, o, k.who)
    BY <1>0, BlockSetIs DEF Block
  <2>5. Block(k.st, k.port, o, k.who) \in BlockSet
    BY <1>0, BlockIs
  <2>7. BlockOnly(v, w, b, Block(k.st, k.port, o, k.who))
    BY <2>3, <2>4, <2>5, PutBlockFacts
  <2>8. k.st = NextPhase(k.st, closes)
    BY <1>3 DEF NextPhase
  <2> QED BY <2>7, <2>8
<1> QED BY <1>1, <1>2, <1>3

\* A callback for block b, in phase st, that found its state; c is the last
\* phase of the block.
Served(v, w, b, flags, i, z, all) ==
  LET k  == w.cn[b]
      s  == IF "CONNECTED" \in flags THEN Came(w.st[i]) ELSE w.st[i]
  IN /\ v \in Worlds /\ v.bad = w.bad
     /\ i \in Slots /\ w.st[i] \in StateSet /\ w.st[i].port = k.port
     /\ AfterTurn(z, s, flags, all)
     /\ v.st[i] = z /\ \A j \in Slots : j # i => v.st[j] = w.st[j]
     /\ \E o \in BOOLEAN :
          v.cn[b] = Block(NextPhase(k.st, z.closed), k.port, o, k.who)
     /\ \A d \in Blocks : d # b => v.cn[d] = w.cn[d]
     /\ Marks(v, w, b, w.st[i], all)

\* One that did not.
Unserved(v, w, b, flags) ==
  LET k == w.cn[b]
  IN /\ v \in Worlds /\ v.bad = w.bad /\ v.ctl = w.ctl
     /\ ~Has(w, k.port)
     /\ \A i \in Slots : v.st[i] = w.st[i] \/ v.st[i] = Null
     /\ \E o \in BOOLEAN :
          v.cn[b] = Block(NextPhase(k.st, "REXMIT" \notin flags), k.port, o, k.who)
     /\ \A d \in Blocks : d # b => v.cn[d] = w.cn[d]

LEMMA ServedFacts ==
  ASSUME NEW w \in Worlds, NEW b \in Blocks, NEW flags, Has(w, w.cn[b].port),
         NEW v \in DataCall(w, b, flags)
  PROVE  \E i \in Slots, z \in StateSet, all \in BOOLEAN : Served(v, w, b, flags, i, z, all)
<1> DEFINE port == w.cn[b].port
           i == SlotOf(w, port)
           came == IF "CONNECTED" \in flags
                   THEN [w EXCEPT !.ls = Unlisten(w.ls, port), !.st[i].connected = TRUE]
                   ELSE w
           s == IF "CONNECTED" \in flags THEN Came(w.st[i]) ELSE w.st[i]
<1>1. PICK t \in DataTurns(came.st[i], flags) :
        LET after == Ended(t.s, flags)
            w1    == [came EXCEPT !.st[i] = after]
        IN v = Answered(Moved(w1, b, came.st[i], t), b, after.closed, t.sends, flags)
  BY DEF DataCall
<1>2. i \in Slots /\ w.st[i] \in StateSet /\ w.st[i].port = port /\ port \in Ports
  BY SlotFacts, WorldEntries, BlockFields
<1> HIDE DEF i
<1>3. /\ came \in Worlds /\ came.st[i] = s /\ came.cn = w.cn /\ came.ctl = w.ctl
      /\ came.bad = w.bad /\ \A j \in Slots : j # i => came.st[j] = w.st[j]
  <2>1. CASE "CONNECTED" \in flags
    <3> DEFINE u == PutListen(w, Unlisten(w.ls, port))
               x == PutState(u, i, Came(w.st[i]))
    <3>1. Unlisten(w.ls, port) \in ListenTabs
      BY <1>2, WorldFields, ListenKeeps
    <3>2. u \in Worlds /\ u.st = w.st /\ u.cn = w.cn /\ u.ctl = w.ctl /\ u.bad = w.bad
      BY <3>1, PutListenFacts
    <3>3. came = [[w EXCEPT !.ls = Unlisten(w.ls, port)] EXCEPT !.st[i].connected = TRUE]
      BY <2>1
    <3>4. came = [u EXCEPT !.st[i].connected = TRUE]
      BY <3>3 DEF PutListen
    <3> HIDE DEF u, came
    <3>5. [u EXCEPT !.st[i].connected = TRUE] = x
      BY <3>2 DEF PutState, Came
    <3>6. Came(w.st[i]) \in StateSet
      BY <1>2, CameFields
    <3>7. StateOnly(x, u, i, Came(w.st[i]))
      BY <1>2, <3>2, <3>6, PutStateFacts
    <3> HIDE DEF x
    <3> QED BY <2>1, <3>2, <3>4, <3>5, <3>7 DEF StateOnly, s
  <2>2. CASE "CONNECTED" \notin flags
    BY <2>2
  <2> QED BY <2>1, <2>2
<1> HIDE DEF came
<1>4. s \in StateSet /\ s.at = w.st[i].at /\ s.owner = w.st[i].owner
  BY <1>2, CameFields
<1>5. t \in DataTurns(s, flags)
  BY <1>1, <1>3
<1> HIDE DEF s
<1> DEFINE z == Ended(t.s, flags)
           w1 == PutState(came, i, z)
           m == Moved(w1, b, s, t)
<1>6. t.over \in Ends /\ AfterTurn(z, s, flags, Over(t))
  BY <1>4, <1>5, AfterFacts
<1>7. v = Answered(m, b, z.closed, t.sends, flags)
  BY <1>1, <1>3 DEF PutState
<1> HIDE DEF z
<1>8. z \in StateSet /\ z.closed \in BOOLEAN
  BY <1>6, StateFields DEF AfterTurn
<1>9. StateOnly(w1, came, i, z)
  BY <1>2, <1>3, <1>8, PutStateFacts
<1> HIDE DEF w1
<1>10. w1 \in Worlds /\ w1.cn = w.cn /\ w1.ctl = w.ctl /\ w1.bad = w.bad
  BY <1>3, <1>9 DEF StateOnly
<1>11. SameButCtl(m, w1) /\ Marks(m, w1, b, s, Over(t))
  BY <1>6, <1>10, MovedFacts
<1> HIDE DEF m
<1>12. m \in Worlds /\ m.cn = w.cn
  BY <1>10, <1>11 DEF SameButCtl
<1>13. PICK o \in BOOLEAN :
         BlockOnly(v, m, b, Block(NextPhase(m.cn[b].st, z.closed), m.cn[b].port, o, m.cn[b].who))
  BY <1>7, <1>8, <1>12, AnsweredFacts
<1>14. Marks(v, w, b, w.st[i], Over(t))
  <2>1. v.ctl = m.ctl
    BY <1>13 DEF BlockOnly
  <2> QED BY <2>1, <1>4, <1>10, <1>11 DEF Marks, Cuts
<1>15. v.cn[b] = Block(NextPhase(w.cn[b].st, z.closed), w.cn[b].port, o, w.cn[b].who)
       /\ (\A d \in Blocks : d # b => v.cn[d] = w.cn[d])
  BY <1>12, <1>13 DEF BlockOnly
<1>16. v \in Worlds /\ v.bad = w.bad /\ v.st = w1.st
  BY <1>10, <1>11, <1>13 DEF BlockOnly, SameButCtl
<1>17. v.st[i] = z /\ \A j \in Slots : j # i => v.st[j] = w.st[j]
  BY <1>3, <1>9, <1>16 DEF StateOnly
<1> HIDE DEF port
<1>18. AfterTurn(z, IF "CONNECTED" \in flags THEN Came(w.st[i]) ELSE w.st[i], flags, Over(t))
  BY <1>6 DEF s
<1>19. w.st[i].port = w.cn[b].port
  BY <1>2 DEF port
<1>20. Served(v, w, b, flags, i, z, Over(t))
  <2>1. PICK all : all = Over(t)
    OBVIOUS
  <2>2. /\ AfterTurn(z, IF "CONNECTED" \in flags THEN Came(w.st[i]) ELSE w.st[i], flags, all)
        /\ Marks(v, w, b, w.st[i], all)
    BY <1>14, <1>18, <2>1
  <2>3. i \in Slots /\ w.st[i] \in StateSet
    BY <1>2
  <2>4. \E y \in BOOLEAN :
          v.cn[b] = Block(NextPhase(w.cn[b].st, z.closed), w.cn[b].port, y, w.cn[b].who)
    BY <1>15
  <2>5. Served(v, w, b, flags, i, z, all)
    BY <1>15, <1>16, <1>17, <1>19, <2>2, <2>3, <2>4, Zenon DEF Served
  <2> QED BY <2>1, <2>5
<1>21. Over(t) \in BOOLEAN
  BY Zenon DEF Over
<1> QED BY <1>2, <1>6, <1>8, <1>20, <1>21

LEMMA UnservedFacts ==
  ASSUME NEW w \in Worlds, NEW b \in Blocks, NEW flags, ~Has(w, w.cn[b].port),
         NEW v \in DataCall(w, b, flags)
  PROVE  Unserved(v, w, b, flags)
<1> DEFINE port == w.cn[b].port
           u == PutListen(w, Unlisten(w.ls, port))
           x == Collect(u)
<1>1. v = Answered(Collect([w EXCEPT !.ls = Unlisten(w.ls, port)]), b,
                   "REXMIT" \notin flags, FALSE, flags)
  BY DEF DataCall
<1>2. [w EXCEPT !.ls = Unlisten(w.ls, port)] = u
  BY DEF PutListen
<1>3. Unlisten(w.ls, port) \in ListenTabs
  BY WorldFields, WorldEntries, BlockFields, ListenKeeps
<1>4. u \in Worlds /\ u.st = w.st /\ u.cn = w.cn /\ u.ctl = w.ctl /\ u.bad = w.bad
  BY <1>3, PutListenFacts
<1>5. v = Answered(x, b, "REXMIT" \notin flags, FALSE, flags)
  BY <1>1, <1>2
<1> HIDE DEF u
<1>6. SweepOnly(x, u)
  BY <1>4, CollectFacts
<1> HIDE DEF x
<1>7. x \in Worlds /\ x.cn = w.cn
  BY <1>4, <1>6 DEF SweepOnly
<1>8. \E o \in BOOLEAN :
        BlockOnly(v, x, b, Block(NextPhase(x.cn[b].st, "REXMIT" \notin flags), x.cn[b].port, o,
                                 x.cn[b].who))
  <2>1. CASE "REXMIT" \in flags
    <3>1. v = Answered(x, b, FALSE, FALSE, flags) /\ NextPhase(x.cn[b].st, "REXMIT" \notin flags) = NextPhase(x.cn[b].st, FALSE)
      BY <2>1, <1>5
    <3> QED BY <3>1, <1>7, AnsweredFacts
  <2>2. CASE "REXMIT" \notin flags
    <3>1. v = Answered(x, b, TRUE, FALSE, flags) /\ NextPhase(x.cn[b].st, "REXMIT" \notin flags) = NextPhase(x.cn[b].st, TRUE)
      BY <2>2, <1>5
    <3> QED BY <3>1, <1>7, AnsweredFacts
  <2> QED BY <2>1, <2>2
<1> QED BY <1>4, <1>6, <1>7, <1>8 DEF BlockOnly, SweepOnly, Unserved

\* The phase in which a block is when its callback comes, and the phase after it
\* if the callback does not close it.
Calling(k, st, flags) ==
  \/ Opening(k) /\ st = "ESTABLISHED" /\ "CONNECTED" \in flags /\ "CLOSE" \notin flags
  \/ /\ k.st = "ESTABLISHED" /\ st = "ESTABLISHED"
     /\ "CONNECTED" \notin flags /\ "CLOSE" \notin flags
  \/ /\ k.st = "ESTABLISHED" /\ st = "LAST_ACK"
     /\ "CONNECTED" \notin flags /\ "CLOSE" \in flags
  \/ /\ k.st \in {"LAST_ACK", "FIN_WAIT"} /\ st \in {"CLOSED", "TIME_WAIT"}
     /\ "CONNECTED" \notin flags /\ "CLOSE" \in flags
  \/ /\ Live(k) /\ st = "CLOSED"
     /\ "CONNECTED" \notin flags /\ "CLOSE" \notin flags

\* A callback, from the world before it.
CalledBack(v, w, b, st, flags) ==
  \E o \in BOOLEAN, u \in Worlds :
    /\ BlockOnly(u, w, b, Block(st, w.cn[b].port, o, w.cn[b].who))
    /\ \/ Unserved(v, u, b, flags)
       \/ \E i \in Slots, z \in StateSet, all \in BOOLEAN : Served(v, u, b, flags, i, z, all)

LEMMA CallbackStep ==
  ASSUME World \in Worlds, NEW b \in Blocks, NEW st \in Phases, NEW flags, Callback(b, st, flags)
  PROVE  CalledBack(World', World, b, st, flags) /\ lastport' = lastport
<1> DEFINE k == World.cn[b]
           u == PutBlock(World, b, Block(st, k.port, k.out, k.who))
<1>1. /\ k \in BlockSet /\ k.port \in Ports /\ k.out \in BOOLEAN
      /\ k.who \in Owners /\ k = Block(k.st, k.port, k.out, k.who)
  BY WorldEntries, BlockFields
<1>2. Block(st, k.port, k.out, k.who) \in BlockSet
  BY <1>1, BlockIs
<1>3. [World EXCEPT !.cn[b].st = st] = u
  <2>1. [World EXCEPT !.cn[b].st = st] = PutBlock(World, b, [k EXCEPT !.st = st])
    BY DEF PutBlock
  <2>2. [k EXCEPT !.st = st] = Block(st, k.port, k.out, k.who)
    BY <1>1, BlockSetIs DEF Block
  <2> QED BY <2>1, <2>2
<1>4. PICK v \in DataCall([World EXCEPT !.cn[b].st = st], b, flags) : Becomes(v)
  BY DEF Callback
<1>5. v \in DataCall(u, b, flags)
  BY <1>3, <1>4
<1>6. BlockOnly(u, World, b, Block(st, k.port, k.out, k.who))
  BY <1>2, PutBlockFacts
<1> HIDE DEF u
<1>7. u \in Worlds
  BY <1>6 DEF BlockOnly
<1>8. \/ Unserved(v, u, b, flags)
      \/ \E i \in Slots, z \in StateSet, all \in BOOLEAN : Served(v, u, b, flags, i, z, all)
  BY <1>5, <1>7, ServedFacts, UnservedFacts
<1>9. v \in Worlds
  BY <1>8 DEF Served, Unserved
<1>10. World' = v
  BY <1>4, <1>9, BecomesIs
<1> QED BY <1>1, <1>6, <1>7, <1>8, <1>10 DEF CalledBack, Callback

\* A block that is closed, without a callback.
Rests(v, w, b) ==
  /\ w.cn[b].st \in {"CLOSED", "FIN_WAIT", "TIME_WAIT"}
  /\ \E k \in BlockSet : BlockOnly(v, w, b, k) /\ k.st = "CLOSED"

FlagNames == {"CONNECTED", "NEWDATA", "ACKDATA", "REXMIT", "POLL", "CLOSE", "ABORT"}

LEMMA DataSteps ==
  ASSUME World \in Worlds, NEW b \in Blocks, DataNext(b)
  PROVE  /\ lastport' = lastport /\ (lost => lost')
         /\ \/ Rests(World', World, b)
            \/ \E st \in Phases, flags \in SUBSET FlagNames :
                 /\ Calling(World.cn[b], st, flags)
                 /\ CalledBack(World', World, b, st, flags)
<1> DEFINE w == World
           k == World.cn[b]
<1>0. k \in BlockSet /\ k = conns[b] /\ w.cn = conns
  BY WorldEntries, WorldIs
<1>a. k.st \in Phases /\ k.port \in Ports /\ k.out \in BOOLEAN /\ k.who \in Owners
      /\ k = Block(k.st, k.port, k.out, k.who)
  BY <1>0, BlockFields
<1>b. \A st \in Phases, flags \in SUBSET FlagNames :
        Callback(b, st, flags) => CalledBack(World', World, b, st, flags) /\ lastport' = lastport
  BY CallbackStep
<1>c. \A x \in BlockSet : conns' = [conns EXCEPT ![b] = x] /\ ctl' = ctl /\ states' = states
                            /\ listen' = listen /\ bad' = bad
                          => BlockOnly(World', World, b, x)
  <2> TAKE x \in BlockSet
  <2> HAVE conns' = [conns EXCEPT ![b] = x] /\ ctl' = ctl /\ states' = states
             /\ listen' = listen /\ bad' = bad
  <2>1. World' = Tables(w.st, w.ls, [w.cn EXCEPT ![b] = x], w.ctl, w.bad)
    BY WorldIs DEF World, Tables
  <2> HIDE DEF w
  <2>2. PutBlock(w, b, x) = Tables(w.st, w.ls, [w.cn EXCEPT ![b] = x], w.ctl, w.bad)
    BY WorldsIs DEF PutBlock, Tables, w
  <2> QED BY <2>1, <2>2, PutBlockFacts DEF w
<1> HIDE DEF k
<1>1. CASE Handshake(b)
  <2>1. CASE conns[b].st = "SYN_RCVD" /\ Callback(b, "ESTABLISHED", {"CONNECTED"})
    <3>1. "ESTABLISHED" \in Phases /\ {"CONNECTED"} \in SUBSET FlagNames
      BY DEF Phases, FlagNames
    <3>2. Calling(k, "ESTABLISHED", {"CONNECTED"})
      BY <2>1, <1>0 DEF Calling, Opening
    <3> QED BY <1>1, <2>1, <3>1, <3>2, <1>b DEF Handshake, k
  <2>2. CASE conns[b].st = "SYN_SENT" /\ Callback(b, "ESTABLISHED", {"CONNECTED", "NEWDATA"})
    <3>1. "ESTABLISHED" \in Phases /\ {"CONNECTED", "NEWDATA"} \in SUBSET FlagNames
      BY DEF Phases, FlagNames
    <3>2. Calling(k, "ESTABLISHED", {"CONNECTED", "NEWDATA"})
      BY <2>2, <1>0 DEF Calling, Opening
    <3> QED BY <1>1, <2>2, <3>1, <3>2, <1>b DEF Handshake, k
  <2> QED BY <1>1, <2>1, <2>2 DEF Handshake
<1>2. CASE DataAcked(b)
  <2>1. "ESTABLISHED" \in Phases /\ {"ACKDATA"} \in SUBSET FlagNames
    BY DEF Phases, FlagNames
  <2>2. Calling(k, "ESTABLISHED", {"ACKDATA"})
    BY <1>2, <1>0 DEF Calling, DataAcked
  <2> QED BY <1>2, <2>1, <2>2, <1>b DEF DataAcked, k
<1>3. CASE Rexmit(b)
  <2>1. "ESTABLISHED" \in Phases /\ {"REXMIT"} \in SUBSET FlagNames
    BY DEF Phases, FlagNames
  <2>2. Calling(k, "ESTABLISHED", {"REXMIT"})
    BY <1>3, <1>0 DEF Calling, Rexmit
  <2> QED BY <1>3, <2>1, <2>2, <1>b DEF Rexmit, k
<1>4. CASE DataPoll(b)
  <2>1. "ESTABLISHED" \in Phases /\ {"POLL"} \in SUBSET FlagNames
    BY DEF Phases, FlagNames
  <2>2. Calling(k, "ESTABLISHED", {"POLL"})
    BY <1>4, <1>0 DEF Calling, DataPoll
  <2> QED BY <1>4, <2>1, <2>2, <1>b DEF DataPoll, k
<1>5. CASE Data(b)
  <2>1. "ESTABLISHED" \in Phases /\ {"NEWDATA"} \in SUBSET FlagNames
    BY DEF Phases, FlagNames
  <2>2. Calling(k, "ESTABLISHED", {"NEWDATA"})
    BY <1>5, <1>0 DEF Calling, Data
  <2> QED BY <1>5, <2>1, <2>2, <1>b DEF Data, k
<1>6. CASE Fin(b)
  <2> PICK flags \in {{"CLOSE", "ACKDATA"}, {"CLOSE"}} : Callback(b, "LAST_ACK", flags)
    BY <1>6 DEF Fin
  <2>1. "LAST_ACK" \in Phases /\ flags \in SUBSET FlagNames
    BY DEF Phases, FlagNames
  <2>2. Calling(k, "LAST_ACK", flags)
    BY <1>6, <1>0 DEF Calling, Fin
  <2> QED BY <1>6, <2>1, <2>2, <1>b DEF Fin, k
<1>7. CASE LastAck(b)
  <2>1. "CLOSED" \in Phases /\ {"CLOSE"} \in SUBSET FlagNames
    BY DEF Phases, FlagNames
  <2>2. Calling(k, "CLOSED", {"CLOSE"})
    BY <1>7, <1>0 DEF Calling, LastAck
  <2> QED BY <1>7, <2>1, <2>2, <1>b DEF LastAck, k
<1>8. CASE LateFin(b)
  <2>1. "TIME_WAIT" \in Phases /\ {"CLOSE"} \in SUBSET FlagNames
    BY DEF Phases, FlagNames
  <2>2. Calling(k, "TIME_WAIT", {"CLOSE"})
    BY <1>8, <1>0 DEF Calling, LateFin
  <2> QED BY <1>8, <2>1, <2>2, <1>b DEF LateFin, k
<1>9. CASE Lost(b)
  <2>1. "CLOSED" \in Phases /\ {"ABORT"} \in SUBSET FlagNames
    BY DEF Phases, FlagNames
  <2>2. Calling(k, "CLOSED", {"ABORT"})
    BY <1>9, <1>0 DEF Calling, Lost, Live
  <2> QED BY <1>9, <2>1, <2>2, <1>b DEF Lost, k
<1>10. CASE Expire(b)
  <2>1. PICK x \in Phases : x = "CLOSED"
    BY DEF Phases
  <2>2. [k EXCEPT !.st = x] = Block(x, k.port, k.out, k.who)
    BY <1>0, BlockSetIs DEF Block
  <2>3. Block(x, k.port, k.out, k.who) \in BlockSet /\ Block(x, k.port, k.out, k.who).st = x
    BY <1>a, BlockIs
  <2>4. conns' = [conns EXCEPT ![b] = [k EXCEPT !.st = x]]
    BY <1>10, <2>1, <1>0 DEF Expire
  <2>5. BlockOnly(World', World, b, Block(x, k.port, k.out, k.who))
    BY <1>10, <1>c, <2>2, <2>3, <2>4 DEF Expire
  <2>6. k.st \in {"CLOSED", "FIN_WAIT", "TIME_WAIT"}
    BY <1>10, <1>0 DEF Expire
  <2>7. Rests(World', World, b)
    BY <2>1, <2>3, <2>5, <2>6 DEF Rests, k
  <2> QED BY <1>10, <2>7 DEF Expire
<1>11. CASE Reused(b)
  <2>1. 0 \in Ports /\ Nobody \in Owners
    BY SlotsAreNumbers DEF Owners
  <2>2. [k EXCEPT !.port = 0, !.who = Nobody] = Block(k.st, 0, k.out, Nobody)
    <3>1. PICK p \in Ports, n \in Owners : p = 0 /\ n = Nobody
      BY <2>1
    <3> DEFINE x == [k EXCEPT !.port = p]
    <3>2. x \in BlockSet /\ x.st = k.st /\ x.port = p /\ x.out = k.out
      BY <1>0, BlockSetIs
    <3>3. [k EXCEPT !.port = 0, !.who = Nobody] = [x EXCEPT !.who = n]
      BY <3>1
    <3> HIDE DEF x
    <3>4. [x EXCEPT !.who = n] = Block(k.st, p, k.out, n)
      BY <3>2, BlockSetIs DEF Block
    <3> QED BY <3>1, <3>3, <3>4
  <2>3. Block(k.st, 0, k.out, Nobody) \in BlockSet /\ Block(k.st, 0, k.out, Nobody).st = k.st
    BY <1>a, <2>1, BlockIs
  <2>4. conns' = [conns EXCEPT ![b] = [k EXCEPT !.port = 0, !.who = Nobody]] /\ k.st = "CLOSED"
    BY <1>11, <1>0 DEF Reused
  <2>5. BlockOnly(World', World, b, Block(k.st, 0, k.out, Nobody))
    BY <1>11, <1>c, <2>2, <2>3, <2>4 DEF Reused
  <2>7. Rests(World', World, b)
    BY <2>3, <2>4, <2>5 DEF Rests, k
  <2> QED BY <1>11, <2>7 DEF Reused
<1> QED BY <1>1, <1>2, <1>3, <1>4, <1>5, <1>6, <1>7, <1>8, <1>9, <1>10, <1>11 DEF DataNext

-----------------------------------------------------------------------------
(* Types, for any number of clients.                                        *)

\* No client gets commands back.
Lefts(v, w) == \A d \in Clients : v.ctl[d].left =< w.ctl[d].left

LEMMA UsedBound ==
  ASSUME NEW ctls
  PROVE  /\ IsFiniteSet(Used(ctls)) /\ Cardinality(Used(ctls)) \in Nat
         /\ Cardinality(Used(ctls)) < FTPD_BASE_DATA_PORT
<1>1. IsFiniteSet(1..Commands) /\ Cardinality(1..Commands) = Commands /\ Commands \in Nat
  BY SizesAssumption, FS_Interval
<1>2. /\ IsFiniteSet(Clients \X (1..Commands))
      /\ Cardinality(Clients \X (1..Commands)) = Cardinality(Clients) * Commands
  BY <1>1, SizesAssumption, FS_Product
<1>3. Used(ctls) \subseteq Clients \X (1..Commands)
  BY DEF Used
<1>4. IsFiniteSet(Used(ctls)) /\ Cardinality(Used(ctls)) =< Cardinality(Clients) * Commands
  BY <1>2, <1>3, FS_Subset
<1>5. Cardinality(Used(ctls)) \in Nat /\ Cardinality(Clients) \in Nat
  BY <1>4, SizesAssumption, FS_CardinalityType
<1>6. FTPD_BASE_DATA_PORT \in Nat /\ FTPD_BASE_DATA_PORT > Commands * Cardinality(Clients)
  BY SizesAssumption
<1>7. Commands * Cardinality(Clients) = Cardinality(Clients) * Commands
  BY <1>1, <1>5
<1> QED BY <1>1, <1>4, <1>5, <1>6, <1>7

LEMMA CountKeeps ==
  ASSUME NEW w \in Worlds, NEW v \in Worlds, Lefts(v, w), NEW last, CountInv(w, last)
  PROVE  CountInv(v, last)
<1>1. Used(w.ctl) \subseteq Used(v.ctl)
  <2> SUFFICES ASSUME NEW p \in Clients \X (1..Commands), w.ctl[p[1]].left < p[2]
               PROVE  v.ctl[p[1]].left < p[2]
    BY DEF Used
  <2>1. p[1] \in Clients /\ p[2] \in Nat
    OBVIOUS
  <2>2. w.ctl[p[1]].left \in Nat /\ v.ctl[p[1]].left \in Nat
    BY <2>1, WorldEntries, CtlFields, SizesAssumption
  <2> QED BY <2>1, <2>2 DEF Lefts
<1>2. Cardinality(Used(w.ctl)) =< Cardinality(Used(v.ctl))
  BY <1>1, UsedBound, FS_Subset
<1> QED BY <1>2, UsedBound DEF CountInv

LEMMA CountPort ==
  ASSUME NEW w \in Worlds, NEW v \in Worlds, Lefts(v, w), NEW last, CountInv(w, last),
         NEW c \in Clients, w.ctl[c].left > 0, v.ctl[c].left < w.ctl[c].left
  PROVE  CountInv(v, last + 1)
<1> DEFINE p == <<c, w.ctl[c].left>>
<1>0. w.ctl[c].left \in 1..Commands /\ v.ctl[c].left \in Nat /\ w.ctl[c].left \in Nat
  BY WorldEntries, CtlFields, SizesAssumption
<1>1. p \in Clients \X (1..Commands) /\ p[1] = c /\ p[2] = w.ctl[c].left
  BY <1>0
<1> HIDE DEF p
<1>2. p \notin Used(w.ctl) /\ p \in Used(v.ctl)
  BY <1>0, <1>1 DEF Used
<1>3. Used(w.ctl) \subseteq Used(v.ctl)
  <2> SUFFICES ASSUME NEW q \in Clients \X (1..Commands), w.ctl[q[1]].left < q[2]
               PROVE  v.ctl[q[1]].left < q[2]
    BY DEF Used
  <2>1. q[1] \in Clients /\ q[2] \in Nat
    OBVIOUS
  <2>2. w.ctl[q[1]].left \in Nat /\ v.ctl[q[1]].left \in Nat
    BY <2>1, WorldEntries, CtlFields, SizesAssumption
  <2> QED BY <2>1, <2>2 DEF Lefts
<1>4. Cardinality(Used(w.ctl) \union {p}) = Cardinality(Used(w.ctl)) + 1
      /\ IsFiniteSet(Used(w.ctl) \union {p})
  BY <1>2, UsedBound, FS_AddElement
<1>5. Used(w.ctl) \union {p} \subseteq Used(v.ctl)
  BY <1>2, <1>3
<1>6. Cardinality(Used(w.ctl)) + 1 =< Cardinality(Used(v.ctl))
  BY <1>4, <1>5, UsedBound, FS_Subset
<1> QED BY <1>6, UsedBound DEF CountInv

\* What the forms of a step have in common.
TypeStep(v, w) == v \in Worlds /\ Lefts(v, w)

LEMMA LeftsOne ==
  ASSUME NEW w \in Worlds, NEW v, NEW c \in Clients, NEW l \in CtlSet, v.ctl[c] = l,
         l.left =< w.ctl[c].left, \A d \in Clients : d # c => v.ctl[d] = w.ctl[d]
  PROVE  Lefts(v, w)
<1>1. \A d \in Clients : w.ctl[d].left \in Nat
  BY WorldEntries, CtlFields, SizesAssumption
<1>2. \A d \in Clients : w.ctl[d].left =< w.ctl[d].left
  BY <1>1
<1> QED BY <1>2 DEF Lefts

LEMMA LeftsSelf ==
  ASSUME NEW w \in Worlds, NEW v, \A d \in Clients : v.ctl[d] = w.ctl[d]
  PROVE  Lefts(v, w)
<1>1. \A d \in Clients : w.ctl[d].left \in Nat
  BY WorldEntries, CtlFields, SizesAssumption
<1> QED BY <1>1 DEF Lefts

LEMMA LeftsOver ==
  ASSUME NEW w \in Worlds, NEW u \in Worlds, NEW v \in Worlds, Lefts(v, u), Lefts(u, w)
  PROVE  Lefts(v, w)
<1>1. \A d \in Clients : w.ctl[d].left \in Nat /\ u.ctl[d].left \in Nat /\ v.ctl[d].left \in Nat
  BY WorldEntries, CtlFields, SizesAssumption
<1> QED BY <1>1 DEF Lefts

LEMMA TurnedTypes ==
  ASSUME NEW w \in Worlds, NEW c \in Clients, NEW v, Turned(v, w, c)
  PROVE  TypeStep(v, w)
<1> DEFINE k == w.ctl[c]
<1>0. k \in CtlSet /\ k.left =< k.left
  <2>1. k \in CtlSet
    BY WorldEntries
  <2>2. k.left \in Nat
    BY <2>1, CtlFields, SizesAssumption
  <2> QED BY <2>1, <2>2
<1>1. CASE v = w
  BY <1>1, LeftsSelf DEF TypeStep
<1>2. CASE SweepOnly(v, w)
  BY <1>2, LeftsSelf DEF TypeStep, SweepOnly
<1>3. CASE Reserves(v, w, c)
  <2>1. PICK i \in Slots :
          Begun(v, w, c, i, FTPD_BASE_DATA_PORT + i,
                Control("sent227", FTPD_BASE_DATA_PORT + i, k.code, k.ready, k.moved, k.left))
    BY <1>3 DEF Reserves
  <2> DEFINE l == Control("sent227", FTPD_BASE_DATA_PORT + i, k.code, k.ready, k.moved, k.left)
  <2>2. l.left = k.left
    BY DEF Control
  <2> HIDE DEF l
  <2>3. v \in Worlds /\ l \in CtlSet /\ v.ctl[c] = l
        /\ \A d \in Clients : d # c => v.ctl[d] = w.ctl[d]
    BY <2>1 DEF Begun, l
  <2>4. l.left =< w.ctl[c].left
    BY <2>2, <1>0
  <2> QED BY <2>3, <2>4, LeftsOne DEF TypeStep
<1>4. ASSUME NEW pc \in Pcs, CtlOnly(v, w, c, GoesTo(k, pc)) PROVE TypeStep(v, w)
  <2>1. GoesTo(k, pc).left = k.left /\ GoesTo(k, pc) \in CtlSet
    BY <1>0, GoesToFields
  <2>2. v \in Worlds /\ v.ctl[c] = GoesTo(k, pc)
        /\ \A d \in Clients : d # c => v.ctl[d] = w.ctl[d]
    BY <1>4 DEF CtlOnly
  <2>3. GoesTo(k, pc).left =< w.ctl[c].left
    BY <2>1, <1>0
  <2> QED BY <2>1, <2>2, <2>3, LeftsOne DEF TypeStep
<1>5. ASSUME Has(w, k.port), Freed(v, w, c, k.port, EndsWith(k, StateOf(w, k.port).code))
      PROVE  TypeStep(v, w)
  <2> DEFINE l == EndsWith(k, StateOf(w, k.port).code)
  <2>1. l.left = k.left
    BY DEF EndsWith, Control
  <2> HIDE DEF l
  <2>2. v \in Worlds /\ l \in CtlSet /\ v.ctl[c] = l
        /\ \A d \in Clients : d # c => v.ctl[d] = w.ctl[d]
    BY <1>5 DEF Freed, l
  <2>3. l.left =< w.ctl[c].left
    BY <2>1, <1>0
  <2> QED BY <2>2, <2>3, LeftsOne DEF TypeStep
<1>6. CASE Spoils(v, w, c, k)
  <2>1. v \in Worlds /\ \A d \in Clients : v.ctl[d] = w.ctl[d]
    BY <1>6 DEF Spoils
  <2> QED BY <2>1, LeftsSelf DEF TypeStep
<1> QED BY <1>1, <1>2, <1>3, <1>4, <1>5, <1>6, PcNames DEF Turned

LEMMA CtlOnlyTypes ==
  ASSUME NEW w \in Worlds, NEW c \in Clients, NEW v, NEW l, CtlOnly(v, w, c, l),
         l.left =< w.ctl[c].left
  PROVE  TypeStep(v, w)
<1>1. v \in Worlds /\ l \in CtlSet /\ v.ctl[c] = l
      /\ \A d \in Clients : d # c => v.ctl[d] = w.ctl[d]
  BY DEF CtlOnly
<1> QED BY <1>1, LeftsOne DEF TypeStep

LEMMA AsksTypes ==
  ASSUME NEW w \in Worlds, NEW c \in Clients, NEW v, NEW req, NEW l, Asks(v, w, c, req, l),
         l.left =< w.ctl[c].left
  PROVE  TypeStep(v, w)
<1>1. v \in Worlds /\ l \in CtlSet /\ v.ctl[c] = l
      /\ \A d \in Clients : d # c => v.ctl[d] = w.ctl[d]
  BY DEF Asks, Asked, Spoils
<1> QED BY <1>1, LeftsOne DEF TypeStep

LEMMA TypesOver ==
  ASSUME NEW w \in Worlds, NEW u \in Worlds, NEW v, TypeStep(u, w), TypeStep(v, u)
  PROVE  TypeStep(v, w)
BY LeftsOver DEF TypeStep

LEMMA LeftOf ==
  ASSUME NEW k \in CtlSet
  PROVE  /\ k.left \in Nat /\ k.left =< k.left
         /\ k.left > 0 => /\ k.left - 1 =< k.left /\ Spent(k) \in CtlSet
                          /\ Spent(k).left =< k.left /\ Spent(k).left < k.left
                          /\ Replied(k).left =< k.left
         /\ \A pc \in Pcs : GoesTo(k, pc) \in CtlSet /\ GoesTo(k, pc).left = k.left
         /\ Readied(k).left = k.left
<1>1. k.left \in Nat
  BY CtlFields, SizesAssumption
<1>2. k.left > 0 => /\ Spent(k) \in CtlSet /\ Spent(k).left = k.left - 1
                    /\ Replied(k).left = k.left - 1
  BY SpentFields, RepliedFields
<1>3. \A pc \in Pcs : GoesTo(k, pc) \in CtlSet /\ GoesTo(k, pc).left = k.left
  BY GoesToFields
<1>4. Readied(k).left = k.left
  <2>1. Ready(k) \in CtlSet /\ Ready(k).left = k.left /\ "read" \in Pcs
    BY ReadyFields, PcNames
  <2> QED BY <2>1, GoesToFields DEF Readied
<1>5. k.left =< k.left /\ k.left - 1 =< k.left /\ k.left - 1 < k.left
  BY <1>1
<1> QED BY <1>1, <1>2, <1>3, <1>4, <1>5

LEMMA AnswersTypes ==
  ASSUME NEW w \in Worlds, NEW c \in Clients, NEW v, Answers(v, w, c)
  PROVE  TypeStep(v, w)
<1> DEFINE k == w.ctl[c]
<1>0. k \in CtlSet
  BY WorldEntries
<1>1. k.left =< k.left /\ Readied(k).left =< k.left
      /\ \A pc \in Pcs : GoesTo(k, pc).left =< k.left
  BY <1>0, LeftOf
<1> HIDE DEF k
<1>2. CASE CtlOnly(v, w, c, Readied(k))
  BY <1>1, <1>2, CtlOnlyTypes DEF k
<1>3. ASSUME NEW pc \in Pcs, CtlOnly(v, w, c, GoesTo(k, pc)) PROVE TypeStep(v, w)
  BY <1>1, <1>3, CtlOnlyTypes DEF k
<1>4. ASSUME NEW pc \in Pcs, NEW u \in Worlds, CtlOnly(u, w, c, GoesTo(k, pc)), Turned(v, u, c)
      PROVE  TypeStep(v, w)
  <2>1. TypeStep(u, w)
    BY <1>1, <1>4, CtlOnlyTypes DEF k
  <2>2. TypeStep(v, u)
    BY <1>4, TurnedTypes
  <2> QED BY <2>1, <2>2, TypesOver
<1>5. ASSUME NEW u \in Worlds, Asks(u, w, c, "List", GoesTo(k, "busy")), Turned(v, u, c)
      PROVE  TypeStep(v, w)
  <2>1. GoesTo(k, "busy").left =< k.left
    BY <1>1, PcNames
  <2>2. TypeStep(u, w)
    BY <2>1, <1>5, AsksTypes DEF k
  <2>3. TypeStep(v, u)
    BY <1>5, TurnedTypes
  <2> QED BY <2>2, <2>3, TypesOver
<1>6. "busy" \in Pcs /\ "disc" \in Pcs /\ "closing" \in Pcs /\ "read" \in Pcs
  BY PcNames
<1> QED BY <1>2, <1>3, <1>4, <1>5, <1>6 DEF Answers, k

LEMMA DialsTypes ==
  ASSUME NEW w \in Worlds, NEW c \in Clients, NEW v, NEW p \in Ports, Dials(v, w, c, p),
         w.ctl[c].left > 0
  PROVE  TypeStep(v, w) /\ v.ctl[c].left < w.ctl[c].left
<1> DEFINE k == w.ctl[c]
<1>1. k \in CtlSet /\ Spent(k) \in CtlSet /\ Spent(k).left =< k.left /\ Spent(k).left < k.left
  BY WorldEntries, LeftOf
<1>2. PICK b \in Blocks, r, u \in Worlds, i \in Slots :
        /\ CtlOnly(r, w, c, Spent(k))
        /\ BlockOnly(u, r, b, Block("SYN_SENT", p, FALSE, c))
        /\ Begun(v, u, c, i, p, Told(Spent(k), p))
  BY DEF Dials
<1>3. Told(Spent(k), p).left = Spent(k).left
  <2> HIDE DEF k
  <2> QED BY <1>1, ToldFields DEF ToldOf
<1> HIDE DEF k
<1>4. /\ v \in Worlds /\ v.ctl[c] = Told(Spent(k), p) /\ Told(Spent(k), p) \in CtlSet
      /\ \A d \in Clients : d # c => v.ctl[d] = w.ctl[d]
  BY <1>2 DEF CtlOnly, BlockOnly, Begun
<1>5. Told(Spent(k), p).left =< w.ctl[c].left /\ Told(Spent(k), p).left < w.ctl[c].left
  BY <1>1, <1>3 DEF k
<1> QED BY <1>4, <1>5, LeftsOne DEF TypeStep

LEMMA TurnedAfter ==
  ASSUME NEW w \in Worlds, NEW c \in Clients, NEW u \in Worlds, NEW v, TypeStep(u, w),
         Turned(v, u, c)
  PROVE  TypeStep(v, w)
BY TurnedTypes, TypesOver

LEMMA ControlTypes ==
  ASSUME World \in Worlds, NEW c \in Clients, ControlNext(c), lastport + 1 \in StatePorts
  PROVE  /\ TypeStep(World', World) /\ lost' = lost
         /\ \/ lastport' = lastport
            \/ /\ World.ctl[c].left > 0 /\ World'.ctl[c].left < World.ctl[c].left
               /\ lastport' = lastport + 1
<1> DEFINE w == World
           v == World'
           k == World.ctl[c]
<1>0. k \in CtlSet /\ k.left \in Nat /\ k.left =< k.left
  BY WorldEntries, LeftOf
<1>a. \A pc \in Pcs : GoesTo(k, pc) \in CtlSet /\ GoesTo(k, pc).left =< k.left
  BY <1>0, LeftOf
<1>b. k.left > 0 => /\ Spent(k) \in CtlSet /\ Spent(k).left =< k.left /\ Replied(k).left =< k.left
                    /\ \A pc \in Pcs : GoesTo(Spent(k), pc).left =< k.left
  BY <1>0, LeftOf
<1>c. Pcs = {"greet", "sent227", "sent150", "sent125", "sentStor", "result", "quit", "none", "read",
             "closing", "pasv", "connList", "connRetr", "busy", "disc"}
  BY PcNames
<1>1. CASE Open(c)
  <2>1. k.left > 0 /\ CtlOnly(v, w, c, GoesTo(Gone(k.left - 1), "greet"))
        /\ lastport' = lastport /\ lost' = lost
    BY <1>1, OpenStep
  <2>2. k.left - 1 \in 0..Commands /\ k.left - 1 =< k.left /\ "greet" \in Pcs
    BY <2>1, <1>0, <1>c, CtlFields, SizesAssumption
  <2>3. GoesTo(Gone(k.left - 1), "greet").left = k.left - 1
    BY DEF GoesTo, Control, Gone
  <2>4. GoesTo(Gone(k.left - 1), "greet").left =< k.left
    BY <2>2, <2>3
  <2> HIDE DEF k
  <2> QED BY <2>1, <2>4, CtlOnlyTypes DEF k
<1>2. CASE ControlAcked(c)
  BY <1>2, ControlAckedStep, AnswersTypes
<1>3. CASE ControlPoll(c)
  BY <1>3, ControlPollStep, TurnedTypes
<1>4. CASE End(c)
  <2>1. lastport' = lastport /\ lost' = lost
    BY <1>4, EndStep
  <2>2. PICK u \in Worlds :
          /\ Turned(u, w, c) \/ Answers(u, w, c)
          /\ Freed(v, u, c, IF k.pc = "closing" THEN 0 ELSE u.ctl[c].port, Gone(k.left))
    BY <1>4, EndStep
  <2>3. TypeStep(u, w)
    BY <2>2, TurnedTypes, AnswersTypes
  <2>4. Gone(k.left).left = k.left
    BY <1>0, CtlFields, GoneFields
  <2>5. v \in Worlds /\ v.ctl[c] = Gone(k.left) /\ Gone(k.left) \in CtlSet
        /\ \A d \in Clients : d # c => v.ctl[d] = u.ctl[d]
    BY <2>2 DEF Freed
  <2>6. \A d \in Clients : v.ctl[d].left =< w.ctl[d].left
    <3> HIDE DEF v
    <3>1. v.ctl[c].left =< w.ctl[c].left
      BY <2>4, <2>5, <1>0
    <3>2. \A d \in Clients : d # c => v.ctl[d].left =< w.ctl[d].left
      BY <2>3, <2>5 DEF TypeStep, Lefts
    <3> QED BY <3>1, <3>2
  <2> QED BY <2>1, <2>5, <2>6 DEF TypeStep, Lefts
<1>5. CASE Pasv(c)
  <2>1. k.left > 0 /\ lastport' = lastport /\ lost' = lost
    BY <1>5, PasvStep
  <2>2. PICK u \in Worlds : CtlOnly(u, w, c, GoesTo(Spent(k), "pasv")) /\ Turned(v, u, c)
    BY <1>5, PasvStep
  <2>3. GoesTo(Spent(k), "pasv").left =< k.left
    BY <2>1, <1>b, <1>c
  <2>4. TypeStep(u, w)
    BY <2>2, <2>3, CtlOnlyTypes
  <2> QED BY <2>1, <2>2, <2>4, TurnedAfter
<1>6. CASE Port(c)
  <2>1. /\ k.left > 0 /\ lastport' = lastport + 1 /\ lost' = lost
        /\ Spoils(v, w, c, Spent(k)) \/ Dials(v, w, c, lastport + 1)
    BY <1>6, PortStep
  <2>2. CASE Spoils(v, w, c, Spent(k))
    <3>1. v \in Worlds /\ Spent(k) \in CtlSet /\ v.ctl[c] = Spent(k)
          /\ \A d \in Clients : d # c => v.ctl[d] = w.ctl[d]
      BY <2>2 DEF Spoils
    <3>2. Spent(k).left =< k.left /\ Spent(k).left < k.left
      BY <2>1, <1>0, LeftOf
    <3> QED BY <2>1, <3>1, <3>2, LeftsOne DEF TypeStep
  <2>3. CASE Dials(v, w, c, lastport + 1)
    <3>1. lastport + 1 \in Ports
      BY DEF StatePorts
    <3> QED BY <2>1, <2>3, <3>1, DialsTypes
  <2> QED BY <2>1, <2>2, <2>3
<1>7. CASE List(c)
  <2>1. k.left > 0 /\ lastport' = lastport /\ lost' = lost
    BY <1>7, ListStep
  <2>2. PICK u \in Worlds : CtlOnly(u, w, c, GoesTo(Spent(k), "connList")) /\ Turned(v, u, c)
    BY <1>7, ListStep
  <2>3. GoesTo(Spent(k), "connList").left =< k.left
    BY <2>1, <1>b, <1>c
  <2>4. TypeStep(u, w)
    BY <2>2, <2>3, CtlOnlyTypes
  <2> QED BY <2>1, <2>2, <2>4, TurnedAfter
<1>8. CASE Retr(c)
  <2>1. k.left > 0 /\ lastport' = lastport /\ lost' = lost
    BY <1>8, RetrStep
  <2>2. PICK u \in Worlds : Asks(u, w, c, "Retr", GoesTo(Spent(k), "connRetr")) /\ Turned(v, u, c)
    BY <1>8, RetrStep
  <2>3. GoesTo(Spent(k), "connRetr").left =< k.left
    BY <2>1, <1>b, <1>c
  <2>4. TypeStep(u, w)
    BY <2>2, <2>3, AsksTypes
  <2> QED BY <2>1, <2>2, <2>4, TurnedAfter
<1>9. CASE Stor(c)
  <2>1. k.left > 0 /\ lastport' = lastport /\ lost' = lost
        /\ Asks(v, w, c, "Stor", GoesTo(Spent(k), "sentStor"))
    BY <1>9, StorStep
  <2>3. GoesTo(Spent(k), "sentStor").left =< k.left
    BY <2>1, <1>b, <1>c
  <2> QED BY <2>1, <2>3, AsksTypes
<1>10. CASE Other(c)
  <2>1. k.left > 0 /\ lastport' = lastport /\ lost' = lost /\ CtlOnly(v, w, c, Replied(k))
    BY <1>10, OtherStep
  <2>2. Replied(k).left =< k.left
    BY <2>1, <1>b
  <2> QED BY <2>1, <2>2, CtlOnlyTypes
<1>11. CASE Quit(c)
  <2>1. k.left > 0 /\ lastport' = lastport /\ lost' = lost
    BY <1>11, QuitStep
  <2>2. PICK pc \in {"closing", "quit"} : CtlOnly(v, w, c, GoesTo(Spent(k), pc))
    BY <1>11, QuitStep
  <2>3. GoesTo(Spent(k), pc).left =< k.left
    BY <2>1, <1>b, <1>c
  <2> QED BY <2>1, <2>2, <2>3, CtlOnlyTypes
<1>12. CASE Syn(c)
  <2>1. lastport' = lastport /\ lost' = lost /\ Calls(v, w, c)
    BY <1>12, SynStep
  <2>2. v \in Worlds /\ v.ctl = w.ctl
    BY <2>1 DEF Calls, BlockOnly
  <2> QED BY <2>1, <2>2, LeftsSelf DEF TypeStep
<1> QED BY <1>1, <1>2, <1>3, <1>4, <1>5, <1>6, <1>7, <1>8, <1>9, <1>10, <1>11, <1>12
        DEF ControlNext

LEMMA MarksLefts ==
  ASSUME NEW w \in Worlds, NEW v, NEW b \in Blocks, NEW s, NEW all, Marks(v, w, b, s, all)
  PROVE  Lefts(v, w)
<1> SUFFICES ASSUME NEW d \in Clients PROVE v.ctl[d].left =< w.ctl[d].left
  BY DEF Lefts
<1>1. w.ctl[d] \in CtlSet
  BY WorldEntries
<1>2. w.ctl[d].left =< w.ctl[d].left
  BY <1>1, LeftOf
<1>3. \A m \in {"all", "short", "cut"} : Marked(w.ctl[d], m).left = w.ctl[d].left
  BY DEF Marked, Control
<1> QED BY <1>2, <1>3 DEF Marks

LEMMA DataTypes ==
  ASSUME World \in Worlds, NEW b \in Blocks, DataNext(b)
  PROVE  TypeStep(World', World) /\ lastport' = lastport
<1>1. CASE Rests(World', World, b)
  <2>1. World' \in Worlds /\ World'.ctl = World.ctl
    BY <1>1 DEF Rests, BlockOnly
  <2> QED BY <2>1, DataSteps, LeftsSelf DEF TypeStep
<1>2. ASSUME NEW st \in Phases, NEW flags \in SUBSET FlagNames,
             CalledBack(World', World, b, st, flags)
      PROVE  TypeStep(World', World)
  <2>1. PICK u \in Worlds :
          /\ u.ctl = World.ctl
          /\ \/ Unserved(World', u, b, flags)
             \/ \E i \in Slots, z \in StateSet, all \in BOOLEAN :
                  Served(World', u, b, flags, i, z, all)
    BY <1>2 DEF CalledBack, BlockOnly
  <2>2. CASE Unserved(World', u, b, flags)
    <3>1. World' \in Worlds /\ World'.ctl = World.ctl
      BY <2>1, <2>2 DEF Unserved
    <3> QED BY <3>1, LeftsSelf DEF TypeStep
  <2>3. CASE \E i \in Slots, z \in StateSet, all \in BOOLEAN :
               Served(World', u, b, flags, i, z, all)
    <3>1. PICK i \in Slots, z \in StateSet, all \in BOOLEAN :
            World' \in Worlds /\ Marks(World', u, b, u.st[i], all)
      BY <2>3 DEF Served
    <3>2. Lefts(World', u)
      BY <3>1, MarksLefts
    <3> QED BY <2>1, <3>1, <3>2 DEF TypeStep, Lefts
  <2> QED BY <2>1, <2>2, <2>3
<1> QED BY <1>1, <1>2, DataSteps

\* Types and the count of ports.
TypeInv == World \in Worlds /\ CountInv(World, lastport) /\ lost \in BOOLEAN

LEMMA PortRoom ==
  ASSUME TypeInv
  PROVE  /\ lastport \in Nat /\ lastport < FTPD_BASE_DATA_PORT
         /\ lastport \in Ports /\ lastport + 1 \in StatePorts
<1>1. lastport \in Nat /\ lastport < FTPD_BASE_DATA_PORT
  BY UsedBound, SlotsAreNumbers DEF TypeInv, CountInv
<1>2. FTPD_BASE_DATA_PORT \in Nat /\ FTPD_MAX_DATA_CONNECTIONS \in Nat \ {0}
  BY SizesAssumption
<1> QED BY <1>1, <1>2 DEF Ports, StatePorts

LEMMA LostType ==
  ASSUME lost \in BOOLEAN, Next
  PROVE  lost' \in BOOLEAN
<1>1. ASSUME NEW c \in Clients, ControlNext(c) PROVE lost' \in BOOLEAN
  BY <1>1 DEF ControlNext, Open, ControlAcked, ControlPoll, End, Pasv, Port, List, Retr, Stor,
              Other, Quit, Syn
<1>2. ASSUME NEW b \in Blocks, DataNext(b) PROVE lost' \in BOOLEAN
  <2>1. CASE Fin(b)
    BY <2>1 DEF Fin
  <2>2. CASE Lost(b)
    BY <2>2 DEF Lost
  <2>3. CASE ~Fin(b) /\ ~Lost(b)
    BY <1>2, <2>3 DEF DataNext, Handshake, DataAcked, Rexmit, DataPoll, Data, LastAck, LateFin,
                      Expire, Reused
  <2> QED BY <2>1, <2>2, <2>3
<1> QED BY <1>1, <1>2, Zenon DEF Next

LEMMA TypeInit ==
  ASSUME Init
  PROVE  TypeInv
<1>1. states \in StateTabs
  BY DEF Init, StateTabs
<1>2. listen \in ListenTabs
  BY SlotsAreNumbers DEF Init, ListenTabs
<1>3. conns \in BlockTabs
  <2>1. [st |-> "CLOSED", port |-> 0, out |-> FALSE, who |-> Nobody] \in BlockSet
    BY SlotsAreNumbers DEF BlockSet
  <2> QED BY <2>1 DEF Init, BlockTabs
<1>4. ctl \in CtlTabs
  <2>1. Commands \in 0..Commands
    BY SizesAssumption
  <2>2. Gone(Commands) \in CtlSet
    BY <2>1, GoneFields
  <2> QED BY <2>2 DEF Init, CtlTabs
<1>5. World = Tables(states, listen, conns, ctl, bad) /\ bad \in BOOLEAN
  BY DEF World, Tables, Init
<1>6. World \in Worlds
  BY <1>1, <1>2, <1>3, <1>4, <1>5, TablesIn
<1>7. CountInv(World, lastport)
  <2>1. lastport = 0 /\ Cardinality(Used(World.ctl)) \in Nat
    BY UsedBound DEF Init
  <2> QED BY <2>1 DEF CountInv
<1> QED BY <1>6, <1>7 DEF TypeInv, Init

LEMMA TypeNext ==
  ASSUME TypeInv, [Next]_vars
  PROVE  TypeInv'
<1>0. World \in Worlds /\ lastport + 1 \in StatePorts
  BY PortRoom DEF TypeInv
<1>1. ASSUME TypeStep(World', World), lastport' = lastport
      PROVE  World' \in Worlds /\ CountInv(World', lastport')
  BY <1>0, <1>1, CountKeeps DEF TypeInv, TypeStep
<1>2. ASSUME NEW c \in Clients, ControlNext(c)
      PROVE  World' \in Worlds /\ CountInv(World', lastport')
  <2>1. TypeStep(World', World)
    BY <1>0, <1>2, ControlTypes
  <2>2. CASE lastport' = lastport
    BY <1>1, <2>1, <2>2
  <2>3. CASE /\ World.ctl[c].left > 0 /\ World'.ctl[c].left < World.ctl[c].left
             /\ lastport' = lastport + 1
    BY <1>0, <2>1, <2>3, CountPort DEF TypeInv, TypeStep
  <2> QED BY <1>0, <1>2, <2>2, <2>3, ControlTypes
<1>3. ASSUME NEW b \in Blocks, DataNext(b)
      PROVE  World' \in Worlds /\ CountInv(World', lastport')
  BY <1>0, <1>1, <1>3, DataTypes
<1>4. CASE UNCHANGED vars
  <2>1. World' = World /\ lastport' = lastport /\ lost' = lost
    BY <1>4 DEF vars, World
  <2> QED BY <2>1 DEF TypeInv
<1>5. CASE Next
  <2>1. lost' \in BOOLEAN
    BY <1>5, LostType DEF TypeInv
  <2>2. World' \in Worlds /\ CountInv(World', lastport')
    BY <1>2, <1>3, <1>5 DEF Next
  <2> QED BY <2>1, <2>2 DEF TypeInv
<1> QED BY <1>4, <1>5

\* The invariant holds for any number of clients.
LEMMA TypesHold == Spec => []TypeInv
<1>1. Init => TypeInv
  BY TypeInit
<1>2. TypeInv /\ [Next]_vars => TypeInv'
  BY TypeNext
<1> QED BY <1>1, <1>2, PTL DEF Spec

\* The tables of the FTP server, of uIP's listening ports and of its connections
\* keep their types for any number of clients, slots and blocks; the ports that
\* uip_connect() chooses stay below the passive ones.
THEOREM TypeCorrect == Spec => []TypeOK
<1>1. TypeInv => TypeOK
  <2> SUFFICES ASSUME TypeInv PROVE TypeOK
    OBVIOUS
  <2>1. /\ states \in StateTabs /\ listen \in ListenTabs /\ conns \in BlockTabs
        /\ ctl \in CtlTabs /\ bad \in BOOLEAN
    BY WorldFields, WorldIs DEF TypeInv
  <2>2. lastport \in Ports /\ lost \in BOOLEAN
    BY PortRoom DEF TypeInv
  <2> QED BY <2>1, <2>2 DEF TypeOK, StateTabs, ListenTabs, BlockTabs, CtlTabs, BlockSet, CtlSet
<1> QED BY <1>1, TypesHold, PTL

-----------------------------------------------------------------------------
(* The tables stay in order, for one client whose data connections follow   *)
(* one another.                                                             *)

SingleClient == (\E x : Clients = {x}) /\ ~Overlap

\* A control connection that goes from k to l, with the tables as they are.
Keeps(l, k, w) ==
  /\ l.ready => l.pc \in {"read", "result"}
  /\ l.pc \in {"pasv", "sent227"} => \A b \in Blocks : ~Live(w.cn[b])
  /\ Agreed(l) => Agreed(k) /\ l.port = k.port
  /\ k.pc \in Transfer => l.pc \in Transfer /\ l.port = k.port
  /\ Unasked(l) => Unasked(k)

LEMMA CtlKeeps ==
  ASSUME NEW w, NEW v, v.st = w.st, v.cn = w.cn, NEW k, NEW l, NEW last, NEW lo,
         InOrder(w, k, last, lo), Keeps(l, k, w)
  PROVE  InOrder(v, l, last, lo)
<1>0. /\ PortsInv(w, last) /\ WhoInv(w) /\ AgreedInv(w, k, lo)
      /\ OwnerInv(w, k) /\ StateInv(w, k) /\ SoleInv(w, k)
  BY DEF InOrder
<1>1. PortsInv(v, last) /\ WhoInv(v)
  BY <1>0 DEF PortsInv, WhoInv
<1>2. AgreedInv(v, l, lo)
  <2>1. \A p : Has(v, p) <=> Has(w, p)
    BY HasSame
  <2> QED BY <1>0, <2>1 DEF AgreedInv, Keeps
<1>3. OwnerInv(v, l)
  BY <1>0 DEF OwnerInv, Keeps
<1>4. StateInv(v, l)
  BY <1>0 DEF StateInv, Keeps
<1>5. SoleInv(v, l)
  BY <1>0 DEF SoleInv, Keeps
<1> QED BY <1>1, <1>2, <1>3, <1>4, <1>5 DEF InOrder

LEMMA SweepKeeps ==
  ASSUME NEW w, NEW v, SweepOnly(v, w), NEW k, ~Agreed(k), NEW last, NEW lo,
         InOrder(w, k, last, lo)
  PROVE  InOrder(v, k, last, lo)
<1>0. /\ PortsInv(w, last) /\ WhoInv(w) /\ AgreedInv(w, k, lo)
      /\ OwnerInv(w, k) /\ StateInv(w, k) /\ SoleInv(w, k)
  BY DEF InOrder
<1>1. PortsInv(v, last) /\ WhoInv(v)
  BY <1>0 DEF PortsInv, WhoInv, SweepOnly
<1>2. AgreedInv(v, k, lo)
  BY <1>0 DEF AgreedInv, SweepOnly
<1>3. OwnerInv(v, k)
  BY <1>0 DEF OwnerInv, SweepOnly
<1>4. StateInv(v, k) /\ SoleInv(v, k)
  BY <1>0 DEF StateInv, SoleInv, SweepOnly
<1> QED BY <1>1, <1>2, <1>3, <1>4 DEF InOrder

\* Where a new state may be put.
Vacant(w, k, i, p, last, next) ==
  /\ last \in Nat /\ next \in Nat /\ last =< next /\ next < FTPD_BASE_DATA_PORT
  /\ p = FTPD_BASE_DATA_PORT + i \/ (last < p /\ p =< next)
  /\ k.pc \notin Transfer
  /\ \A b \in Blocks : Live(w.cn[b]) => Opening(w.cn[b]) /\ w.cn[b].port = p
  /\ \A b, d \in Blocks : Live(w.cn[b]) /\ Live(w.cn[d]) => b = d

LEMMA BegunKeeps ==
  ASSUME NEW w \in Worlds, NEW v, NEW c \in Clients, NEW i, NEW p, NEW l,
         Begun(v, w, c, i, p, l), NEW k, NEW last, NEW next, NEW lo,
         InOrder(w, k, last, lo), Vacant(w, k, i, p, last, next), l.port = p,
         l.ready => l.pc = "result",
         l.pc = "sent227" => \A b \in Blocks : ~Live(w.cn[b]),
         l.pc \in {"sent227", "result"}
  PROVE  InOrder(v, l, next, lo)
<1>0. /\ PortsInv(w, last) /\ WhoInv(w) /\ AgreedInv(w, k, lo)
      /\ OwnerInv(w, k) /\ StateInv(w, k) /\ SoleInv(w, k)
  BY DEF InOrder
<1>a. /\ v \in Worlds /\ v.cn = w.cn /\ i \in Slots /\ p \in StatePorts /\ v.st[i] = NewState(p)
      /\ \A j \in Slots : j # i => v.st[j] = w.st[j] \/ v.st[j] = Null
  BY DEF Begun
<1>b. /\ NewState(p) # Null /\ NewState(p).port = p /\ NewState(p).req = "Wait"
      /\ NewState(p).busy = FALSE /\ NewState(p).closed = FALSE /\ NewState(p).at = "wait"
  BY <1>a, NewStateFields, StateFields
<1>c. /\ FTPD_BASE_DATA_PORT \in Nat /\ p \in Nat
      /\ \A j \in Slots : j \in Nat /\ (w.st[j] # Null => w.st[j].port \in Nat)
  BY <1>a, SlotsAreNumbers, WorldEntries, StateFields DEF StatePorts
<1>d. l.pc \notin Transfer
  BY DEF Transfer
<1>1. PortsInv(v, next)
  <2>1. \A j \in Slots : j # i /\ v.st[j] # Null => v.st[j].port # p
    BY <1>0, <1>a, <1>c DEF PortsInv, Vacant
  <2>2. \A j \in Slots : v.st[j] # Null =>
          v.st[j].port = FTPD_BASE_DATA_PORT + j \/ v.st[j].port =< next
    <3>1. \A j \in Slots : j # i /\ v.st[j] # Null =>
            v.st[j].port = FTPD_BASE_DATA_PORT + j \/ v.st[j].port =< next
      BY <1>0, <1>a, <1>c DEF PortsInv, Vacant
    <3>2. v.st[i].port = FTPD_BASE_DATA_PORT + i \/ v.st[i].port =< next
      BY <1>a, <1>b DEF Vacant
    <3> QED BY <3>1, <3>2
  <2>3. \A j, m \in Slots : v.st[j] # Null /\ v.st[m] # Null /\ v.st[j].port = v.st[m].port
                              => j = m
    <3>1. v.st[i].port = p
      BY <1>a, <1>b
    <3>2. \A j, m \in Slots : j # i /\ m # i /\ v.st[j] # Null /\ v.st[m] # Null
                                /\ v.st[j].port = v.st[m].port => j = m
      BY <1>0, <1>a DEF PortsInv
    <3> QED BY <2>1, <3>1, <3>2
  <2> QED BY <2>2, <2>3 DEF PortsInv
<1>2. WhoInv(v)
  BY <1>0, <1>a DEF WhoInv
<1>3. AgreedInv(v, l, lo)
  <2>1. Has(v, p)
    BY <1>a, <1>b, SlotFacts
  <2> QED BY <1>a, <2>1 DEF AgreedInv, Vacant
<1>4. OwnerInv(v, l)
  <2>1. ~Uses(v.st[i]) /\ ~v.st[i].busy
    BY <1>a, <1>b DEF Uses, Requests
  <2>2. \A j \in Slots : j # i /\ v.st[j] # Null =>
          /\ Uses(v.st[j]) \/ v.st[j].busy => v.st[j].owner \in Clients
          /\ ~v.st[j].busy
    BY <1>0, <1>a DEF OwnerInv, Vacant
  <2> QED BY <2>1, <2>2 DEF OwnerInv
<1>5. StateInv(v, l)
  <2>1. \A j \in Slots : v.st[j] # Null /\ v.st[j].port = p => j = i
    BY <1>1, <1>a, <1>b DEF PortsInv
  <2>2. Fresh(v.st[i])
    BY <1>a, <1>b DEF Fresh
  <2>3. \A b \in Blocks : v.cn[b].st \notin {"ESTABLISHED", "LAST_ACK", "FIN_WAIT"}
    BY <1>a DEF Vacant, Live, Opening
  <2> QED BY <2>1, <2>2, <2>3 DEF StateInv
<1>6. SoleInv(v, l)
  <2>1. \A b \in Blocks : Coming(v.cn[b]) => Live(w.cn[b])
    BY <1>a DEF Coming, Opening, Live
  <2> QED BY <1>0, <1>a, <2>1 DEF SoleInv, Vacant
<1> QED BY <1>1, <1>2, <1>3, <1>4, <1>5, <1>6 DEF InOrder

LEMMA AskedKeeps ==
  ASSUME NEW w \in Worlds, NEW v, NEW c \in Clients, NEW i, NEW req, NEW l,
         Asked(v, w, c, i, req, l), NEW last, NEW lo, InOrder(w, w.ctl[c], last, lo),
         Agreed(w.ctl[c]), l.pc \in Transfer, l.port = w.ctl[c].port, ~Unasked(l)
  PROVE  InOrder(v, l, last, lo)
<1> DEFINE k == w.ctl[c]
           s == w.st[i]
<1>0. /\ PortsInv(w, last) /\ WhoInv(w) /\ AgreedInv(w, k, lo)
      /\ OwnerInv(w, k) /\ StateInv(w, k) /\ SoleInv(w, k)
  BY DEF InOrder
<1>a. /\ v \in Worlds /\ v.cn = w.cn /\ i \in Slots /\ s \in StateSet /\ s.port = k.port
      /\ v.st[i] = Requested(s, req, c) /\ req \in Requests
      /\ \A j \in Slots : j # i => v.st[j] = w.st[j]
  BY DEF Asked
<1>b. /\ s # Null /\ v.st[i] # Null /\ v.st[i].port = k.port /\ v.st[i].owner = c
      /\ v.st[i].closed = s.closed /\ v.st[i].connected = s.connected
  <2> HIDE DEF s, k
  <2>1. /\ Requested(s, req, c) \in StateSet /\ Requested(s, req, c).port = s.port
        /\ Requested(s, req, c).owner = c /\ Requested(s, req, c).closed = s.closed
        /\ Requested(s, req, c).connected = s.connected
    <3>1. s \in StateSet /\ req \in Requests
      BY <1>a
    <3>2. AsksOf(Requested(s, req, c), s, req, c)
      BY <3>1, RequestedIs
    <3> QED BY <3>2 DEF AsksOf
  <2>2. s # Null /\ Requested(s, req, c) # Null
    BY <1>a, <2>1, StateFields
  <2> QED BY <1>a, <2>1, <2>2
<1> HIDE DEF k, s
<1>c. w.st[i] = s /\ w.st[i] # Null
  BY <1>b DEF s
<1>d. \A j \in Slots : w.st[j] # Null /\ w.st[j].port = k.port => j = i
  BY <1>0, <1>a, <1>c DEF PortsInv
<1>1. PortsInv(v, last) /\ WhoInv(v)
  <2>1. \A j \in Slots : (v.st[j] # Null <=> w.st[j] # Null) /\ (v.st[j] # Null => v.st[j].port = w.st[j].port)
    BY <1>a, <1>b, <1>c
  <2> QED BY <1>0, <1>a, <2>1 DEF PortsInv, WhoInv
<1>2. AgreedInv(v, l, lo)
  <2>1. Has(v, l.port)
    BY <1>a, <1>b, SlotFacts DEF k
  <2>2. ~l.ready /\ l.pc \notin {"pasv", "sent227"}
    BY DEF Transfer, Unasked
  <2> QED BY <1>0, <1>a, <2>1, <2>2 DEF AgreedInv, k
<1>3. OwnerInv(v, l)
  BY <1>0, <1>a, <1>b DEF OwnerInv, k
<1>4. StateInv(v, l)
  <2>1. \A j \in Slots : v.st[j] # Null /\ v.st[j].port = l.port => j = i
    BY <1>a, <1>d DEF k
  <2>2. \A b \in Blocks : /\ w.cn[b].st = "ESTABLISHED" => s.connected /\ ~s.closed
                          /\ w.cn[b].st \in {"LAST_ACK", "FIN_WAIT"} => s.closed
    BY <1>0, <1>a, <1>c DEF StateInv, k
  <2> QED BY <1>a, <1>b, <2>1, <2>2 DEF StateInv
<1>5. SoleInv(v, l)
  BY <1>0, <1>a DEF SoleInv, k
<1> QED BY <1>1, <1>2, <1>3, <1>4, <1>5 DEF InOrder

LEMMA FreedKeeps ==
  ASSUME NEW w \in Worlds, NEW v, NEW c, NEW port, NEW l, Freed(v, w, c, port, l),
         NEW k, NEW last, NEW lo, InOrder(w, k, last, lo),
         k.pc \in Transfer => port = k.port, ~Agreed(l), l.pc # "pasv"
  PROVE  InOrder(v, l, last, lo)
<1>0. /\ PortsInv(w, last) /\ WhoInv(w) /\ AgreedInv(w, k, lo)
      /\ OwnerInv(w, k) /\ StateInv(w, k) /\ SoleInv(w, k)
  BY DEF InOrder
<1>a. /\ v.cn = w.cn
      /\ \A j \in Slots : v.st[j] = w.st[j] \/ v.st[j] = Null
      /\ Has(w, port) => v.st[SlotOf(w, port)] = Null
  BY DEF Freed
<1>1. PortsInv(v, last) /\ WhoInv(v)
  BY <1>0, <1>a DEF PortsInv, WhoInv
<1>2. AgreedInv(v, l, lo)
  BY DEF AgreedInv, Agreed
<1>3. OwnerInv(v, l)
  <2> SUFFICES ASSUME NEW j \in Slots, v.st[j] # Null
               PROVE  /\ Uses(v.st[j]) \/ v.st[j].busy => v.st[j].owner \in Clients
                      /\ ~v.st[j].busy
    BY DEF OwnerInv
  <2>1. v.st[j] = w.st[j] /\ w.st[j] # Null
    BY <1>a
  <2>2. ASSUME w.st[j].busy PROVE FALSE
    <3>1. w.st[j].port = port
      BY <1>0, <2>1, <2>2 DEF OwnerInv
    <3>2. Has(w, port) /\ SlotOf(w, port) \in Slots /\ w.st[SlotOf(w, port)] # Null
          /\ w.st[SlotOf(w, port)].port = port
      BY <2>1, <3>1, SlotFacts
    <3>3. SlotOf(w, port) = j
      BY <1>0, <2>1, <3>1, <3>2 DEF PortsInv
    <3> QED BY <1>a, <3>2, <3>3
  <2> QED BY <1>0, <2>1, <2>2 DEF OwnerInv
<1>4. StateInv(v, l) /\ SoleInv(v, l)
  BY <1>0, <1>a DEF StateInv, SoleInv
<1> QED BY <1>1, <1>2, <1>3, <1>4 DEF InOrder

\* What a block may become without a callback.
Admits(w, k, b, x) ==
  /\ x.who = Nobody => x.st = "CLOSED"
  /\ x.st \in {"CLOSED", "SYN_RCVD", "SYN_SENT"}
  /\ Live(x) => k.pc \notin {"pasv", "sent227"} /\ (Agreed(k) => x.port = k.port)
  /\ Coming(x) /\ Agreed(k) => \A d \in Blocks : d # b => ~Coming(w.cn[d])
  /\ x.st = "SYN_SENT" => x.port < FTPD_BASE_DATA_PORT

LEMMA BlockKeeps ==
  ASSUME NEW w, NEW v, NEW b \in Blocks, NEW x, BlockOnly(v, w, b, x),
         NEW k, NEW last, NEW lo, InOrder(w, k, last, lo), Admits(w, k, b, x)
  PROVE  InOrder(v, k, last, lo)
<1>0. /\ PortsInv(w, last) /\ WhoInv(w) /\ AgreedInv(w, k, lo)
      /\ OwnerInv(w, k) /\ StateInv(w, k) /\ SoleInv(w, k)
  BY DEF InOrder
<1>a. v.st = w.st /\ v.cn[b] = x /\ \A d \in Blocks : d # b => v.cn[d] = w.cn[d]
  BY DEF BlockOnly
<1>1. PortsInv(v, last) /\ OwnerInv(v, k)
  BY <1>0, <1>a DEF PortsInv, OwnerInv
<1>2. WhoInv(v)
  BY <1>0, <1>a DEF WhoInv, Admits
<1>3. AgreedInv(v, k, lo)
  <2>1. \A p : Has(v, p) <=> Has(w, p)
    BY <1>a, HasSame
  <2> QED BY <1>0, <1>a, <2>1 DEF AgreedInv, Admits
<1>4. StateInv(v, k)
  BY <1>0, <1>a DEF StateInv, Admits
<1>5. SoleInv(v, k)
  BY <1>0, <1>a DEF SoleInv, Admits
<1> QED BY <1>1, <1>2, <1>3, <1>4, <1>5 DEF InOrder

\* A state after a callback, compared with the one before.
LEMMA AfterState ==
  ASSUME NEW s \in StateSet, NEW z, NEW flags, NEW all,
         AfterTurn(z, IF "CONNECTED" \in flags THEN Came(s) ELSE s, flags, all)
  PROVE  /\ z \in StateSet /\ z # Null /\ z.port = s.port /\ z.owner = s.owner
         /\ z.busy => s.busy
         /\ Uses(z) => Uses(s)
         /\ Fresh(s) => Fresh(z)
         /\ s.closed => z.closed
         /\ "CLOSE" \in flags => z.closed
         /\ "CONNECTED" \in flags \/ s.connected => z.closed \/ z.connected
         /\ s.code = 452 => z.code = 452
<1> DEFINE y == IF "CONNECTED" \in flags THEN Came(s) ELSE s
<1>1. /\ y \in StateSet /\ y.port = s.port /\ y.req = s.req /\ y.busy = s.busy
      /\ y.owner = s.owner /\ y.closed = s.closed /\ y.code = s.code /\ y.at = s.at
      /\ "CONNECTED" \in flags \/ s.connected => y.connected
  BY CameFields
<1>2. AfterTurn(z, y, flags, all)
  OBVIOUS
<1> HIDE DEF y
<1>3. z \in StateSet /\ z # Null /\ z.port = s.port /\ z.owner = s.owner
  BY <1>1, <1>2, StateFields DEF AfterTurn
<1>4. (z.busy => s.busy) /\ (s.closed => z.closed) /\ ("CLOSE" \in flags => z.closed)
      /\ (s.code = 452 => z.code = 452)
      /\ ("CONNECTED" \in flags \/ s.connected => z.closed \/ z.connected)
  BY <1>1, <1>2 DEF AfterTurn
<1>5. Uses(y) <=> Uses(s)
  BY <1>1 DEF Uses
<1>6. Uses(z) => Uses(s)
  <2>1. z.at \in {"send", "store"} => Uses(s)
    BY <1>2, <1>5 DEF AfterTurn
  <2>2. z.req \in Requests => s.req \in Requests
    BY <1>1, <1>2 DEF AfterTurn, Requests
  <2> QED BY <2>1, <2>2 DEF Uses
<1>7. Fresh(s) => Fresh(z)
  BY <1>1, <1>2 DEF AfterTurn, Fresh
<1> QED BY <1>3, <1>4, <1>6, <1>7

\* What of a control connection a callback of a data connection leaves.
Same(l, k) == l.pc = k.pc /\ l.port = k.port /\ l.ready = k.ready /\ l.code = k.code

LEMMA SameKeeps ==
  ASSUME NEW w, NEW k, NEW l, Same(l, k), NEW last, NEW lo, InOrder(w, k, last, lo)
  PROVE  InOrder(w, l, last, lo)
<1>0. /\ PortsInv(w, last) /\ WhoInv(w) /\ AgreedInv(w, k, lo)
      /\ OwnerInv(w, k) /\ StateInv(w, k) /\ SoleInv(w, k)
  BY DEF InOrder
<1>1. (Agreed(l) <=> Agreed(k)) /\ (Unasked(l) <=> Unasked(k))
  BY DEF Same, Agreed, Unasked
<1>2. AgreedInv(w, l, lo)
  BY <1>0, <1>1 DEF Same, AgreedInv
<1>3. OwnerInv(w, l)
  BY <1>0 DEF Same, OwnerInv
<1>4. StateInv(w, l)
  BY <1>0, <1>1 DEF Same, StateInv
<1>5. SoleInv(w, l)
  BY <1>0, <1>1 DEF Same, SoleInv
<1> QED BY <1>0, <1>2, <1>3, <1>4, <1>5 DEF InOrder

\* The block after its callback.
LEMMA PhaseAfter ==
  ASSUME NEW k, NEW st, NEW flags, Calling(k, st, flags), NEW closes,
         "CLOSE" \in flags => closes
  PROVE  LET n == NextPhase(st, closes)
         IN /\ Live(k)
            /\ n \in {"ESTABLISHED", "FIN_WAIT", "LAST_ACK", "CLOSED", "TIME_WAIT"}
            /\ n = "ESTABLISHED" =>
                 /\ ~closes
                 /\ (Opening(k) /\ "CONNECTED" \in flags) \/ k.st = "ESTABLISHED"
            /\ n = "FIN_WAIT" => closes
            /\ n = "LAST_ACK" => closes
BY DEF Calling, NextPhase, Live, Opening

\* A callback that found the state in slot i and left z there.
Serves(v, w, b, st, flags, i, z, all) ==
  /\ Calling(w.cn[b], st, flags) /\ i \in Slots
  /\ w.st[i] \in StateSet /\ w.st[i].port = w.cn[b].port
  /\ AfterTurn(z, IF "CONNECTED" \in flags THEN Came(w.st[i]) ELSE w.st[i], flags, all)
  /\ v \in Worlds /\ v.st[i] = z /\ \A j \in Slots : j # i => v.st[j] = w.st[j]
  /\ v.cn[b].st = NextPhase(st, z.closed) /\ v.cn[b].port = w.cn[b].port
  /\ v.cn[b].who = w.cn[b].who /\ \A d \in Blocks : d # b => v.cn[d] = w.cn[d]

LEMMA ServedKeeps ==
  ASSUME NEW w \in Worlds, NEW v, NEW b \in Blocks, NEW flags, NEW st, NEW i, NEW z, NEW all,
         Serves(v, w, b, st, flags, i, z, all),
         NEW k, NEW last, NEW lo, InOrder(w, k, last, lo)
  PROVE  InOrder(v, k, last, lo)
<1>z. /\ Calling(w.cn[b], st, flags) /\ i \in Slots
      /\ w.st[i] \in StateSet /\ w.st[i].port = w.cn[b].port
      /\ AfterTurn(z, IF "CONNECTED" \in flags THEN Came(w.st[i]) ELSE w.st[i], flags, all)
      /\ v \in Worlds /\ v.st[i] = z /\ \A j \in Slots : j # i => v.st[j] = w.st[j]
      /\ v.cn[b].st = NextPhase(st, z.closed) /\ v.cn[b].port = w.cn[b].port
      /\ v.cn[b].who = w.cn[b].who /\ \A d \in Blocks : d # b => v.cn[d] = w.cn[d]
  BY DEF Serves
<1> DEFINE s == w.st[i]
<1>0. /\ PortsInv(w, last) /\ WhoInv(w) /\ AgreedInv(w, k, lo)
      /\ OwnerInv(w, k) /\ StateInv(w, k) /\ SoleInv(w, k)
  BY <1>z DEF InOrder
<1>a. /\ z \in StateSet /\ z # Null /\ z.port = s.port /\ z.owner = s.owner
      /\ z.busy => s.busy
      /\ Uses(z) => Uses(s)
      /\ Fresh(s) => Fresh(z)
      /\ s.closed => z.closed
      /\ "CLOSE" \in flags => z.closed
      /\ "CONNECTED" \in flags \/ s.connected => z.closed \/ z.connected
  BY <1>z, AfterState
<1>b. s # Null
  BY <1>z, StateFields
<1> DEFINE n == NextPhase(st, z.closed)
<1>c. /\ Live(w.cn[b])
      /\ n \in {"ESTABLISHED", "FIN_WAIT", "LAST_ACK", "CLOSED", "TIME_WAIT"}
      /\ n = "ESTABLISHED" =>
           /\ ~z.closed
           /\ (Opening(w.cn[b]) /\ "CONNECTED" \in flags) \/ w.cn[b].st = "ESTABLISHED"
      /\ n = "FIN_WAIT" => z.closed
      /\ n = "LAST_ACK" => z.closed
  BY <1>z, <1>a, PhaseAfter
<1> HIDE DEF n
<1>d. v.cn[b].st = n
  BY <1>z DEF n
<1>e. Coming(v.cn[b]) => Coming(w.cn[b])
  BY <1>z, <1>c, <1>d DEF Coming, Opening
<1>f. \A j \in Slots : (v.st[j] # Null <=> w.st[j] # Null)
                       /\ (w.st[j] # Null => v.st[j].port = w.st[j].port)
  BY <1>z, <1>a, <1>b
<1>1. PortsInv(v, last)
  BY <1>z, <1>0, <1>f DEF PortsInv
<1>2. WhoInv(v)
  <2>1. w.cn[b].who # Nobody
    BY <1>z, <1>0, <1>c DEF WhoInv, Live
  <2> QED BY <1>z, <1>0, <2>1 DEF WhoInv
<1>3. AgreedInv(v, k, lo)
  <2>1. \A p : Has(w, p) => Has(v, p)
    BY <1>z, <1>f, SlotFacts
  <2>2. \A d \in Blocks : Live(v.cn[d]) => Live(w.cn[d]) /\ v.cn[d].port = w.cn[d].port
    BY <1>z, <1>c
  <2> QED BY <1>z, <1>0, <2>1, <2>2 DEF AgreedInv
<1>4. OwnerInv(v, k)
  <2>1. \A j \in Slots : j # i /\ v.st[j] # Null =>
          /\ Uses(v.st[j]) \/ v.st[j].busy => v.st[j].owner \in Clients
          /\ v.st[j].busy => k.pc \in Transfer /\ v.st[j].port = k.port
    BY <1>z, <1>0 DEF OwnerInv
  <2>2. /\ Uses(v.st[i]) \/ v.st[i].busy => v.st[i].owner \in Clients
        /\ v.st[i].busy => k.pc \in Transfer /\ v.st[i].port = k.port
    BY <1>z, <1>0, <1>a, <1>b DEF OwnerInv
  <2> QED BY <1>z, <2>1, <2>2 DEF OwnerInv
<1>5. StateInv(v, k)
  <2> SUFFICES ASSUME NEW j \in Slots, Agreed(k), v.st[j] # Null, v.st[j].port = k.port
               PROVE  /\ Unasked(k) => Fresh(v.st[j])
                      /\ \A d \in Blocks :
                           /\ v.cn[d].st = "ESTABLISHED" => v.st[j].connected /\ ~v.st[j].closed
                           /\ v.cn[d].st \in {"LAST_ACK", "FIN_WAIT"} => v.st[j].closed
    BY <1>z DEF StateInv
  <2>1. s.port = k.port
    BY <1>z, <1>0, <1>c DEF AgreedInv
  <2>2. j = i
    BY <1>z, <1>0, <1>b, <1>f, <2>1 DEF PortsInv
  <2>3. Unasked(k) => Fresh(z)
    BY <1>z, <1>0, <1>a, <1>b, <2>1 DEF StateInv
  <2>4. \A d \in Blocks : /\ w.cn[d].st = "ESTABLISHED" => s.connected /\ ~s.closed
                          /\ w.cn[d].st \in {"LAST_ACK", "FIN_WAIT"} => s.closed
    BY <1>z, <1>0, <1>b, <2>1 DEF StateInv
  <2>5. /\ n = "ESTABLISHED" => z.connected /\ ~z.closed
        /\ n \in {"LAST_ACK", "FIN_WAIT"} => z.closed
    BY <1>z, <1>a, <1>c, <2>4
  <2>6. ASSUME NEW d \in Blocks, d # b
        PROVE  /\ w.cn[d].st = "ESTABLISHED" => z.connected /\ ~z.closed
               /\ w.cn[d].st \in {"LAST_ACK", "FIN_WAIT"} => z.closed
    <3>1. w.cn[d].st = "ESTABLISHED" => ~Coming(w.cn[b])
      BY <1>z, <1>0, <2>6 DEF SoleInv, Coming
    <3>2. w.cn[d].st = "ESTABLISHED" => w.cn[b].st \in {"LAST_ACK", "FIN_WAIT"} \/ FALSE
      BY <1>z, <3>1, <1>c, WorldEntries, BlockFields DEF Coming, Opening, Live, Phases
    <3>3. w.cn[d].st # "ESTABLISHED"
      BY <1>z, <3>2, <2>4
    <3> QED BY <1>z, <3>3, <2>4, <1>a
  <2> QED BY <1>z, <1>d, <2>2, <2>3, <2>5, <2>6
<1>6. SoleInv(v, k)
  <2>1. \A d \in Blocks : Coming(v.cn[d]) => Coming(w.cn[d])
    BY <1>z, <1>e
  <2>2. \A d \in Blocks : v.cn[d].st = "SYN_SENT" => d # b
    BY <1>z, <1>c, <1>d
  <2> QED BY <1>z, <1>0, <2>1, <2>2 DEF SoleInv
<1> QED BY <1>z, <1>1, <1>2, <1>3, <1>4, <1>5, <1>6 DEF InOrder

LEMMA UnservedKeeps ==
  ASSUME NEW w \in Worlds, NEW v, NEW b \in Blocks, NEW flags, NEW st, NEW closes,
         Live(w.cn[b]), st \notin {"SYN_RCVD", "SYN_SENT"},
         st = "ESTABLISHED" => Coming(w.cn[b]),
         ~Has(w, w.cn[b].port), v \in Worlds,
         \A i \in Slots : v.st[i] = w.st[i] \/ v.st[i] = Null,
         v.cn[b].st = NextPhase(st, closes), v.cn[b].port = w.cn[b].port,
         v.cn[b].who = w.cn[b].who, \A d \in Blocks : d # b => v.cn[d] = w.cn[d],
         NEW k, NEW last, NEW lo, InOrder(w, k, last, lo)
  PROVE  InOrder(v, k, last, lo)
<1>0. /\ PortsInv(w, last) /\ WhoInv(w) /\ AgreedInv(w, k, lo)
      /\ OwnerInv(w, k) /\ StateInv(w, k) /\ SoleInv(w, k)
  BY DEF InOrder
<1>a. \A i \in Slots : Agreed(k) /\ w.st[i] # Null => w.st[i].port # k.port
  BY <1>0, SlotFacts DEF AgreedInv
<1>c. v.cn[b].st \notin {"SYN_RCVD", "SYN_SENT"} /\ (Coming(v.cn[b]) => Coming(w.cn[b]))
  BY DEF NextPhase, Coming, Opening
<1>1. PortsInv(v, last) /\ OwnerInv(v, k)
  BY <1>0 DEF PortsInv, OwnerInv
<1>2. WhoInv(v)
  <2>1. w.cn[b].who # Nobody
    BY <1>0 DEF WhoInv, Live
  <2> QED BY <1>0, <2>1 DEF WhoInv
<1>3. AgreedInv(v, k, lo)
  <2>1. Agreed(k) => lo
    BY <1>0 DEF AgreedInv
  <2>2. \A d \in Blocks : Live(v.cn[d]) => Live(w.cn[d]) /\ v.cn[d].port = w.cn[d].port
    OBVIOUS
  <2> QED BY <1>0, <2>1, <2>2 DEF AgreedInv
<1>5. StateInv(v, k)
  BY <1>a DEF StateInv
<1>6. SoleInv(v, k)
  BY <1>0, <1>c DEF SoleInv
<1> QED BY <1>1, <1>2, <1>3, <1>5, <1>6 DEF InOrder

\* The invariant for the one client.
FtpAt(w, c, last, lo) == IF w.bad THEN lo ELSE InOrder(w, w.ctl[c], last, lo)

LEMMA CtlOnlyKeeps ==
  ASSUME NEW w, NEW v, NEW c \in Clients, NEW l, CtlOnly(v, w, c, l), NEW last, NEW lo,
         ~w.bad, InOrder(w, w.ctl[c], last, lo), Keeps(l, w.ctl[c], w)
  PROVE  FtpAt(v, c, last, lo) /\ ~v.bad /\ InOrder(v, l, last, lo)
<1>1. v.st = w.st /\ v.cn = w.cn /\ v.bad = w.bad /\ v.ctl[c] = l
  BY DEF CtlOnly
<1>2. InOrder(v, l, last, lo)
  BY <1>1, CtlKeeps
<1> QED BY <1>1, <1>2 DEF FtpAt

\* The protothread goes on within a transfer, or to where nothing is agreed.
LEMMA GoesKeeps ==
  ASSUME NEW w \in Worlds, NEW c \in Clients, NEW last, NEW lo,
         InOrder(w, w.ctl[c], last, lo), NEW pc \in Pcs,
         \/ /\ w.ctl[c].pc \in Transfer /\ pc \in Transfer
            /\ pc \in {"sent150", "connList"} => w.ctl[c].pc \in {"sent150", "connList"}
         \/ w.ctl[c].pc \in {"greet", "result"} /\ pc = "read"
         \/ w.ctl[c].pc = "quit" /\ pc = "closing"
  PROVE  Keeps(GoesTo(w.ctl[c], pc), w.ctl[c], w)
<1> DEFINE k == w.ctl[c]
           l == GoesTo(k, pc)
<1>1. k \in CtlSet
  BY WorldEntries
<1>2. l.pc = pc /\ l.port = k.port /\ l.ready = k.ready
  BY <1>1, GoesToFields
<1>3. k.ready => k.pc \in {"read", "result"}
  BY DEF InOrder, AgreedInv
<1> HIDE DEF k, l
<1>4. \/ /\ k.pc \in Transfer /\ pc \in Transfer
         /\ pc \in {"sent150", "connList"} => k.pc \in {"sent150", "connList"}
      \/ k.pc \in {"greet", "result"} /\ pc = "read"
      \/ k.pc = "quit" /\ pc = "closing"
  BY DEF k
<1>5. Keeps(l, k, w)
  BY <1>2, <1>3, <1>4 DEF Keeps, Agreed, Unasked, Transfer
<1> QED BY <1>5 DEF k, l

LEMMA TurnedKeeps ==
  ASSUME NEW w \in Worlds, NEW c \in Clients, NEW v, Turned(v, w, c), NEW last, NEW lo,
         last \in Nat, last < FTPD_BASE_DATA_PORT, FtpAt(w, c, last, lo)
  PROVE  FtpAt(v, c, last, lo)
<1> DEFINE k == w.ctl[c]
<1>0. k \in CtlSet
  BY WorldEntries
<1>1. CASE w.bad
  <2>1. v.bad
    BY <1>1 DEF Turned, SweepOnly, Reserves, Begun, CtlOnly, Freed, Spoils
  <2> QED BY <1>1, <2>1 DEF FtpAt
<1>2. CASE ~w.bad
  <2>0. InOrder(w, k, last, lo)
    BY <1>2 DEF FtpAt
  <2>a. /\ k.ready => k.pc \in {"read", "result"}
        /\ k.pc \in {"pasv", "sent227"} => \A b \in Blocks : ~Live(w.cn[b])
        /\ Agreed(k) => lo \/ Has(w, k.port)
    BY <2>0 DEF InOrder, AgreedInv
  <2>1. CASE v = w
    BY <2>1
  <2>2. CASE k.pc = "pasv" /\ SweepOnly(v, w)
    <3>1. ~Agreed(k)
      BY <2>2, <2>a DEF Agreed, Transfer
    <3>2. InOrder(v, k, last, lo)
      BY <2>0, <2>2, <3>1, SweepKeeps
    <3> QED BY <1>2, <2>2, <3>2 DEF FtpAt, SweepOnly
  <2>3. CASE k.pc = "pasv" /\ Reserves(v, w, c)
    <3>1. PICK i \in Slots :
            Begun(v, w, c, i, FTPD_BASE_DATA_PORT + i,
                  Control("sent227", FTPD_BASE_DATA_PORT + i, k.code, k.ready, k.moved, k.left))
      BY <2>3 DEF Reserves
    <3> DEFINE p == FTPD_BASE_DATA_PORT + i
               l == Control("sent227", p, k.code, k.ready, k.moved, k.left)
    <3>2. l.pc = "sent227" /\ l.port = p /\ l.ready = k.ready
      BY DEF Control
    <3>3. Begun(v, w, c, i, p, l) /\ p = FTPD_BASE_DATA_PORT + i
      BY <3>1
    <3> HIDE DEF l, p
    <3>4. ~l.ready /\ (\A b \in Blocks : ~Live(w.cn[b])) /\ k.pc \notin Transfer
      BY <2>3, <2>a, <3>2 DEF Transfer
    <3>5. Vacant(w, k, i, p, last, last)
      BY <3>3, <3>4 DEF Vacant
    <3>6. InOrder(v, l, last, lo)
      BY <2>0, <3>2, <3>3, <3>4, <3>5, BegunKeeps
    <3>7. v.ctl[c] = l /\ v.bad = w.bad
      BY <3>3 DEF Begun
    <3> QED BY <1>2, <3>6, <3>7 DEF FtpAt
  <2>4. CASE k.pc = "connList" /\ CtlOnly(v, w, c, GoesTo(k, "sent150"))
    <3>1. Keeps(GoesTo(k, "sent150"), k, w)
      BY <2>0, <2>4, GoesKeeps, PcNames DEF Transfer
    <3> QED BY <1>2, <2>0, <2>4, <3>1, CtlOnlyKeeps
  <2>5. CASE k.pc = "connRetr" /\ CtlOnly(v, w, c, GoesTo(k, "sent125"))
    <3>1. Keeps(GoesTo(k, "sent125"), k, w)
      BY <2>0, <2>5, GoesKeeps, PcNames DEF Transfer
    <3> QED BY <1>2, <2>0, <2>5, <3>1, CtlOnlyKeeps
  <2>6. CASE k.pc \in {"busy", "disc"} /\ CtlOnly(v, w, c, GoesTo(k, "disc"))
    <3>1. Keeps(GoesTo(k, "disc"), k, w)
      BY <2>0, <2>6, GoesKeeps, PcNames DEF Transfer
    <3> QED BY <1>2, <2>0, <2>6, <3>1, CtlOnlyKeeps
  <2>7. CASE k.pc \in {"busy", "disc"} /\ Has(w, k.port)
             /\ Freed(v, w, c, k.port, EndsWith(k, StateOf(w, k.port).code))
    <3> DEFINE l == EndsWith(k, StateOf(w, k.port).code)
               port == k.port
    <3>1. l.pc = "result" /\ l.ready = k.ready
      BY DEF EndsWith, Control
    <3>2. Freed(v, w, c, port, l)
      BY <2>7
    <3> HIDE DEF l
    <3>3. ~Agreed(l) /\ l.pc # "pasv"
      BY <2>7, <2>a, <3>1 DEF Agreed, Transfer
    <3>4. InOrder(v, l, last, lo)
      BY <2>0, <3>2, <3>3, FreedKeeps
    <3>5. v.ctl[c] = l /\ v.bad = w.bad
      BY <3>2 DEF Freed
    <3> QED BY <1>2, <3>4, <3>5 DEF FtpAt
  <2>8. CASE k.pc \in {"busy", "disc"} /\ ~Has(w, k.port) /\ Spoils(v, w, c, k)
    <3>1. lo
      BY <2>8, <2>a DEF Agreed, Transfer
    <3> QED BY <2>8, <3>1 DEF FtpAt, Spoils
  <2> QED BY <2>1, <2>2, <2>3, <2>4, <2>5, <2>6, <2>7, <2>8 DEF Turned
<1> QED BY <1>1, <1>2

LEMMA AsksKeeps ==
  ASSUME NEW w \in Worlds, NEW v, NEW c \in Clients, NEW req, NEW l, Asks(v, w, c, req, l),
         NEW last, NEW lo, ~w.bad, InOrder(w, w.ctl[c], last, lo),
         Agreed(w.ctl[c]), l.pc \in Transfer, l.port = w.ctl[c].port, ~Unasked(l)
  PROVE  FtpAt(v, c, last, lo)
<1> DEFINE k == w.ctl[c]
<1>1. CASE Has(w, k.port) /\ Asked(v, w, c, SlotOf(w, k.port), req, l)
  <2>1. InOrder(v, l, last, lo)
    BY <1>1, AskedKeeps
  <2> QED BY <1>1, <2>1 DEF FtpAt, Asked
<1>2. CASE ~Has(w, k.port) /\ Spoils(v, w, c, l)
  <2>1. lo
    BY <1>2 DEF InOrder, AgreedInv
  <2> QED BY <1>2, <2>1 DEF FtpAt, Spoils
<1> QED BY <1>1, <1>2 DEF Asks

LEMMA AnswersKeeps ==
  ASSUME NEW w \in Worlds, NEW c \in Clients, NEW v, Answers(v, w, c), NEW last, NEW lo,
         last \in Nat, last < FTPD_BASE_DATA_PORT, ~w.bad, InOrder(w, w.ctl[c], last, lo)
  PROVE  FtpAt(v, c, last, lo)
<1> DEFINE k == w.ctl[c]
<1>0. k \in CtlSet
  BY WorldEntries
<1>a. /\ k.ready => k.pc \in {"read", "result"}
      /\ k.pc \in {"pasv", "sent227"} => \A b \in Blocks : ~Live(w.cn[b])
  BY DEF InOrder, AgreedInv
<1>b. "busy" \in Pcs /\ "disc" \in Pcs /\ "closing" \in Pcs /\ "read" \in Pcs
  BY PcNames
<1>1. CASE k.pc = "sent227" /\ CtlOnly(v, w, c, Readied(k))
  <2>1. Readied(k).pc = "read" /\ Readied(k).port = k.port /\ Readied(k).ready
    <3>1. Ready(k) \in CtlSet /\ Ready(k).port = k.port /\ Ready(k).ready = TRUE
      BY <1>0, ReadyFields
    <3> QED BY <3>1, <1>b, GoesToFields DEF Readied
  <2>2. Keeps(Readied(k), k, w)
    <3> HIDE DEF k
    <3> QED BY <1>1, <2>1 DEF Keeps, Agreed, Unasked, Transfer
  <2> QED BY <1>1, <2>2, CtlOnlyKeeps
<1>2. CASE k.pc = "sent150" /\ \E u \in Worlds : /\ Asks(u, w, c, "List", GoesTo(k, "busy"))
                                                 /\ Turned(v, u, c)
  <2> DEFINE l == GoesTo(k, "busy")
  <2>1. PICK u \in Worlds : Asks(u, w, c, "List", l) /\ Turned(v, u, c)
    BY <1>2
  <2>2. l.pc = "busy" /\ l.port = k.port /\ l.ready = k.ready
    BY <1>0, <1>b, GoesToFields
  <2> HIDE DEF l, k
  <2>3. l.pc \in Transfer /\ ~Unasked(l) /\ Agreed(k)
    BY <1>2, <1>a, <2>2 DEF Transfer, Unasked, Agreed
  <2>4. FtpAt(u, c, last, lo)
    BY <2>1, <2>2, <2>3, AsksKeeps DEF k
  <2> QED BY <2>1, <2>4, TurnedKeeps
<1>3. CASE k.pc = "sent125" /\ \E u \in Worlds : /\ CtlOnly(u, w, c, GoesTo(k, "busy"))
                                                 /\ Turned(v, u, c)
  <2>1. PICK u \in Worlds : CtlOnly(u, w, c, GoesTo(k, "busy")) /\ Turned(v, u, c)
    BY <1>3
  <2>2. Keeps(GoesTo(k, "busy"), k, w)
    BY <1>3, <1>b, GoesKeeps DEF Transfer
  <2>3. FtpAt(u, c, last, lo)
    BY <2>1, <2>2, CtlOnlyKeeps
  <2> QED BY <2>1, <2>3, TurnedKeeps
<1>4. CASE k.pc = "sentStor" /\ \E u \in Worlds : /\ CtlOnly(u, w, c, GoesTo(k, "disc"))
                                                  /\ Turned(v, u, c)
  <2>1. PICK u \in Worlds : CtlOnly(u, w, c, GoesTo(k, "disc")) /\ Turned(v, u, c)
    BY <1>4
  <2>2. Keeps(GoesTo(k, "disc"), k, w)
    BY <1>4, <1>b, GoesKeeps DEF Transfer
  <2>3. FtpAt(u, c, last, lo)
    BY <2>1, <2>2, CtlOnlyKeeps
  <2> QED BY <2>1, <2>3, TurnedKeeps
<1>5. CASE k.pc = "quit" /\ CtlOnly(v, w, c, GoesTo(k, "closing"))
  <2>1. Keeps(GoesTo(k, "closing"), k, w)
    BY <1>5, <1>b, GoesKeeps
  <2> QED BY <1>5, <2>1, CtlOnlyKeeps
<1>6. CASE k.pc \in {"greet", "result"} /\ CtlOnly(v, w, c, GoesTo(k, "read"))
  <2>1. Keeps(GoesTo(k, "read"), k, w)
    BY <1>6, <1>b, GoesKeeps
  <2> QED BY <1>6, <2>1, CtlOnlyKeeps
<1> QED BY <1>1, <1>2, <1>3, <1>4, <1>5, <1>6 DEF Answers

\* Where no connection of the one client is open, none is.
LEMMA NoneLive ==
  ASSUME NEW w \in Worlds, NEW c, Clients = {c}, WhoInv(w), NoneLingers(w, c), ~Overlap
  PROVE  \A b \in Blocks : ~Live(w.cn[b])
<1>1. \A b \in Blocks : w.cn[b].who \in Owners
  BY WorldEntries, BlockFields
<1> QED BY <1>1 DEF Owners, WhoInv, NoneLingers, Done, Live

\* A control connection that has read a command, whose transfer is still agreed.
LEMMA CommandKeeps ==
  ASSUME NEW w \in Worlds, NEW k \in CtlSet, k.pc = "read", k.left > 0, NEW pc \in Pcs,
         pc \in {"read", "pasv", "connList", "closing", "quit"},
         pc = "pasv" => \A b \in Blocks : ~Live(w.cn[b]),
         pc = "connList" => k.ready
  PROVE  Keeps(GoesTo(Spent(k), pc), k, w)
<1>1. Spent(k) \in CtlSet /\ Spent(k).port = k.port /\ Spent(k).ready = FALSE
  BY SpentFields
<1> DEFINE l == GoesTo(Spent(k), pc)
<1>2. l.pc = pc /\ l.port = k.port /\ l.ready = FALSE
  BY <1>1, GoesToFields
<1> HIDE DEF l
<1>3. Keeps(l, k, w)
  BY <1>2 DEF Keeps, Agreed, Unasked, Transfer
<1> QED BY <1>3 DEF l

LEMMA SpentKeeps ==
  ASSUME NEW w \in Worlds, NEW k \in CtlSet, k.pc = "read", k.left > 0
  PROVE  Keeps(Spent(k), k, w) /\ ~Agreed(Spent(k)) /\ Spent(k).pc = "read"
<1>1. Spent(k) \in CtlSet /\ Spent(k).port = k.port /\ Spent(k).ready = FALSE /\ Spent(k).pc = "read"
  BY SpentFields
<1> QED BY <1>1 DEF Keeps, Agreed, Unasked, Transfer

\* What the control connections need of the world they start from.
Steady(w, c, last, lo) ==
  /\ w \in Worlds /\ Clients = {c} /\ ~Overlap /\ ~w.bad
  /\ last \in Nat /\ last < FTPD_BASE_DATA_PORT
  /\ InOrder(w, w.ctl[c], last, lo)

LEMMA PasvKeeps ==
  ASSUME NEW w, NEW c, NEW last, NEW lo, Steady(w, c, last, lo), NEW u \in Worlds, NEW v,
         w.ctl[c].pc = "read", w.ctl[c].left > 0, NoneLingers(w, c),
         CtlOnly(u, w, c, GoesTo(Spent(w.ctl[c]), "pasv")), Turned(v, u, c)
  PROVE  FtpAt(v, c, last, lo)
<1>0. w \in Worlds /\ c \in Clients /\ w.ctl[c] \in CtlSet /\ "pasv" \in Pcs
  BY WorldEntries, PcNames DEF Steady
<1>1. \A b \in Blocks : ~Live(w.cn[b])
  BY <1>0, NoneLive DEF Steady, InOrder
<1>2. Keeps(GoesTo(Spent(w.ctl[c]), "pasv"), w.ctl[c], w)
  BY <1>0, <1>1, CommandKeeps
<1>3. FtpAt(u, c, last, lo)
  BY <1>0, <1>2, CtlOnlyKeeps DEF Steady
<1> QED BY <1>0, <1>3, TurnedKeeps DEF Steady

LEMMA ListKeeps ==
  ASSUME NEW w, NEW c, NEW last, NEW lo, Steady(w, c, last, lo), NEW u \in Worlds, NEW v,
         w.ctl[c].pc = "read", w.ctl[c].left > 0, w.ctl[c].ready,
         CtlOnly(u, w, c, GoesTo(Spent(w.ctl[c]), "connList")), Turned(v, u, c)
  PROVE  FtpAt(v, c, last, lo)
<1>0. w \in Worlds /\ c \in Clients /\ w.ctl[c] \in CtlSet /\ "connList" \in Pcs
  BY WorldEntries, PcNames DEF Steady
<1>2. Keeps(GoesTo(Spent(w.ctl[c]), "connList"), w.ctl[c], w)
  BY <1>0, CommandKeeps
<1>3. FtpAt(u, c, last, lo)
  BY <1>0, <1>2, CtlOnlyKeeps DEF Steady
<1> QED BY <1>0, <1>3, TurnedKeeps DEF Steady

\* The commands that set a request at once.
LEMMA AskingKeeps ==
  ASSUME NEW w, NEW c, NEW last, NEW lo, Steady(w, c, last, lo), NEW u, NEW req,
         NEW pc \in {"connRetr", "sentStor"},
         w.ctl[c].pc = "read", w.ctl[c].left > 0, w.ctl[c].ready,
         Asks(u, w, c, req, GoesTo(Spent(w.ctl[c]), pc))
  PROVE  FtpAt(u, c, last, lo)
<1> DEFINE k == w.ctl[c]
           l == GoesTo(Spent(k), pc)
<1>0. w \in Worlds /\ c \in Clients /\ k \in CtlSet /\ pc \in Pcs
  BY WorldEntries, PcNames DEF Steady
<1>1. Spent(k) \in CtlSet /\ Spent(k).port = k.port /\ Spent(k).ready = FALSE
  BY <1>0, SpentFields
<1>2. l.pc = pc /\ l.port = k.port /\ l.ready = FALSE
  BY <1>0, <1>1, GoesToFields
<1>3. Asks(u, w, c, req, l)
  OBVIOUS
<1> HIDE DEF l, k
<1>4. l.pc \in Transfer /\ ~Unasked(l) /\ Agreed(k)
  BY <1>2 DEF Transfer, Unasked, Agreed, k
<1> QED BY <1>0, <1>2, <1>3, <1>4, AsksKeeps DEF Steady, k

LEMMA DialsKeeps ==
  ASSUME NEW w, NEW c, NEW last, NEW lo, Steady(w, c, last, lo), NEW v,
         w.ctl[c].pc = "read", w.ctl[c].left > 0, NoneLingers(w, c),
         last + 1 < FTPD_BASE_DATA_PORT, last + 1 \in StatePorts,
         Dials(v, w, c, last + 1)
  PROVE  FtpAt(v, c, last + 1, lo)
<1> DEFINE k == w.ctl[c]
           q == Spent(k)
           l == Told(q, last + 1)
<1>0. w \in Worlds /\ c \in Clients /\ k \in CtlSet /\ last \in Nat /\ c \in Owners
      /\ last + 1 \in Ports /\ FTPD_BASE_DATA_PORT \in Nat
  BY WorldEntries, SlotsAreNumbers DEF Steady, Owners, StatePorts
<1>1. PICK p : p = last + 1
  OBVIOUS
<1>2. q \in CtlSet /\ Keeps(q, k, w) /\ ~Agreed(q) /\ q.pc = "read"
  BY <1>0, SpentFields, SpentKeeps
<1>3. PICK b \in Blocks, r \in Worlds, u \in Worlds, i \in Slots :
        /\ w.cn[b].st \in {"CLOSED", "TIME_WAIT"}
        /\ CtlOnly(r, w, c, q)
        /\ BlockOnly(u, r, b, Block("SYN_SENT", p, FALSE, c))
        /\ Begun(v, u, c, i, p, l)
  BY <1>1 DEF Dials
<1>4. l.pc = "result" /\ l.port = p
  <2>1. q \in CtlSet /\ p \in Ports /\ l = Told(q, p)
    BY <1>0, <1>1, <1>2
  <2> HIDE DEF k, q, l
  <2>2. ToldOf(l, q, p)
    BY <2>1, ToldFields
  <2> QED BY <2>2 DEF ToldOf
<1> DEFINE x == Block("SYN_SENT", p, FALSE, c)
<1>5. x.st = "SYN_SENT" /\ x.port = p /\ x.who = c
  BY DEF Block
<1> HIDE DEF k, q, l, x
<1>6. InOrder(r, q, last, lo)
  BY <1>0, <1>2, <1>3, CtlOnlyKeeps DEF Steady, k
<1>7. \A d \in Blocks : ~Live(r.cn[d])
  <2>1. \A d \in Blocks : ~Live(w.cn[d])
    BY <1>0, NoneLive DEF Steady, InOrder
  <2> QED BY <1>3, <2>1 DEF CtlOnly
<1>8. Admits(r, q, b, x)
  <2>1. c # Nobody
    BY <1>0, SizesAssumption
  <2> QED BY <1>1, <1>2, <1>5, <2>1 DEF Admits
<1>9. BlockOnly(u, r, b, x)
  BY <1>3 DEF x
<1>10. InOrder(u, q, last, lo)
  BY <1>6, <1>8, <1>9, BlockKeeps
<1>11. Vacant(u, q, i, p, last, p)
  <2>1. u.cn[b] = x /\ \A d \in Blocks : d # b => ~Live(u.cn[d])
    BY <1>7, <1>9 DEF BlockOnly
  <2>2. last \in Nat /\ last < p /\ p =< p /\ p \in Nat /\ p < FTPD_BASE_DATA_PORT
          /\ last =< p
    BY <1>0, <1>1
  <2>3. q.pc \notin Transfer
    BY <1>2 DEF Transfer
  <2> QED BY <1>5, <2>1, <2>2, <2>3 DEF Vacant, Opening
<1>12. InOrder(v, l, p, lo)
  <2>1. Begun(v, u, c, i, p, l) /\ u \in Worlds /\ c \in Clients
    BY <1>0, <1>3
  <2>2. /\ l.ready => l.pc = "result"
        /\ l.pc = "sent227" => \A d \in Blocks : ~Live(u.cn[d])
        /\ l.pc \in {"sent227", "result"}
    BY <1>4
  <2> QED BY <1>4, <1>10, <1>11, <2>1, <2>2, BegunKeeps
<1>13. v.ctl[c] = l /\ ~v.bad
  BY <1>3 DEF Begun, BlockOnly, CtlOnly, Steady
<1>14. FtpAt(v, c, p, lo)
  BY <1>12, <1>13 DEF FtpAt
<1> QED BY <1>1, <1>14

LEMMA CallsKeeps ==
  ASSUME NEW w, NEW c, NEW last, NEW lo, Steady(w, c, last, lo), NEW v,
         w.ctl[c].ready, FTPD_BASE_DATA_PORT =< w.ctl[c].port,
         \A b \in Blocks : w.cn[b].who = c /\ w.cn[b].port = w.ctl[c].port
                             => w.cn[b].st # "ESTABLISHED",
         \A b \in Blocks : w.cn[b].who = c => w.cn[b].st # "SYN_RCVD",
         Calls(v, w, c)
  PROVE  FtpAt(v, c, last, lo)
<1> DEFINE k == w.ctl[c]
           x == Block("SYN_RCVD", k.port, FALSE, c)
<1>0. w \in Worlds /\ Clients = {c} /\ k \in CtlSet /\ ~w.bad /\ InOrder(w, k, last, lo)
  BY WorldEntries DEF Steady
<1>1. PICK b \in Blocks : BlockOnly(v, w, b, x)
  BY DEF Calls
<1>2. x.st = "SYN_RCVD" /\ x.port = k.port /\ x.who = c
  BY DEF Block
<1>3. v.ctl[c] = k /\ ~v.bad
  BY <1>0, <1>1 DEF BlockOnly
<1>a. k.port \in Nat /\ FTPD_BASE_DATA_PORT \in Nat /\ FTPD_BASE_DATA_PORT =< k.port
  BY <1>0, CtlFields, SlotsAreNumbers
<1>b. k.ready
  OBVIOUS
<1>c. /\ \A d \in Blocks : w.cn[d].who = c /\ w.cn[d].port = k.port => w.cn[d].st # "ESTABLISHED"
      /\ \A d \in Blocks : w.cn[d].who = c => w.cn[d].st # "SYN_RCVD"
  OBVIOUS
<1> HIDE DEF x, k
<1>4. k.pc \in {"read", "result"} /\ Agreed(k)
      /\ \A d \in Blocks : Live(w.cn[d]) => w.cn[d].port = k.port
  BY <1>0, <1>b DEF InOrder, AgreedInv, Agreed
<1>5. \A d \in Blocks : ~Coming(w.cn[d])
  <2> SUFFICES ASSUME NEW d \in Blocks, Coming(w.cn[d]) PROVE FALSE
    OBVIOUS
  <2>1. Live(w.cn[d])
    BY DEF Coming, Opening, Live
  <2>2. w.cn[d].who = c
    <3>1. w.cn[d].who \in Owners
      BY <1>0, WorldEntries, BlockFields
    <3> QED BY <1>0, <2>1, <3>1 DEF Owners, InOrder, WhoInv, Live
  <2>3. w.cn[d].st = "SYN_SENT" /\ w.cn[d].port = k.port
    BY <1>4, <1>c, <2>1, <2>2 DEF Coming, Opening
  <2>4. w.cn[d].port < FTPD_BASE_DATA_PORT
    BY <1>0, <2>3 DEF InOrder, SoleInv
  <2> QED BY <1>a, <2>3, <2>4
<1>6. Admits(w, k, b, x)
  <2>1. c # Nobody
    BY <1>0, SizesAssumption
  <2> QED BY <1>2, <1>4, <1>5, <2>1 DEF Admits
<1>7. InOrder(v, k, last, lo)
  BY <1>0, <1>1, <1>6, BlockKeeps
<1> QED BY <1>3, <1>7 DEF FtpAt

LEMMA EndKeeps ==
  ASSUME NEW w, NEW c, NEW last, NEW lo, Steady(w, c, last, lo), NEW u \in Worlds, NEW v,
         Turned(u, w, c) \/ Answers(u, w, c),
         Freed(v, u, c, IF w.ctl[c].pc = "closing" THEN 0 ELSE u.ctl[c].port,
               Gone(w.ctl[c].left))
  PROVE  FtpAt(v, c, last, lo)
<1> DEFINE k == w.ctl[c]
           l == Gone(k.left)
           port == IF k.pc = "closing" THEN 0 ELSE u.ctl[c].port
<1>0. w \in Worlds /\ c \in Clients /\ k \in CtlSet
  BY WorldEntries DEF Steady
<1>1. FtpAt(u, c, last, lo)
  <2>1. FtpAt(w, c, last, lo)
    BY DEF Steady, FtpAt
  <2> QED BY <1>0, <2>1, TurnedKeeps, AnswersKeeps DEF Steady
<1>2. l.pc = "none" /\ l.ready = FALSE
  BY DEF Gone
<1>3. Freed(v, u, c, port, l)
  OBVIOUS
<1>4. u.ctl[c].pc \in Transfer => port = u.ctl[c].port
  <2>1. CASE k.pc = "closing"
    <3>1. u = w
      BY <2>1 DEF Turned, Answers
    <3> QED BY <2>1, <3>1 DEF Transfer
  <2> QED BY <2>1
<1>5. v.ctl[c] = l /\ v.bad = u.bad
  BY <1>3 DEF Freed
<1> HIDE DEF k, l, port
<1>6. ~Agreed(l) /\ l.pc # "pasv"
  BY <1>2 DEF Agreed, Transfer
<1>7. CASE u.bad
  BY <1>1, <1>5, <1>7 DEF FtpAt
<1>8. CASE ~u.bad
  <2>1. InOrder(u, u.ctl[c], last, lo)
    BY <1>1, <1>8 DEF FtpAt
  <2>2. InOrder(v, l, last, lo)
    BY <2>1, <1>3, <1>4, <1>6, FreedKeeps
  <2> QED BY <1>5, <1>8, <2>2 DEF FtpAt
<1> QED BY <1>7, <1>8

\* One step of the control connection.
LEMMA ControlKeeps ==
  ASSUME NEW c, Steady(World, c, lastport, lost), ControlNext(c),
         lastport' < FTPD_BASE_DATA_PORT, lastport + 1 \in StatePorts
  PROVE  FtpAt(World', c, lastport', lost')
<1> DEFINE w == World
           k == w.ctl[c]
<1>0. w \in Worlds /\ c \in Clients /\ Clients = {c} /\ ~Overlap /\ ~w.bad
      /\ InOrder(w, k, lastport, lost) /\ lastport \in Nat /\ lastport < FTPD_BASE_DATA_PORT /\ FtpAt(w, c, lastport, lost)
      /\ k \in CtlSet
  BY WorldEntries DEF Steady, FtpAt
<1>1. CASE Open(c)
  <2> DEFINE l == GoesTo(Gone(k.left - 1), "greet")
  <2>1. /\ k.pc = "none" /\ k.left > 0 /\ CtlOnly(World', w, c, l)
        /\ lastport' = lastport /\ lost' = lost
    BY <1>0, <1>1, OpenStep
  <2>2. l.pc = "greet" /\ l.ready = FALSE
    BY DEF GoesTo, Control, Gone
  <2> HIDE DEF l, k, w
  <2>3. Keeps(l, k, w)
    BY <2>1, <2>2 DEF Keeps, Agreed, Unasked, Transfer
  <2>4. FtpAt(World', c, lastport, lost)
    BY <1>0, <2>1, <2>3, CtlOnlyKeeps DEF k
  <2> QED BY <2>1, <2>4
<1>2. CASE ControlAcked(c)
  <2>1. Answers(World', w, c) /\ lastport' = lastport /\ lost' = lost
    BY <1>0, <1>2, ControlAckedStep
  <2> HIDE DEF w
  <2>2. FtpAt(World', c, lastport, lost)
    BY <1>0, <2>1, AnswersKeeps
  <2> QED BY <2>1, <2>2
<1>3. CASE ControlPoll(c)
  <2>1. Turned(World', w, c) /\ lastport' = lastport /\ lost' = lost
    BY <1>0, <1>3, ControlPollStep
  <2> HIDE DEF w
  <2>2. FtpAt(World', c, lastport, lost)
    BY <1>0, <2>1, TurnedKeeps
  <2> QED BY <2>1, <2>2
<1>4. CASE End(c)
  <2>1. PICK u \in Worlds :
          /\ Turned(u, w, c) \/ Answers(u, w, c)
          /\ Freed(World', u, c, IF k.pc = "closing" THEN 0 ELSE u.ctl[c].port, Gone(k.left))
    BY <1>0, <1>4, EndStep
  <2>2. lastport' = lastport /\ lost' = lost
    BY <1>0, <1>4, EndStep
  <2> HIDE DEF w
  <2>3. FtpAt(World', c, lastport, lost)
    BY <2>1, EndKeeps DEF w
  <2> QED BY <2>2, <2>3
<1>5. CASE Pasv(c)
  <2>1. /\ k.pc = "read" /\ k.left > 0 /\ NoneLingers(w, c)
        /\ \E u \in Worlds : CtlOnly(u, w, c, GoesTo(Spent(k), "pasv")) /\ Turned(World', u, c)
        /\ lastport' = lastport /\ lost' = lost
    BY <1>0, <1>5, PasvStep
  <2>2. FtpAt(World', c, lastport, lost)
    BY <2>1, PasvKeeps
  <2> QED BY <2>1, <2>2
<1>6. CASE Port(c)
  <2>1. /\ k.pc = "read" /\ k.left > 0 /\ NoneLingers(w, c)
        /\ \/ NewBlocks(w.cn) = {} /\ Spoils(World', w, c, Spent(k))
           \/ Dials(World', w, c, lastport + 1)
        /\ lastport' = lastport + 1 /\ lost' = lost
    BY <1>0, <1>6, PortStep
  <2>2. NewBlocks(w.cn) # {}
    <3>1. 0 \in Blocks
      BY SizesAssumption DEF Blocks
    <3>2. w.cn[0].st \in {"CLOSED", "TIME_WAIT"}
      BY <1>0, <2>1, <3>1, NoneLive DEF InOrder, Live
    <3> HIDE DEF w
    <3>3. NewBlocks(w.cn) # {}
      BY <3>1, <3>2 DEF NewBlocks
    <3> QED BY <3>3
  <2>3. FtpAt(World', c, lastport + 1, lost)
    BY <2>1, <2>2, DialsKeeps
  <2> QED BY <2>1, <2>3
<1>7. CASE List(c)
  <2>1. /\ k.pc = "read" /\ k.left > 0 /\ k.ready
        /\ \E u \in Worlds : CtlOnly(u, w, c, GoesTo(Spent(k), "connList")) /\ Turned(World', u, c)
        /\ lastport' = lastport /\ lost' = lost
    BY <1>0, <1>7, ListStep
  <2>2. FtpAt(World', c, lastport, lost)
    BY <2>1, ListKeeps
  <2> QED BY <2>1, <2>2
<1>8. CASE Retr(c)
  <2>1. /\ k.pc = "read" /\ k.left > 0 /\ k.ready
        /\ lastport' = lastport /\ lost' = lost
    BY <1>0, <1>8, RetrStep
  <2>2. PICK u \in Worlds : /\ Asks(u, w, c, "Retr", GoesTo(Spent(k), "connRetr"))
                            /\ Turned(World', u, c)
    BY <1>0, <1>8, RetrStep
  <2>3. FtpAt(u, c, lastport, lost)
    BY <2>1, <2>2, AskingKeeps
  <2>4. FtpAt(World', c, lastport, lost)
    BY <1>0, <2>2, <2>3, TurnedKeeps
  <2> QED BY <2>1, <2>4
<1>9. CASE Stor(c)
  <2>1. /\ k.pc = "read" /\ k.left > 0 /\ k.ready
        /\ Asks(World', w, c, "Stor", GoesTo(Spent(k), "sentStor"))
        /\ lastport' = lastport /\ lost' = lost
    BY <1>0, <1>9, StorStep
  <2>2. FtpAt(World', c, lastport, lost)
    BY <2>1, AskingKeeps
  <2> QED BY <2>1, <2>2
<1>10. CASE Other(c)
  <2>1. /\ k.pc = "read" /\ k.left > 0 /\ CtlOnly(World', w, c, Replied(k))
        /\ lastport' = lastport /\ lost' = lost
    BY <1>0, <1>10, OtherStep
  <2>2. Replied(k).pc = "result" /\ Replied(k).port = k.port /\ Replied(k).ready = k.ready
    BY <1>0, <2>1, RepliedFields
  <2>3. Keeps(Replied(k), k, w)
    <3> DEFINE l == Replied(k)
    <3> HIDE DEF l, k
    <3>1. Keeps(l, k, w)
      BY <2>1, <2>2 DEF Keeps, Agreed, Unasked, Transfer, l
    <3> QED BY <3>1 DEF l
  <2>4. FtpAt(World', c, lastport, lost)
    BY <1>0, <2>1, <2>3, CtlOnlyKeeps
  <2> QED BY <2>1, <2>4
<1>11. CASE Quit(c)
  <2>1. /\ k.pc = "read" /\ k.left > 0
        /\ lastport' = lastport /\ lost' = lost
    BY <1>0, <1>11, QuitStep
  <2>2. PICK pc \in {"closing", "quit"} : CtlOnly(World', w, c, GoesTo(Spent(k), pc))
    BY <1>0, <1>11, QuitStep
  <2>3. pc \in Pcs
    BY PcNames
  <2>4. Keeps(GoesTo(Spent(k), pc), k, w)
    BY <1>0, <2>1, <2>3, CommandKeeps
  <2>5. FtpAt(World', c, lastport, lost)
    BY <1>0, <2>2, <2>4, CtlOnlyKeeps
  <2> QED BY <2>1, <2>5
<1>12. CASE Syn(c)
  <2>1. /\ w.ctl[c].ready
        /\ \A b \in Blocks : w.cn[b].who = c /\ w.cn[b].port = w.ctl[c].port
                               => w.cn[b].st # "ESTABLISHED"
        /\ \A b \in Blocks : w.cn[b].who = c => w.cn[b].st # "SYN_RCVD"
        /\ FTPD_BASE_DATA_PORT =< w.ctl[c].port
        /\ Calls(World', w, c)
        /\ lastport' = lastport /\ lost' = lost
    BY <1>0, <1>12, SynStep
  <2>2. FtpAt(World', c, lastport, lost)
    BY <2>1, CallsKeeps
  <2> QED BY <2>1, <2>2
<1> QED BY <1>1, <1>2, <1>3, <1>4, <1>5, <1>6, <1>7, <1>8, <1>9, <1>10, <1>11, <1>12
       DEF ControlNext

LEMMA RestsKeep ==
  ASSUME NEW w, NEW c, NEW last, NEW lo, Steady(w, c, last, lo), NEW b \in Blocks, NEW v,
         Rests(v, w, b)
  PROVE  FtpAt(v, c, last, lo)
<1> DEFINE k == w.ctl[c]
<1>1. PICK x \in BlockSet : BlockOnly(v, w, b, x) /\ x.st = "CLOSED"
  BY DEF Rests
<1>2. Admits(w, k, b, x)
  BY <1>1 DEF Admits, Live, Coming, Opening
<1>3. v.ctl[c] = k /\ ~v.bad
  BY <1>1 DEF BlockOnly, Steady
<1>4. InOrder(v, k, last, lo)
  BY <1>1, <1>2, BlockKeeps DEF Steady
<1> QED BY <1>3, <1>4 DEF FtpAt

\* What a control connection has after the callback of a data connection.
LEMMA MarksSame ==
  ASSUME NEW w \in Worlds, NEW v, NEW b \in Blocks, NEW s, NEW all, Marks(v, w, b, s, all),
         NEW d \in Clients
  PROVE  Same(v.ctl[d], w.ctl[d])
<1>1. w.ctl[d] \in CtlSet
  BY WorldEntries
<1>2. \A m \in {"all", "short", "cut"} : Same(Marked(w.ctl[d], m), w.ctl[d])
  BY <1>1, MarkedFields DEF Same, Moves
<1>3. Same(w.ctl[d], w.ctl[d])
  BY DEF Same
<1> QED BY <1>2, <1>3 DEF Marks

LEMMA CalledKeeps ==
  ASSUME NEW w, NEW c, NEW last, NEW lo, Steady(w, c, last, lo), NEW b \in Blocks, NEW v,
         NEW st, NEW flags, Calling(w.cn[b], st, flags), CalledBack(v, w, b, st, flags)
  PROVE  FtpAt(v, c, last, lo)
<1> DEFINE k == w.ctl[c]
           a == w.cn[b]
<1>0. w \in Worlds /\ c \in Clients /\ ~w.bad /\ InOrder(w, k, last, lo)
  BY DEF Steady
<1>1. PICK o \in BOOLEAN, u \in Worlds :
        /\ BlockOnly(u, w, b, Block(st, a.port, o, a.who))
        /\ \/ Unserved(v, u, b, flags)
           \/ \E i \in Slots, z \in StateSet, all \in BOOLEAN : Served(v, u, b, flags, i, z, all)
  BY DEF CalledBack
<1>2. /\ u.st = w.st /\ u.ctl = w.ctl /\ u.bad = w.bad
      /\ u.cn[b].st = st /\ u.cn[b].port = a.port /\ u.cn[b].who = a.who
      /\ \A d \in Blocks : d # b => u.cn[d] = w.cn[d]
  BY <1>1 DEF BlockOnly, Block
<1>3. CASE Unserved(v, u, b, flags)
  <2> PICK closes \in BOOLEAN : closes = ("REXMIT" \notin flags)
    OBVIOUS
  <2>1. /\ v.cn[b].st = NextPhase(st, closes) /\ v.cn[b].port = a.port /\ v.cn[b].who = a.who
        /\ \A d \in Blocks : d # b => v.cn[d] = w.cn[d]
    BY <1>2, <1>3 DEF Unserved, Block
  <2>2. /\ v \in Worlds /\ v.bad = w.bad /\ v.ctl = w.ctl
        /\ \A i \in Slots : v.st[i] = w.st[i] \/ v.st[i] = Null
    BY <1>2, <1>3 DEF Unserved
  <2>3. ~Has(w, a.port)
    BY <1>2, <1>3, HasSame DEF Unserved
  <2>4. /\ Live(a) /\ st \notin {"SYN_RCVD", "SYN_SENT"}
        /\ st = "ESTABLISHED" => Coming(a)
    BY DEF Calling, Live, Coming, Opening
  <2> HIDE DEF k
  <2>5. InOrder(v, k, last, lo)
    BY <1>0, <2>1, <2>2, <2>3, <2>4, UnservedKeeps
  <2>6. v.ctl[c] = k /\ ~v.bad
    BY <1>0, <2>2 DEF k
  <2> QED BY <2>5, <2>6 DEF FtpAt
<1>4. CASE \E i \in Slots, z \in StateSet, all \in BOOLEAN : Served(v, u, b, flags, i, z, all)
  <2>1. PICK i \in Slots, z \in StateSet, all \in BOOLEAN : Served(v, u, b, flags, i, z, all)
    BY <1>4
  <2>2. /\ v.cn[b].st = NextPhase(st, z.closed) /\ v.cn[b].port = a.port /\ v.cn[b].who = a.who
        /\ \A d \in Blocks : d # b => v.cn[d] = w.cn[d]
    BY <1>2, <2>1 DEF Served, Block
  <2>3. /\ v \in Worlds /\ v.bad = w.bad
        /\ w.st[i] \in StateSet /\ w.st[i].port = a.port
        /\ v.st[i] = z /\ \A j \in Slots : j # i => v.st[j] = w.st[j]
    BY <1>2, <2>1 DEF Served
  <2>4. AfterTurn(z, IF "CONNECTED" \in flags THEN Came(w.st[i]) ELSE w.st[i], flags, all)
    BY <1>2, <2>1 DEF Served
  <2>5. Same(v.ctl[c], k)
    <3>1. Marks(v, u, b, u.st[i], all)
      BY <2>1 DEF Served
    <3>2. Same(v.ctl[c], u.ctl[c])
      BY <1>0, <3>1, MarksSame
    <3> QED BY <1>2, <3>2
  <2>a. Serves(v, w, b, st, flags, i, z, all)
    BY <2>2, <2>3, <2>4 DEF Serves
  <2> HIDE DEF k
  <2>6. InOrder(v, k, last, lo)
    BY <1>0, <2>a, ServedKeeps
  <2>7. InOrder(v, v.ctl[c], last, lo)
    BY <2>5, <2>6, SameKeeps
  <2>8. ~v.bad
    BY <1>0, <2>3
  <2> QED BY <2>7, <2>8 DEF FtpAt
<1> QED BY <1>1, <1>3, <1>4

\* It does no harm to have lost more.
LEMMA MoreLost ==
  ASSUME NEW w, NEW c, NEW last, NEW lo, NEW more, lo => more, FtpAt(w, c, last, lo)
  PROVE  FtpAt(w, c, last, more)
<1>1. CASE w.bad
  BY <1>1 DEF FtpAt
<1>2. CASE ~w.bad
  <2>1. InOrder(w, w.ctl[c], last, lo)
    BY <1>2 DEF FtpAt
  <2>2. AgreedInv(w, w.ctl[c], more)
    BY <2>1 DEF InOrder, AgreedInv
  <2>3. InOrder(w, w.ctl[c], last, more)
    BY <2>1, <2>2 DEF InOrder
  <2> QED BY <1>2, <2>3 DEF FtpAt
<1> QED BY <1>1, <1>2

LEMMA DataKeeps ==
  ASSUME NEW c, Steady(World, c, lastport, lost), NEW b \in Blocks, DataNext(b)
  PROVE  FtpAt(World', c, lastport', lost')
<1>1. World \in Worlds
  BY DEF Steady
<1>2. /\ lastport' = lastport /\ (lost => lost')
      /\ \/ Rests(World', World, b)
         \/ \E st \in Phases, flags \in SUBSET FlagNames :
              /\ Calling(World.cn[b], st, flags)
              /\ CalledBack(World', World, b, st, flags)
  BY <1>1, DataSteps
<1>3. FtpAt(World', c, lastport, lost)
  BY <1>2, RestsKeep, CalledKeeps
<1> QED BY <1>2, <1>3, MoreLost

\* The invariant of the tables.
OrderInv == FtpInv(World, lastport, lost)

LEMMA OneOf ==
  ASSUME NEW c, Clients = {c}, NEW w, NEW last, NEW lo
  PROVE  FtpInv(w, last, lo) <=> FtpAt(w, c, last, lo)
BY DEF FtpInv, FtpAt

LEMMA OrderInit ==
  ASSUME Init
  PROVE  OrderInv
<1> DEFINE w == World
<1>1. ~w.bad /\ \A c \in Clients : w.ctl[c].pc = "none" /\ w.ctl[c].ready = FALSE
  BY WorldIs DEF Init, Gone
<1>2. \A i \in Slots : w.st[i] = Null
  BY WorldIs DEF Init
<1>3. \A b \in Blocks : w.cn[b].st = "CLOSED"
  BY WorldIs DEF Init
<1> HIDE DEF w
<1>4. ASSUME NEW c \in Clients PROVE InOrder(w, w.ctl[c], lastport, lost)
  <2> DEFINE k == w.ctl[c]
  <2>0. k.pc = "none" /\ k.ready = FALSE
    BY <1>1
  <2> HIDE DEF k
  <2>a. ~Agreed(k)
    BY <2>0 DEF Agreed, Transfer
  <2>1. PortsInv(w, lastport) /\ WhoInv(w) /\ OwnerInv(w, k) /\ StateInv(w, k)
    BY <1>2, <1>3 DEF PortsInv, WhoInv, OwnerInv, StateInv
  <2>2. AgreedInv(w, k, lost) /\ SoleInv(w, k)
    BY <1>3, <2>0, <2>a DEF AgreedInv, SoleInv
  <2> QED BY <2>1, <2>2 DEF InOrder, k
<1> QED BY <1>1, <1>4 DEF OrderInv, FtpInv, w

LEMMA OrderNext ==
  ASSUME SingleClient, TypeInv, TypeInv', OrderInv, [Next]_vars
  PROVE  OrderInv'
<1>1. PICK c : Clients = {c} /\ ~Overlap
  BY DEF SingleClient
<1>2. CASE UNCHANGED vars
  <2>1. World' = World /\ lastport' = lastport /\ lost' = lost
    BY <1>2 DEF vars, World
  <2> QED BY <2>1 DEF OrderInv
<1>3. CASE Next
  <2>1. ~World.bad
    BY <1>3, WorldIs DEF Next
  <2>2. World \in Worlds /\ lastport \in Nat /\ lastport < FTPD_BASE_DATA_PORT
        /\ lastport + 1 \in StatePorts
    BY PortRoom DEF TypeInv
  <2>3. lastport' < FTPD_BASE_DATA_PORT
    <3>1. World' \in Worlds /\ CountInv(World', lastport')
      BY DEF TypeInv
    <3>2. lastport' \in Nat /\ lastport' =< Cardinality(Used(World'.ctl))
      BY <3>1 DEF CountInv
    <3>3. Cardinality(Used(World'.ctl)) \in Nat /\ Cardinality(Used(World'.ctl)) < FTPD_BASE_DATA_PORT
      BY UsedBound
    <3> QED BY <3>2, <3>3, SlotsAreNumbers
  <2>4. FtpAt(World, c, lastport, lost)
    BY <1>1, OneOf DEF OrderInv
  <2>5. Steady(World, c, lastport, lost)
    BY <1>1, <2>1, <2>2, <2>4 DEF Steady, FtpAt
  <2>6. FtpAt(World', c, lastport', lost')
    BY <1>1, <1>3, <2>2, <2>3, <2>5, ControlKeeps, DataKeeps DEF Next
  <2>7. FtpInv(World', lastport', lost')
    BY <1>1, <2>6, OneOf
  <2> QED BY <2>7 DEF OrderInv
<1> QED BY <1>2, <1>3

LEMMA OrderHolds == SingleClient => (Spec => []OrderInv)
<1> SUFFICES ASSUME SingleClient PROVE Spec => []OrderInv
  OBVIOUS
<1>1. Init => OrderInv
  BY OrderInit
<1>2. TypeInv /\ TypeInv' /\ OrderInv /\ [Next]_vars => OrderInv'
  BY OrderNext
<1>3. Spec => []TypeInv
  BY TypesHold
<1> QED BY <1>1, <1>2, <1>3, PTL DEF Spec

\* With one client no handler uses a data state that is not there, unless a data
\* connection was lost: the reset, the time-out, or the client that closes before
\* its transfer, after which the sweep for old states takes the state away.
THEOREM NullsOnlyAfterLoss == SingleClient => (Spec => []NoNullUse)
<1> SUFFICES ASSUME SingleClient PROVE Spec => []NoNullUse
  OBVIOUS
<1>1. OrderInv => NoNullUse
  BY WorldIs DEF OrderInv, FtpInv, NoNullUse
<1>2. Spec => []OrderInv
  BY OrderHolds
<1> QED BY <1>1, <1>2, PTL

-----------------------------------------------------------------------------
(* A transfer that the client is told is complete.                          *)

\* A control connection that goes from k to l within a transfer, or out of one.
Carries(l, k) ==
  /\ ResultInv(l)
  /\ l.pc \in Transfer => k.pc \in Transfer /\ l.port = k.port /\ l.moved = k.moved

LEMMA CarriesHonest ==
  ASSUME NEW w, NEW v, NEW k, NEW l, v.st = w.st, v.cn = w.cn, v.bad = w.bad,
         HonestAt(w, k), Carries(l, k)
  PROVE  HonestAt(v, l)
<1>1. ResultInv(l)
  BY DEF Carries
<1>2. CASE w.bad
  BY <1>1, <1>2, HasSame DEF HonestAt, Carries
<1>3. CASE ~w.bad
  <2>1. TransferInv(w, k)
    BY <1>3 DEF HonestAt
  <2>2. TransferInv(v, l)
    BY <2>1 DEF TransferInv, Carries, Settled
  <2> QED BY <1>1, <1>3, <2>2 DEF HonestAt
<1> QED BY <1>2, <1>3

\* Where there is no transfer there is nothing more to show.
LEMMA OutsideHonest ==
  ASSUME NEW v, NEW l, l.pc \notin Transfer, l.pc = "result" => l.code # 226
  PROVE  HonestAt(v, l)
BY DEF HonestAt, ResultInv, TransferInv

LEMMA GoesHonest ==
  ASSUME NEW w \in Worlds, NEW v, NEW c \in Clients, NEW pc \in Pcs, pc # "result",
         pc \in Transfer => w.ctl[c].pc \in Transfer,
         HonestAt(w, w.ctl[c]), CtlOnly(v, w, c, GoesTo(w.ctl[c], pc))
  PROVE  HonestAt(v, v.ctl[c])
<1> DEFINE k == w.ctl[c]
           l == GoesTo(k, pc)
<1>1. k \in CtlSet
  BY WorldEntries
<1>2. l.pc = pc /\ l.port = k.port /\ l.moved = k.moved
  BY <1>1, GoesToFields
<1>3. v.st = w.st /\ v.cn = w.cn /\ v.bad = w.bad /\ v.ctl[c] = l
  BY DEF CtlOnly
<1> HIDE DEF l, k
<1>4. k.pc \in Transfer \/ pc \notin Transfer
  BY DEF k
<1>5. Carries(l, k)
  BY <1>2, <1>4 DEF Carries, ResultInv
<1>6. HonestAt(w, k)
  BY DEF k
<1> QED BY <1>3, <1>5, <1>6, CarriesHonest

LEMMA TurnedHonest ==
  ASSUME NEW w \in Worlds, NEW c \in Clients, NEW v, Turned(v, w, c), HonestAt(w, w.ctl[c])
  PROVE  HonestAt(v, v.ctl[c])
<1> DEFINE k == w.ctl[c]
<1>0. k \in CtlSet
  BY WorldEntries
<1>a. \A pc \in {"sent150", "sent125", "disc"} : pc \in Pcs /\ pc # "result"
  BY PcNames
<1>b. \A pc \in {"connList", "connRetr", "busy", "disc"} : pc \in Transfer
  BY DEF Transfer
<1>1. CASE v = w
  BY <1>1
<1>2. CASE k.pc = "pasv" /\ SweepOnly(v, w)
  <2>1. v.ctl[c].pc = "pasv"
    BY <1>2 DEF SweepOnly
  <2>2. v.ctl[c].pc \notin Transfer
    BY <2>1 DEF Transfer
  <2> QED BY <2>1, <2>2, OutsideHonest
<1>3. CASE k.pc = "pasv" /\ Reserves(v, w, c)
  <2>1. v.ctl[c].pc = "sent227"
    BY <1>3 DEF Reserves, Begun, Control
  <2>2. v.ctl[c].pc \notin Transfer
    BY <2>1 DEF Transfer
  <2> QED BY <2>1, <2>2, OutsideHonest
<1>4. CASE k.pc = "connList" /\ CtlOnly(v, w, c, GoesTo(k, "sent150"))
  BY <1>4, <1>a, <1>b, GoesHonest
<1>5. CASE k.pc = "connRetr" /\ CtlOnly(v, w, c, GoesTo(k, "sent125"))
  BY <1>5, <1>a, <1>b, GoesHonest
<1>6. CASE k.pc \in {"busy", "disc"} /\ CtlOnly(v, w, c, GoesTo(k, "disc"))
  BY <1>6, <1>a, <1>b, GoesHonest
<1>7. CASE k.pc \in {"busy", "disc"} /\ ~Connected(w, k.port) /\ Has(w, k.port)
           /\ Freed(v, w, c, k.port, EndsWith(k, StateOf(w, k.port).code))
  <2> DEFINE i == SlotOf(w, k.port)
             code == StateOf(w, k.port).code
             l == EndsWith(k, code)
  <2>1. i \in Slots /\ w.st[i] # Null /\ w.st[i].port = k.port /\ w.st[i] \in StateSet
        /\ StateOf(w, k.port) = w.st[i]
    BY <1>7, SlotFacts
  <2>2. ~w.st[i].connected /\ code = w.st[i].code
    BY <1>7, <2>1 DEF Connected
  <2>3. v.ctl[c] = l
    BY <1>7 DEF Freed
  <2>4. l.pc = "result" /\ l.code = code /\ l.moved = k.moved
    BY DEF EndsWith, Control
  <2>k. k.pc \in {"busy", "disc"} /\ HonestAt(w, k) /\ Has(w, k.port)
    BY <1>7
  <2> HIDE DEF k, i, l, code
  <2>5. k.pc \in Transfer /\ l.pc \notin Transfer
    BY <2>k, <2>4 DEF Transfer
  <2>6. ~w.bad /\ TransferInv(w, k)
    BY <2>k, <2>5 DEF HonestAt
  <2>7. Settled(w.st[i], k)
    BY <2>1, <2>2, <2>5, <2>6 DEF TransferInv
  <2>8. ResultInv(l)
    BY <2>2, <2>4, <2>7 DEF Settled, ResultInv
  <2> QED BY <2>3, <2>5, <2>8 DEF HonestAt, TransferInv
<1>8. CASE k.pc \in {"busy", "disc"} /\ ~Has(w, k.port) /\ Spoils(v, w, c, k)
  <2>1. v.ctl[c] = k /\ v.bad /\ v.st = w.st
    BY <1>8 DEF Spoils
  <2>2. ~Has(v, k.port)
    BY <1>8, <2>1, HasSame
  <2> QED BY <1>8, <2>1, <2>2 DEF HonestAt
<1> QED BY <1>1, <1>2, <1>3, <1>4, <1>5, <1>6, <1>7, <1>8 DEF Turned

\* What a request leaves of a state.
SameTurn(z, s) ==
  /\ z.port = s.port /\ z.closed = s.closed /\ z.connected = s.connected
  /\ z.code = s.code /\ z.at = s.at

LEMMA RequestedTurn ==
  ASSUME NEW s \in StateSet, NEW req \in Requests, NEW c \in Clients
  PROVE  SameTurn(Requested(s, req, c), s) /\ Requested(s, req, c).req = req
<1>1. AsksOf(Requested(s, req, c), s, req, c)
  BY RequestedIs
<1> QED BY <1>1 DEF SameTurn, AsksOf

\* A request while the client's transfer is in order.
LEMMA AsksHonest ==
  ASSUME NEW w \in Worlds, NEW v, NEW c \in Clients, NEW req, NEW l, Asks(v, w, c, req, l),
         l.port = w.ctl[c].port, l.pc # "result", ~w.bad, TransferInv(w, l)
  PROVE  HonestAt(v, v.ctl[c])
<1> DEFINE k == w.ctl[c]
<1>1. CASE Has(w, k.port) /\ Asked(v, w, c, SlotOf(w, k.port), req, l)
  <2> PICK i : i = SlotOf(w, k.port)
    OBVIOUS
  <2>1. /\ v.ctl[c] = l /\ ~v.bad /\ v.cn = w.cn /\ i \in Slots /\ w.st[i] \in StateSet
        /\ req \in Requests /\ v.st[i] = Requested(w.st[i], req, c)
        /\ \A j \in Slots : j # i => v.st[j] = w.st[j]
    BY <1>1 DEF Asked
  <2>2. /\ w.st[i] # Null
        /\ v.st[i].port = w.st[i].port /\ v.st[i].req = req /\ v.st[i].closed = w.st[i].closed
        /\ v.st[i].connected = w.st[i].connected /\ v.st[i].code = w.st[i].code
        /\ v.st[i].at = w.st[i].at
    <3> PICK s \in StateSet : s = w.st[i]
      BY <2>1
    <3> HIDE DEF k
    <3>a. s \in StateSet /\ req \in Requests
      BY <2>1
    <3>1. SameTurn(Requested(s, req, c), s) /\ Requested(s, req, c).req = req
      BY <3>a, RequestedTurn
    <3>2. s # Null
      BY StateFields
    <3>3. v.st[i] = Requested(s, req, c)
      BY <2>1
    <3> QED BY <3>1, <3>2, <3>3 DEF SameTurn
  <2>3. req # "Quit"
    BY <2>1 DEF Requests
  <2>4. TransferInv(v, l)
    <3> SUFFICES ASSUME l.pc \in Transfer PROVE TransferInv(v, l)
      BY DEF TransferInv
    <3>1. \A b \in Blocks : ~Opening(v.cn[b])
      BY <2>1 DEF TransferInv
    <3>2. ASSUME NEW j \in Slots, v.st[j] # Null, v.st[j].port = l.port
          PROVE  /\ v.st[j].closed => ~v.st[j].connected
                 /\ v.st[j].req = "Quit" => v.st[j].closed
                 /\ ~v.st[j].connected \/ v.st[j].at = "yield" => Settled(v.st[j], l)
      <4>1. CASE j = i
        <5>1. w.st[i].port = l.port
          BY <2>2, <3>2, <4>1
        <5>2. /\ w.st[i].closed => ~w.st[i].connected
              /\ ~w.st[i].connected \/ w.st[i].at = "yield" => Settled(w.st[i], l)
          BY <2>1, <2>2, <5>1 DEF TransferInv
        <5>3. Settled(w.st[i], l) => Settled(v.st[i], l)
          BY <2>2 DEF Settled
        <5> QED BY <2>2, <2>3, <4>1, <5>2, <5>3
      <4>2. CASE j # i
        BY <2>1, <3>2, <4>2 DEF TransferInv
      <4> QED BY <4>1, <4>2
    <3> QED BY <3>1, <3>2 DEF TransferInv
  <2> QED BY <2>1, <2>4 DEF HonestAt, ResultInv
<1>2. CASE ~Has(w, k.port) /\ Spoils(v, w, c, l)
  <2>1. v.ctl[c] = l /\ v.bad /\ v.st = w.st
    BY <1>2 DEF Spoils
  <2>2. ~Has(v, l.port)
    BY <1>2, <2>1, HasSame
  <2> QED BY <2>1, <2>2 DEF HonestAt, ResultInv
<1> QED BY <1>1, <1>2 DEF Asks

LEMMA AnswersHonest ==
  ASSUME NEW w \in Worlds, NEW c \in Clients, NEW v, Answers(v, w, c), ~w.bad,
         HonestAt(w, w.ctl[c])
  PROVE  HonestAt(v, v.ctl[c])
<1> DEFINE k == w.ctl[c]
<1>0. k \in CtlSet
  BY WorldEntries
<1>a. \A pc \in {"busy", "disc", "closing", "read"} : pc \in Pcs /\ pc # "result"
  BY PcNames
<1>b. \A pc \in {"sent150", "sent125", "sentStor", "busy", "disc"} : pc \in Transfer
  BY DEF Transfer
<1>c. \A pc \in {"closing", "read"} : pc \notin Transfer
  BY DEF Transfer
<1>1. CASE k.pc = "sent227" /\ CtlOnly(v, w, c, Readied(k))
  <2>1. v.ctl[c].pc = "read"
    BY <1>1 DEF CtlOnly, Readied, GoesTo, Control
  <2> QED BY <1>a, <1>c, <2>1, OutsideHonest
<1>2. CASE k.pc = "sent150" /\ \E u \in Worlds : /\ Asks(u, w, c, "List", GoesTo(k, "busy"))
                                                 /\ Turned(v, u, c)
  <2> DEFINE l == GoesTo(k, "busy")
  <2>1. PICK u \in Worlds : Asks(u, w, c, "List", l) /\ Turned(v, u, c)
    BY <1>2
  <2>2. l.pc = "busy" /\ l.port = k.port /\ l.moved = k.moved
    BY <1>0, <1>a, GoesToFields
  <2>3. TransferInv(w, k) /\ k.pc \in Transfer
    BY <1>2, <1>b DEF HonestAt
  <2> HIDE DEF l, k
  <2>4. TransferInv(w, l)
    BY <2>2, <2>3 DEF TransferInv, Settled
  <2>5. HonestAt(u, u.ctl[c])
    BY <2>1, <2>2, <2>4, AsksHonest DEF k
  <2> QED BY <2>1, <2>5, TurnedHonest
<1>3. CASE k.pc = "sent125" /\ \E u \in Worlds : /\ CtlOnly(u, w, c, GoesTo(k, "busy"))
                                                 /\ Turned(v, u, c)
  <2>1. PICK u \in Worlds : CtlOnly(u, w, c, GoesTo(k, "busy")) /\ Turned(v, u, c)
    BY <1>3
  <2>2. HonestAt(u, u.ctl[c])
    BY <1>3, <1>a, <1>b, <2>1, GoesHonest
  <2> QED BY <2>1, <2>2, TurnedHonest
<1>4. CASE k.pc = "sentStor" /\ \E u \in Worlds : /\ CtlOnly(u, w, c, GoesTo(k, "disc"))
                                                  /\ Turned(v, u, c)
  <2>1. PICK u \in Worlds : CtlOnly(u, w, c, GoesTo(k, "disc")) /\ Turned(v, u, c)
    BY <1>4
  <2>2. HonestAt(u, u.ctl[c])
    BY <1>4, <1>a, <1>b, <2>1, GoesHonest
  <2> QED BY <2>1, <2>2, TurnedHonest
<1>5. CASE k.pc = "quit" /\ CtlOnly(v, w, c, GoesTo(k, "closing"))
  BY <1>5, <1>a, <1>c, GoesHonest
<1>6. CASE k.pc \in {"greet", "result"} /\ CtlOnly(v, w, c, GoesTo(k, "read"))
  BY <1>6, <1>a, <1>c, GoesHonest
<1> QED BY <1>1, <1>2, <1>3, <1>4, <1>5, <1>6 DEF Answers

\* The transfer begins over a connection that is open: the state is connected
\* and its protothread waits.
LEMMA EntersHonest ==
  ASSUME NEW w, NEW c, NEW last, NEW lo, Steady(w, c, last, lo), ~HandshakeLag,
         w.ctl[c].ready, OpenedIn(w, c), NEW l, l.port = w.ctl[c].port
  PROVE  TransferInv(w, l)
<1> DEFINE k == w.ctl[c]
<1>0. StateInv(w, k) /\ SoleInv(w, k)
  BY DEF Steady, InOrder
<1>1. PICK b \in Blocks : w.cn[b].st = "ESTABLISHED"
  BY DEF OpenedIn
<1>2. Agreed(k) /\ Unasked(k)
  BY DEF Agreed, Unasked
<1>3. \A d \in Blocks : ~Opening(w.cn[d])
  <2> SUFFICES ASSUME NEW d \in Blocks, Opening(w.cn[d]) PROVE FALSE
    OBVIOUS
  <2>1. d = b
    BY <1>0, <1>1, <1>2 DEF SoleInv, Coming
  <2> QED BY <1>1, <2>1 DEF Opening
<1>4. ASSUME NEW i \in Slots, w.st[i] # Null, w.st[i].port = l.port
      PROVE  w.st[i].connected /\ ~w.st[i].closed /\ w.st[i].req = "Wait" /\ w.st[i].at = "wait"
  BY <1>0, <1>1, <1>2, <1>4 DEF StateInv, Fresh
<1> QED BY <1>3, <1>4 DEF TransferInv

LEMMA SpentGoes ==
  ASSUME NEW k \in CtlSet, k.left > 0, NEW pc \in Pcs
  PROVE  /\ Spent(k) \in CtlSet /\ Spent(k).port = k.port
         /\ GoesTo(Spent(k), pc).pc = pc /\ GoesTo(Spent(k), pc).port = k.port
<1>1. Spent(k) \in CtlSet /\ Spent(k).port = k.port
  BY SpentFields
<1> QED BY <1>1, GoesToFields

LEMMA ControlHonest ==
  ASSUME NEW c, Steady(World, c, lastport, lost), ControlNext(c), ~HandshakeLag,
         HonestAt(World, World.ctl[c]), lastport + 1 \in StatePorts
  PROVE  HonestAt(World', World'.ctl[c])
<1> DEFINE w == World
           k == w.ctl[c]
<1>0. w \in Worlds /\ c \in Clients /\ Clients = {c} /\ ~w.bad /\ InOrder(w, k, lastport, lost)
      /\ k \in CtlSet
  BY WorldEntries DEF Steady
<1>a. \A pc \in {"connList", "connRetr", "sentStor", "pasv", "closing", "quit"} : pc \in Pcs
  BY PcNames
<1>b. \A pc \in {"none", "greet", "pasv", "closing", "quit", "result", "read"} : pc \notin Transfer
  BY DEF Transfer
<1>c. k.left > 0 =>
        \A pc \in Pcs : GoesTo(Spent(k), pc).pc = pc /\ GoesTo(Spent(k), pc).port = k.port
  BY <1>0, SpentGoes
<1>d. k.ready /\ OpenedIn(w, c) => \A l : l.port = k.port => TransferInv(w, l)
  BY <1>0, EntersHonest
<1>1. CASE Open(c)
  <2>1. World'.ctl[c].pc = "greet"
    BY <1>0, <1>1, OpenStep DEF CtlOnly, GoesTo, Control
  <2> QED BY <1>b, <2>1, OutsideHonest
<1>2. CASE ControlAcked(c)
  BY <1>0, <1>2, ControlAckedStep, AnswersHonest
<1>3. CASE ControlPoll(c)
  BY <1>0, <1>3, ControlPollStep, TurnedHonest
<1>4. CASE End(c)
  <2>1. World'.ctl[c].pc = "none"
    BY <1>0, <1>4, EndStep DEF Freed, Gone
  <2> QED BY <1>b, <2>1, OutsideHonest
<1>5. CASE Pasv(c)
  <2>1. PICK u \in Worlds : CtlOnly(u, w, c, GoesTo(Spent(k), "pasv")) /\ Turned(World', u, c)
    BY <1>0, <1>5, PasvStep
  <2>2. k.left > 0
    BY <1>0, <1>5, PasvStep
  <2>3. u.ctl[c].pc = "pasv"
    BY <1>a, <1>c, <2>1, <2>2 DEF CtlOnly
  <2>4. HonestAt(u, u.ctl[c])
    BY <1>b, <2>3, OutsideHonest
  <2> QED BY <1>0, <2>1, <2>4, TurnedHonest
<1>6. CASE Port(c)
  <2>1. /\ k.pc = "read" /\ k.left > 0 /\ NoneLingers(w, c)
        /\ \/ NewBlocks(w.cn) = {} /\ Spoils(World', w, c, Spent(k))
           \/ Dials(World', w, c, lastport + 1)
    BY <1>0, <1>6, PortStep
  <2>2. CASE Spoils(World', w, c, Spent(k))
    <3>1. World'.ctl[c].pc = "read"
      BY <1>0, <2>1, <2>2, SpentFields DEF Spoils
    <3> QED BY <1>b, <3>1, OutsideHonest
  <2>3. CASE Dials(World', w, c, lastport + 1)
    <3>1. World'.ctl[c] = Told(Spent(k), lastport + 1)
      BY <2>3 DEF Dials, Begun
    <3>a. Spent(k) \in CtlSet /\ lastport + 1 \in Ports
      BY <1>0, <2>1, SpentFields DEF StatePorts
    <3>2. Told(Spent(k), lastport + 1).pc = "result" /\ Told(Spent(k), lastport + 1).code = 200
      <4> HIDE DEF k, w
      <4>1. ToldOf(Told(Spent(k), lastport + 1), Spent(k), lastport + 1)
        BY <3>a, ToldFields
      <4> QED BY <4>1 DEF ToldOf
    <3> QED BY <1>b, <3>1, <3>2, OutsideHonest
  <2> QED BY <2>1, <2>2, <2>3
<1>7. CASE List(c)
  <2>1. k.pc = "read" /\ k.left > 0 /\ k.ready /\ OpenedIn(w, c)
    BY <1>0, <1>7, ListStep
  <2>2. PICK u \in Worlds : CtlOnly(u, w, c, GoesTo(Spent(k), "connList")) /\ Turned(World', u, c)
    BY <1>0, <1>7, ListStep
  <2> DEFINE l == GoesTo(Spent(k), "connList")
  <2>3. l.pc = "connList" /\ TransferInv(w, l)
    BY <1>a, <1>c, <1>d, <2>1
  <2>4. u.st = w.st /\ u.cn = w.cn /\ ~u.bad /\ u.ctl[c] = l
    BY <1>0, <2>2 DEF CtlOnly
  <2> HIDE DEF l, w
  <2>5. HonestAt(u, u.ctl[c])
    BY <2>3, <2>4 DEF HonestAt, ResultInv, TransferInv
  <2> QED BY <1>0, <2>2, <2>5, TurnedHonest
<1>8. CASE Retr(c)
  <2>1. k.pc = "read" /\ k.left > 0 /\ k.ready /\ OpenedIn(w, c)
    BY <1>0, <1>8, RetrStep
  <2> DEFINE l == GoesTo(Spent(k), "connRetr")
  <2>2. PICK u \in Worlds : Asks(u, w, c, "Retr", l) /\ Turned(World', u, c)
    BY <1>0, <1>8, RetrStep
  <2>3. l.pc = "connRetr" /\ l.port = k.port /\ TransferInv(w, l)
    BY <1>a, <1>c, <1>d, <2>1
  <2> HIDE DEF l
  <2>5. HonestAt(u, u.ctl[c])
    BY <1>0, <2>2, <2>3, AsksHonest
  <2> QED BY <1>0, <2>2, <2>5, TurnedHonest
<1>9. CASE Stor(c)
  <2> DEFINE l == GoesTo(Spent(k), "sentStor")
  <2>1. /\ k.pc = "read" /\ k.left > 0 /\ k.ready /\ OpenedIn(w, c)
        /\ Asks(World', w, c, "Stor", l)
    BY <1>0, <1>9, StorStep
  <2>3. l.pc = "sentStor" /\ l.port = k.port /\ TransferInv(w, l)
    BY <1>a, <1>c, <1>d, <2>1
  <2> HIDE DEF l
  <2> QED BY <1>0, <2>1, <2>3, AsksHonest
<1>10. CASE Other(c)
  <2>1. k.left > 0 /\ World'.ctl[c] = Replied(k)
    BY <1>0, <1>10, OtherStep DEF CtlOnly
  <2>2. Replied(k).pc = "result" /\ Replied(k).code = 200
    BY <1>0, <2>1, RepliedFields
  <2> QED BY <1>b, <2>1, <2>2, OutsideHonest
<1>11. CASE Quit(c)
  <2>1. k.left > 0
    BY <1>0, <1>11, QuitStep
  <2>2. PICK pc \in {"closing", "quit"} : CtlOnly(World', w, c, GoesTo(Spent(k), pc))
    BY <1>0, <1>11, QuitStep
  <2>3. World'.ctl[c].pc = pc
    BY <1>a, <1>c, <2>1, <2>2 DEF CtlOnly
  <2>4. pc \notin Transfer /\ pc # "result"
    BY <1>b
  <2> QED BY <2>3, <2>4, OutsideHonest
<1>12. CASE Syn(c)
  <2>1. k.ready /\ Calls(World', w, c)
    BY <1>0, <1>12, SynStep
  <2>2. World'.ctl[c] = k
    BY <2>1 DEF Calls, BlockOnly
  <2>3. k.pc \in {"read", "result"} /\ ResultInv(k)
    BY <1>0, <2>1 DEF InOrder, AgreedInv, HonestAt
  <2>4. k.pc \notin Transfer
    BY <1>b, <2>3
  <2> QED BY <2>2, <2>3, <2>4 DEF HonestAt, TransferInv
<1> QED BY <1>1, <1>2, <1>3, <1>4, <1>5, <1>6, <1>7, <1>8, <1>9, <1>10, <1>11, <1>12
       DEF ControlNext

\* The state of the transfer after a callback that found it.
LEMMA ServedState ==
  ASSUME NEW w, NEW c, NEW last, NEW lo, Steady(w, c, last, lo), w = World,
         NEW b \in Blocks, NEW v, NEW st, NEW flags, NEW i, NEW z, NEW all,
         Serves(v, w, b, st, flags, i, z, all),
         w.ctl[c].pc \in Transfer, TransferInv(w, w.ctl[c]), w.st[i].port = w.ctl[c].port,
         NEW m, w.ctl[c].moved \in {"all", "short", "cut"} => m \in {"all", "short", "cut"},
         all /\ w.st[i].owner = w.cn[b].who => m \in {"all", "short", "cut"},
         st = "LAST_ACK" /\ w.cn[b].st = "ESTABLISHED" /\ w.st[i].at # "yield"
           => m \in {"all", "short", "cut"}
  PROVE  /\ z.closed => ~z.connected
         /\ z.req = "Quit" => z.closed
         /\ ~z.connected \/ z.at = "yield" => z.code = 452 \/ m \in {"all", "short", "cut"}
<1> DEFINE k == w.ctl[c]
           s == w.st[i]
           a == w.cn[b]
<1>0. /\ Clients = {c} /\ InOrder(w, k, last, lo) /\ i \in Slots /\ s \in StateSet
      /\ s.port = a.port /\ Calling(a, st, flags) /\ a \in BlockSet
  BY WorldEntries DEF Steady, Serves
<1>1. ~Opening(a) /\ s # Null /\ s.port = k.port
  BY <1>0, StateFields DEF TransferInv
<1>2. "CONNECTED" \notin flags
  BY <1>0, <1>1 DEF Calling, Live, Opening
<1>3. AfterTurn(z, s, flags, all)
  BY <1>2 DEF Serves
<1>4. /\ s.closed => ~s.connected
      /\ s.req = "Quit" => s.closed
      /\ ~s.connected \/ s.at = "yield" => Settled(s, k)
  BY <1>0, <1>1 DEF TransferInv
<1>5. Settled(s, k) => z.code = 452 \/ m \in {"all", "short", "cut"}
  BY <1>3 DEF Settled, AfterTurn
<1>6. all /\ Uses(s) => m \in {"all", "short", "cut"}
  <2> SUFFICES ASSUME all, Uses(s) PROVE m \in {"all", "short", "cut"}
    OBVIOUS
  <2>1. s.owner = c
    BY <1>0, <1>1 DEF InOrder, OwnerInv
  <2>2. a.who = c
    <3>1. a.who \in Owners /\ Live(a)
      BY <1>0, BlockFields DEF Calling, Live, Opening
    <3> QED BY <1>0, <3>1 DEF Owners, InOrder, WhoInv, Live
  <2> QED BY <2>1, <2>2
<1>7. "CLOSE" \in flags => Settled(s, k) \/ m \in {"all", "short", "cut"}
  <2> SUFFICES ASSUME "CLOSE" \in flags PROVE Settled(s, k) \/ m \in {"all", "short", "cut"}
    OBVIOUS
  <2>1. \/ a.st = "ESTABLISHED" /\ st = "LAST_ACK"
        \/ a.st \in {"LAST_ACK", "FIN_WAIT"}
    BY <1>0 DEF Calling
  <2>2. CASE a.st = "ESTABLISHED" /\ st = "LAST_ACK"
    BY <2>2, <1>4
  <2>3. CASE a.st \in {"LAST_ACK", "FIN_WAIT"}
    <3>1. s.closed
      BY <1>0, <1>1, <2>3 DEF InOrder, StateInv, Agreed
    <3> QED BY <3>1, <1>4
  <2> QED BY <2>1, <2>2, <2>3
<1> HIDE DEF s, k, a
<1>8. CASE s.at # "yield" /\ "CLOSE" \notin flags
  <2>1. z.req = s.req /\ z.closed = s.closed /\ z.connected = s.connected
    BY <1>3, <1>8 DEF AfterTurn
  <2>2. z.at = "yield" => all \/ z.code = 452 \/ s.req = "Quit"
    BY <1>3 DEF AfterTurn
  <2>3. all => Uses(s)
    BY <1>3 DEF AfterTurn
  <2> QED BY <1>4, <1>5, <1>6, <2>1, <2>2, <2>3
<1>9. CASE s.at = "yield" \/ "CLOSE" \in flags
  <2>1. z.closed = TRUE /\ z.connected = FALSE
    BY <1>3, <1>9 DEF AfterTurn
  <2>2. Settled(s, k) \/ m \in {"all", "short", "cut"}
    BY <1>4, <1>7, <1>9
  <2> QED BY <1>5, <2>1, <2>2
<1> QED BY <1>8, <1>9

\* The reply that is being sent.
LEMMA ResultSame ==
  ASSUME NEW l, NEW k, Same(l, k), k.moved \in {"all", "short", "cut"} => l.moved \in {"all", "short", "cut"},
         ResultInv(k)
  PROVE  ResultInv(l)
BY DEF ResultInv, Same

LEMMA ServedHonest ==
  ASSUME NEW w, NEW c, NEW last, NEW lo, Steady(w, c, last, lo), w = World,
         NEW b \in Blocks, NEW v, NEW st, NEW flags, NEW i, NEW z, NEW all,
         Serves(v, w, b, st, flags, i, z, all), v.bad = w.bad, HonestAt(w, w.ctl[c]),
         Same(v.ctl[c], w.ctl[c]),
         w.ctl[c].moved \in {"all", "short", "cut"} => v.ctl[c].moved \in {"all", "short", "cut"},
         all /\ w.st[i].owner = w.cn[b].who => v.ctl[c].moved \in {"all", "short", "cut"},
         st = "LAST_ACK" /\ w.cn[b].st = "ESTABLISHED" /\ w.st[i].at # "yield"
           => v.ctl[c].moved \in {"all", "short", "cut"}
  PROVE  HonestAt(v, v.ctl[c])
<1> DEFINE k == w.ctl[c]
           l == v.ctl[c]
<1>1. ResultInv(l)
  BY ResultSame DEF HonestAt
<1>2. ~v.bad /\ TransferInv(w, k)
  BY DEF HonestAt, Steady
<1>3. ASSUME l.pc \in Transfer PROVE TransferInv(v, l)
  <2>1. k.pc \in Transfer /\ l.port = k.port
    BY <1>3 DEF Same
  <2>2. \A d \in Blocks : ~Opening(v.cn[d])
    <3>1. \A d \in Blocks : ~Opening(w.cn[d])
      BY <1>2, <2>1 DEF TransferInv
    <3>2. ~Opening(v.cn[b])
      BY <3>1 DEF Serves, Calling, NextPhase, Opening
    <3>3. \A d \in Blocks : d # b => v.cn[d] = w.cn[d]
      BY DEF Serves
    <3> QED BY <3>1, <3>2, <3>3
  <2>3. ASSUME NEW j \in Slots, v.st[j] # Null, v.st[j].port = l.port
        PROVE  /\ v.st[j].closed => ~v.st[j].connected
               /\ v.st[j].req = "Quit" => v.st[j].closed
               /\ ~v.st[j].connected \/ v.st[j].at = "yield" => Settled(v.st[j], l)
    <3>1. CASE j = i
      <4>1. v.st[j] = z /\ w.st[i] \in StateSet
        BY <3>1 DEF Serves
      <4>2. w.st[i].port = k.port
        <5>1. z.port = w.st[i].port
          BY <4>1, AfterState DEF Serves
        <5> QED BY <2>1, <2>3, <4>1, <5>1
      <4>3. /\ z.closed => ~z.connected
            /\ z.req = "Quit" => z.closed
            /\ ~z.connected \/ z.at = "yield" => z.code = 452 \/ l.moved \in {"all", "short", "cut"}
        BY <1>2, <2>1, <4>2, ServedState
      <4> QED BY <4>1, <4>3 DEF Settled
    <3>2. CASE j # i
      <4>1. v.st[j] = w.st[j]
        BY <3>2 DEF Serves
      <4>2. /\ w.st[j].closed => ~w.st[j].connected
            /\ w.st[j].req = "Quit" => w.st[j].closed
            /\ ~w.st[j].connected \/ w.st[j].at = "yield" => Settled(w.st[j], k)
        BY <1>2, <2>1, <2>3, <4>1 DEF TransferInv
      <4> QED BY <4>1, <4>2 DEF Settled
    <3> QED BY <3>1, <3>2
  <2> QED BY <2>2, <2>3 DEF TransferInv
<1>4. TransferInv(v, l)
  BY <1>3 DEF TransferInv
<1> QED BY <1>1, <1>2, <1>4 DEF HonestAt

LEMMA CalledHonest ==
  ASSUME NEW w, NEW c, NEW last, NEW lo, Steady(w, c, last, lo), w = World,
         NEW b \in Blocks, NEW v, NEW st, NEW flags,
         Calling(w.cn[b], st, flags), CalledBack(v, w, b, st, flags), HonestAt(w, w.ctl[c])
  PROVE  HonestAt(v, v.ctl[c])
<1> DEFINE k == w.ctl[c]
           a == w.cn[b]
<1>0. w \in Worlds /\ c \in Clients /\ Clients = {c} /\ ~w.bad /\ InOrder(w, k, last, lo)
      /\ a \in BlockSet
  BY WorldEntries DEF Steady
<1>1. PICK o \in BOOLEAN, u \in Worlds :
        /\ BlockOnly(u, w, b, Block(st, a.port, o, a.who))
        /\ \/ Unserved(v, u, b, flags)
           \/ \E i \in Slots, z \in StateSet, all \in BOOLEAN : Served(v, u, b, flags, i, z, all)
  BY DEF CalledBack
<1>2. /\ u.st = w.st /\ u.ctl = w.ctl /\ u.bad = w.bad
      /\ u.cn[b].st = st /\ u.cn[b].port = a.port /\ u.cn[b].who = a.who
      /\ \A d \in Blocks : d # b => u.cn[d] = w.cn[d]
  BY <1>1 DEF BlockOnly, Block
<1>3. CASE Unserved(v, u, b, flags)
  <2> PICK closes \in BOOLEAN : closes = ("REXMIT" \notin flags)
    OBVIOUS
  <2>1. /\ v.cn[b].st = NextPhase(st, closes)
        /\ \A d \in Blocks : d # b => v.cn[d] = w.cn[d]
    BY <1>2, <1>3 DEF Unserved, Block
  <2>2. /\ v.bad = w.bad /\ v.ctl = w.ctl
        /\ \A i \in Slots : v.st[i] = w.st[i] \/ v.st[i] = Null
    BY <1>2, <1>3 DEF Unserved
  <2>3. ~Opening(v.cn[b])
    BY <2>1 DEF Calling, NextPhase, Opening
  <2> HIDE DEF k
  <2>4. ResultInv(k) /\ TransferInv(w, k)
    BY <1>0 DEF HonestAt, k
  <2>5. TransferInv(v, k)
    BY <2>1, <2>2, <2>3, <2>4 DEF TransferInv
  <2>6. v.ctl[c] = k /\ ~v.bad
    BY <1>0, <2>2 DEF k
  <2> QED BY <2>4, <2>5, <2>6 DEF HonestAt
<1>4. CASE \E i \in Slots, z \in StateSet, all \in BOOLEAN : Served(v, u, b, flags, i, z, all)
  <2>1. PICK i \in Slots, z \in StateSet, all \in BOOLEAN : Served(v, u, b, flags, i, z, all)
    BY <1>4
  <2>2. /\ v.cn[b].st = NextPhase(st, z.closed) /\ v.cn[b].port = a.port /\ v.cn[b].who = a.who
        /\ \A d \in Blocks : d # b => v.cn[d] = w.cn[d]
    BY <1>2, <2>1 DEF Served, Block
  <2>3. /\ v \in Worlds /\ v.bad = w.bad
        /\ w.st[i] \in StateSet /\ w.st[i].port = a.port
        /\ v.st[i] = z /\ \A j \in Slots : j # i => v.st[j] = w.st[j]
    BY <1>2, <2>1 DEF Served
  <2>4. AfterTurn(z, IF "CONNECTED" \in flags THEN Came(w.st[i]) ELSE w.st[i], flags, all)
    BY <1>2, <2>1 DEF Served
  <2>5. Serves(v, w, b, st, flags, i, z, all)
    BY <2>2, <2>3, <2>4 DEF Serves
  <2>6. Marks(v, u, b, u.st[i], all)
    BY <2>1 DEF Served
  <2>7. Same(v.ctl[c], k)
    BY <1>0, <1>2, <2>6, MarksSame
  <2>8. k.moved \in {"all", "short", "cut"} => v.ctl[c].moved \in {"all", "short", "cut"}
    <3>1. v.ctl[c] = k \/ \E m \in {"all", "short", "cut"} : v.ctl[c] = Marked(k, m)
      BY <1>0, <1>2, <2>6 DEF Marks
    <3> QED BY <3>1 DEF Marked, Control
  <2>9. a.who = c
    <3>1. a.who \in Owners /\ Live(a)
      BY <1>0, BlockFields DEF Calling, Live, Opening
    <3> QED BY <1>0, <3>1 DEF Owners, InOrder, WhoInv, Live
  <2>10. \/ all /\ w.st[i].owner = a.who
         \/ st = "LAST_ACK" /\ a.st = "ESTABLISHED" /\ w.st[i].at # "yield"
         => v.ctl[c].moved \in {"all", "short", "cut"}
    BY <1>0, <1>2, <2>6, <2>9 DEF Marks, Cuts
  <2> QED BY <2>3, <2>5, <2>7, <2>8, <2>10, ServedHonest
<1> QED BY <1>1, <1>3, <1>4

LEMMA RestsHonest ==
  ASSUME NEW w, NEW c, NEW last, NEW lo, Steady(w, c, last, lo), NEW b \in Blocks, NEW v,
         Rests(v, w, b), HonestAt(w, w.ctl[c])
  PROVE  HonestAt(v, v.ctl[c])
<1> DEFINE k == w.ctl[c]
<1>1. PICK x \in BlockSet : BlockOnly(v, w, b, x) /\ x.st = "CLOSED"
  BY DEF Rests
<1>2. v.ctl[c] = k /\ ~v.bad /\ v.st = w.st
  BY <1>1 DEF BlockOnly, Steady
<1>3. ResultInv(k) /\ TransferInv(w, k)
  BY DEF HonestAt, Steady
<1>4. \A d \in Blocks : Opening(v.cn[d]) => Opening(w.cn[d])
  BY <1>1 DEF BlockOnly, Opening
<1> HIDE DEF k
<1>5. TransferInv(v, k)
  BY <1>2, <1>3, <1>4 DEF TransferInv
<1> QED BY <1>2, <1>3, <1>5 DEF HonestAt

LEMMA DataHonest ==
  ASSUME NEW c, Steady(World, c, lastport, lost), NEW b \in Blocks, DataNext(b),
         HonestAt(World, World.ctl[c])
  PROVE  HonestAt(World', World'.ctl[c])
<1>1. World \in Worlds
  BY DEF Steady
<1>2. \/ Rests(World', World, b)
      \/ \E st \in Phases, flags \in SUBSET FlagNames :
           /\ Calling(World.cn[b], st, flags)
           /\ CalledBack(World', World, b, st, flags)
  BY <1>1, DataSteps
<1> QED BY <1>2, RestsHonest, CalledHonest

\* What a step starts from.
LEMMA SteadyNow ==
  ASSUME TypeInv, OrderInv, Next, NEW c, Clients = {c}, ~Overlap
  PROVE  Steady(World, c, lastport, lost) /\ lastport + 1 \in StatePorts
<1>1. ~World.bad
  BY WorldIs DEF Next
<1>2. World \in Worlds /\ lastport \in Nat /\ lastport < FTPD_BASE_DATA_PORT
      /\ lastport + 1 \in StatePorts
  BY PortRoom DEF TypeInv
<1>3. FtpAt(World, c, lastport, lost)
  BY OneOf DEF OrderInv
<1> QED BY <1>1, <1>2, <1>3 DEF Steady, FtpAt

TransfersInv == HonestInv(World)

LEMMA HonestInit ==
  ASSUME Init
  PROVE  TransfersInv
<1>1. \A c \in Clients : World.ctl[c].pc = "none"
  BY WorldIs DEF Init, Gone
<1>2. \A c \in Clients : World.ctl[c].pc \notin Transfer
  BY <1>1 DEF Transfer
<1> QED BY <1>1, <1>2, OutsideHonest DEF TransfersInv, HonestInv

LEMMA HonestNext ==
  ASSUME SingleClient, ~HandshakeLag, TypeInv, OrderInv, TransfersInv, [Next]_vars
  PROVE  TransfersInv'
<1>1. PICK c : Clients = {c} /\ ~Overlap
  BY DEF SingleClient
<1>2. CASE UNCHANGED vars
  <2>1. World' = World
    BY <1>2 DEF vars, World
  <2> QED BY <2>1 DEF TransfersInv
<1>3. CASE Next
  <2>1. Steady(World, c, lastport, lost) /\ lastport + 1 \in StatePorts
    BY <1>1, <1>3, SteadyNow
  <2>2. HonestAt(World, World.ctl[c])
    BY <1>1 DEF TransfersInv, HonestInv
  <2>3. ControlNext(c) \/ \E b \in Blocks : DataNext(b)
    BY <1>1, <1>3 DEF Next
  <2>4. HonestAt(World', World'.ctl[c])
    BY <2>1, <2>2, <2>3, ControlHonest, DataHonest
  <2>5. HonestInv(World')
    BY <1>1, <2>4 DEF HonestInv
  <2> QED BY <2>5 DEF TransfersInv
<1> QED BY <1>2, <1>3

LEMMA TransfersHold == SingleClient /\ ~HandshakeLag => (Spec => []TransfersInv)
<1> SUFFICES ASSUME SingleClient, ~HandshakeLag PROVE Spec => []TransfersInv
  OBVIOUS
<1>1. Init => TransfersInv
  BY HonestInit
<1>2. TypeInv /\ OrderInv /\ TransfersInv /\ [Next]_vars => TransfersInv'
  BY HonestNext
<1>3. Spec => []TypeInv
  BY TypesHold
<1>4. Spec => []OrderInv
  BY OrderHolds
<1> QED BY <1>1, <1>2, <1>3, <1>4, PTL DEF Spec

\* With one client that waits for its handshake before it gives the command, 226,
\* "Transfer complete", is told only when the transfer went through to its end or the
\* client itself closed the data connection before; what may be missing is a part of
\* the last segment of an upload.
THEOREM CompleteWhenTold == SingleClient /\ ~HandshakeLag => (Spec => []Honest226)
<1> SUFFICES ASSUME SingleClient, ~HandshakeLag PROVE Spec => []Honest226
  OBVIOUS
<1>1. TransfersInv => Honest226
  BY WorldIs DEF TransfersInv, HonestInv, HonestAt, ResultInv, Honest226
<1>2. Spec => []TransfersInv
  BY TransfersHold
<1> QED BY <1>1, <1>2, PTL

-----------------------------------------------------------------------------
(* A transfer is replied to when its data connection is over.               *)

\* The state the control connection finds, if there is one, is connected.
Linked(w, l) == \A i \in Slots : w.st[i] # Null /\ w.st[i].port = l.port => w.st[i].connected

LEMMA LinkedConnected ==
  ASSUME NEW w \in Worlds, NEW l, Linked(w, l), Has(w, l.port)
  PROVE  Connected(w, l.port)
<1>1. /\ SlotOf(w, l.port) \in Slots /\ w.st[SlotOf(w, l.port)] # Null
      /\ w.st[SlotOf(w, l.port)].port = l.port /\ StateOf(w, l.port) = w.st[SlotOf(w, l.port)]
  BY SlotFacts
<1> QED BY <1>1 DEF Linked, Connected

\* The control connection does not touch the blocks.
LEMMA TurnedBlocks ==
  ASSUME NEW w, NEW c, NEW v, Turned(v, w, c)
  PROVE  v.cn = w.cn
BY DEF Turned, SweepOnly, Reserves, Begun, CtlOnly, Freed, Spoils

LEMMA AnswersBlocks ==
  ASSUME NEW w, NEW c, NEW v, Answers(v, w, c)
  PROVE  v.cn = w.cn
<1>1. \A u, l : CtlOnly(u, w, c, l) \/ Asks(u, w, c, "List", l) => u.cn = w.cn
  BY DEF CtlOnly, Asks, Asked, Spoils
<1>2. \A u : Turned(v, u, c) => v.cn = u.cn
  BY TurnedBlocks
<1> QED BY <1>1, <1>2, Zenon DEF Answers

\* While it is, a transfer has no reply.
LEMMA TurnedWaits ==
  ASSUME NEW w \in Worlds, NEW c \in Clients, Linked(w, w.ctl[c]), w.ctl[c].pc \in Transfer,
         NEW v, Turned(v, w, c)
  PROVE  v.ctl[c].pc # "result"
<1> DEFINE k == w.ctl[c]
<1>0. k \in CtlSet /\ \A pc \in {"sent150", "sent125", "disc"} : pc \in Pcs
  BY WorldEntries, PcNames
<1>1. Has(w, k.port) => Connected(w, k.port)
  BY LinkedConnected
<1>2. \A pc \in {"sent150", "sent125", "disc"} : GoesTo(k, pc).pc = pc
  BY <1>0, GoesToFields
<1>3. k.pc # "pasv" /\ k.pc # "result"
  BY DEF Transfer
<1> HIDE DEF k
<1>4. v.ctl[c] = k \/ \E pc \in {"sent150", "sent125", "disc"} : v.ctl[c] = GoesTo(k, pc)
  BY <1>1, <1>3 DEF Turned, CtlOnly, Spoils, k
<1> QED BY <1>2, <1>3, <1>4

LEMMA AnswersWait ==
  ASSUME NEW w \in Worlds, NEW c \in Clients, Linked(w, w.ctl[c]), w.ctl[c].pc \in Transfer,
         NEW v, Answers(v, w, c)
  PROVE  v.ctl[c].pc # "result"
<1> DEFINE k == w.ctl[c]
<1>0. k \in CtlSet /\ \A pc \in {"busy", "disc"} : pc \in Pcs
  BY WorldEntries, PcNames
<1>1. \A pc \in {"busy", "disc"} : GoesTo(k, pc).pc = pc /\ GoesTo(k, pc).port = k.port
  BY <1>0, GoesToFields
<1>2. ASSUME NEW u \in Worlds, NEW pc \in {"busy", "disc"}, u.ctl[c] = GoesTo(k, pc),
             \A j \in Slots : u.st[j] # Null => /\ w.st[j] # Null /\ u.st[j].port = w.st[j].port
                                               /\ u.st[j].connected = w.st[j].connected,
             Turned(v, u, c)
      PROVE  v.ctl[c].pc # "result"
  <2>1. u.ctl[c].port = k.port /\ u.ctl[c].pc \in Transfer
    BY <1>1, <1>2 DEF Transfer
  <2>2. Linked(u, u.ctl[c])
    BY <1>2, <2>1 DEF Linked
  <2> QED BY <1>2, <2>1, <2>2, TurnedWaits
<1>3. ASSUME NEW u \in Worlds, NEW pc \in {"busy", "disc"}, CtlOnly(u, w, c, GoesTo(k, pc)),
             Turned(v, u, c)
      PROVE  v.ctl[c].pc # "result"
  BY <1>2, <1>3 DEF CtlOnly
<1>4. ASSUME NEW u \in Worlds, Asks(u, w, c, "List", GoesTo(k, "busy")), Turned(v, u, c)
      PROVE  v.ctl[c].pc # "result"
  <2> DEFINE l == GoesTo(k, "busy")
  <2>1. CASE Spoils(u, w, c, l)
    BY <1>2, <1>4, <2>1 DEF Spoils
  <2>2. CASE \E i \in Slots : Asked(u, w, c, i, "List", l)
    <3> HIDE DEF l
    <3>1. PICK i \in Slots : Asked(u, w, c, i, "List", l)
      BY <2>2
    <3>2. /\ u.ctl[c] = l /\ w.st[i] \in StateSet /\ "List" \in Requests
          /\ u.st[i] = Requested(w.st[i], "List", c)
          /\ \A j \in Slots : j # i => u.st[j] = w.st[j]
      BY <3>1 DEF Asked
    <3>3. /\ w.st[i] # Null /\ u.st[i].port = w.st[i].port
          /\ u.st[i].connected = w.st[i].connected
      <4> PICK s \in StateSet, req \in Requests : s = w.st[i] /\ req = "List"
        BY <3>2
      <4>1. AsksOf(Requested(s, req, c), s, req, c)
        BY RequestedIs
      <4>2. u.st[i] = Requested(s, req, c)
        BY <3>2
      <4> QED BY <4>1, <4>2, StateFields DEF AsksOf
    <3>4. u.ctl[c] = GoesTo(k, "busy")
      BY <3>2 DEF l
    <3>5. \A j \in Slots : u.st[j] # Null => /\ w.st[j] # Null /\ u.st[j].port = w.st[j].port
                                            /\ u.st[j].connected = w.st[j].connected
      BY <3>2, <3>3
    <3> QED BY <1>2, <1>4, <3>2, <3>4, <3>5
  <2> QED BY <1>4, <2>1, <2>2, SlotFacts DEF Asks
<1>5. k.pc \notin {"sent227", "quit", "greet", "result"}
  BY DEF Transfer
<1> HIDE DEF k
<1>6. \/ \E u \in Worlds : Asks(u, w, c, "List", GoesTo(k, "busy")) /\ Turned(v, u, c)
      \/ \E u \in Worlds, pc \in {"busy", "disc"} : CtlOnly(u, w, c, GoesTo(k, pc)) /\ Turned(v, u, c)
  BY <1>5 DEF Answers, k
<1> QED BY <1>3, <1>4, <1>6

\* A callback of a data connection leaves the control connection where it waits.
LEMMA DataStays ==
  ASSUME NEW c, Steady(World, c, lastport, lost), NEW b \in Blocks, DataNext(b)
  PROVE  World'.ctl[c].pc = World.ctl[c].pc
<1> DEFINE w == World
           v == World'
<1>0. w \in Worlds /\ c \in Clients
  BY DEF Steady
<1>1. CASE Rests(v, w, b)
  BY <1>1 DEF Rests, BlockOnly
<1>2. CASE \E st \in Phases, flags \in SUBSET FlagNames : CalledBack(v, w, b, st, flags)
  <2>1. PICK st \in Phases, flags \in SUBSET FlagNames, o \in BOOLEAN, u \in Worlds :
          /\ BlockOnly(u, w, b, Block(st, w.cn[b].port, o, w.cn[b].who))
          /\ \/ Unserved(v, u, b, flags)
             \/ \E i \in Slots, z \in StateSet, all \in BOOLEAN : Served(v, u, b, flags, i, z, all)
    BY <1>2 DEF CalledBack
  <2>2. u.ctl = w.ctl
    BY <2>1 DEF BlockOnly
  <2>3. CASE Unserved(v, u, b, flags)
    BY <2>2, <2>3 DEF Unserved
  <2>4. CASE \E i \in Slots, z \in StateSet, all \in BOOLEAN : Served(v, u, b, flags, i, z, all)
    <3>1. PICK i \in Slots, all \in BOOLEAN : Marks(v, u, b, u.st[i], all)
      BY <2>4 DEF Served
    <3>2. Same(v.ctl[c], u.ctl[c])
      BY <1>0, <3>1, MarksSame
    <3> QED BY <2>2, <3>2 DEF Same
  <2> QED BY <2>1, <2>3, <2>4
<1> QED BY <1>0, <1>1, <1>2, DataSteps

\* The connections of the client are over when its transfer is replied to.
LEMMA ReplyEnds ==
  ASSUME NEW c, Steady(World, c, lastport, lost), HonestAt(World, World.ctl[c]), Next,
         World.ctl[c].pc \in Transfer, World'.ctl[c].pc = "result", NEW b \in Blocks
  PROVE  World'.cn[b].st \notin {"SYN_RCVD", "SYN_SENT", "ESTABLISHED"}
<1> DEFINE w == World
           k == w.ctl[c]
           v == World'
<1>0. /\ w \in Worlds /\ c \in Clients /\ Clients = {c} /\ ~w.bad
      /\ InOrder(w, k, lastport, lost) /\ TransferInv(w, k)
  BY DEF Steady, HonestAt
<1>1. k.pc \notin {"none", "read", "result"} /\ Agreed(k)
  BY DEF Transfer, Agreed
<1>2. w.cn[b].st = "ESTABLISHED" => Linked(w, k)
  BY <1>0, <1>1 DEF Linked, InOrder, StateInv
<1>3. w.cn[b].st \notin {"SYN_RCVD", "SYN_SENT"}
  BY <1>0 DEF TransferInv, Opening
<1>4. CASE Turned(v, w, c) \/ Answers(v, w, c)
  <2>1. ~Linked(w, k)
    BY <1>0, <1>4, TurnedWaits, AnswersWait
  <2>2. v.cn = w.cn
    BY <1>4, TurnedBlocks, AnswersBlocks
  <2> QED BY <1>2, <1>3, <2>1, <2>2
<1>5. CASE ControlNext(c)
  <2>1. ~Open(c) /\ ~MayCommand(c)
    BY <1>0, <1>1, OpenStep, WorldIs DEF MayCommand
  <2>2. ~Syn(c)
    <3>1. k.ready => k.pc \in {"read", "result"}
      BY <1>0 DEF InOrder, AgreedInv
    <3> QED BY <1>0, <1>1, <3>1, SynStep
  <2>3. ~End(c)
    <3>1. End(c) => v.ctl[c].pc = "none"
      BY <1>0, EndStep DEF Freed, Gone
    <3> QED BY <3>1
  <2>4. ControlAcked(c) \/ ControlPoll(c)
    BY <1>5, <2>1, <2>2, <2>3
       DEF ControlNext, Pasv, Port, List, Retr, Stor, Other, Quit, MayTransfer
  <2> QED BY <1>0, <1>4, <2>4, ControlAckedStep, ControlPollStep
<1>6. CASE \E d \in Blocks : DataNext(d)
  BY <1>1, <1>6, DataStays
<1> QED BY <1>0, <1>5, <1>6 DEF Next

\* With one client that waits for its handshake before it gives the command, LIST,
\* RETR, STOR and APPE are replied to only when no data connection of the client is
\* open or being opened any more.
THEOREM RepliedAtEnd == SingleClient /\ ~HandshakeLag => (Spec => RepliesAtEnd)
<1> SUFFICES ASSUME SingleClient, ~HandshakeLag PROVE Spec => RepliesAtEnd
  OBVIOUS
<1> DEFINE EndsWell ==
      \A c \in Clients :
        Serving(c) /\ ctl'[c].pc = "result" =>
          \A b \in Blocks : conns'[b].port = ctl[c].port =>
            conns'[b].st \notin {"SYN_RCVD", "SYN_SENT", "ESTABLISHED"}
<1>1. TypeInv /\ OrderInv /\ TransfersInv /\ [Next]_vars => [EndsWell]_vars
  <2> SUFFICES ASSUME TypeInv, OrderInv, TransfersInv, Next, NEW c \in Clients, Serving(c),
                      ctl'[c].pc = "result", NEW b \in Blocks
               PROVE  conns'[b].st \notin {"SYN_RCVD", "SYN_SENT", "ESTABLISHED"}
    OBVIOUS
  <2>1. Clients = {c} /\ ~Overlap
    BY DEF SingleClient
  <2>2. Steady(World, c, lastport, lost) /\ HonestAt(World, World.ctl[c])
    BY <2>1, SteadyNow DEF TransfersInv, HonestInv
  <2>3. World.ctl[c].pc \in Transfer /\ World'.ctl[c].pc = "result"
    BY WorldIs, WorldNext DEF Serving, Waiting, Transfer
  <2>4. World'.cn[b].st \notin {"SYN_RCVD", "SYN_SENT", "ESTABLISHED"}
    BY <2>2, <2>3, ReplyEnds
  <2> QED BY <2>4, WorldNext
<1>2. Spec => []TypeInv
  BY TypesHold
<1>3. Spec => []OrderInv
  BY OrderHolds
<1>4. Spec => []TransfersInv
  BY TransfersHold
<1> QED BY <1>1, <1>2, <1>3, <1>4, PTL DEF Spec, RepliesAtEnd
====
