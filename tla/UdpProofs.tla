------------------------------- MODULE UdpProofs -------------------------------
(***************************************************************************)
(* That the machine has the address it was given, for any number of DHCP   *)
(* servers, of programs, key presses and restarts, and for replies that    *)
(* come late, twice, or never.                                             *)
(***************************************************************************)
EXTENDS UdpServices, TLAPS

-----------------------------------------------------------------------------
(* The inductive invariant.                                                 *)

Addresses == Servers \cup {Zero}
Configs == {Default, User, Garbage, Zero}
SavedFiles == [kind : {"whole", "malformed"}, static : BOOLEAN, config : Configs]
Messages == [type : {"offer", "ack", "nak"}, from : Addresses]

\* struct dhcpc_state: how long it waits goes with what it waits for.
Clients ==
  [bound : BOOLEAN, from : Addresses, timer : {"off", "runs", "over"},
   pc : {"start", "discovered", "waitOffer", "offered", "again", "requested", "waitAck",
         "configured"},
   ticks : {0, 10, 11, 20, 40, 80}]

WaitsRight(d) ==
  /\ d.pc \in {"discovered", "waitOffer"} => d.ticks \in {10, 20, 40, 80}
  /\ d.pc \in {"offered", "again", "requested", "waitAck"} => d.ticks \in {10, 11}

\* A server that acknowledges has given its address away.
AcksGranted == \A m \in replies : m.type = "ack" => m.from \in granted

\* The address in use, the file and what was read of it.
HostRight ==
  /\ static => host = config
  /\ ~static /\ host # Zero => host \in granted
  /\ file \in SavedFiles
  /\ file.kind = "whole" /\ ~Unread => file.static = static /\ file.config = config

DhcpInv ==
  /\ mode \in {"dhcp", "console"}
  /\ host \in Addresses \cup Configs /\ static \in BOOLEAN /\ config \in Configs
  /\ dh \in Clients /\ WaitsRight(dh)
  /\ replies \subseteq Messages /\ granted \subseteq Servers /\ AcksGranted
  /\ dh.bound => ~static
  /\ boots \in Nat
  /\ boots = 0 => file \in Files /\ ~dh.bound /\ ~static /\ host = Zero
  /\ boots > 0 => HostRight

-----------------------------------------------------------------------------
(* handle_dhcp()                                                            *)

\* Its argument: what was received, or nothing in a poll.
MessageSet == Messages \cup {NoMessage}

\* One call of the client: it is configured by an acknowledgement alone.
Handles(d, m, r) ==
  /\ r.d \in Clients /\ WaitsRight(r.d) /\ r.d.bound = d.bound
  /\ r.d.pc = "configured" /\ d.pc # "configured" => m.type = "ack" /\ r.d.from = m.from

LEMMA MessageTypes ==
  ASSUME NEW m \in MessageSet
  PROVE  /\ m.from \in Addresses /\ m.type \in {"offer", "ack", "nak", "none"}
         /\ m = NoMessage => m.type = "none"
BY DEF MessageSet, Messages, NoMessage, Addresses

LEMMA ParsedIs ==
  ASSUME NEW d \in Clients, NEW m \in MessageSet
  PROVE  /\ Parsed(d, m) \in Clients /\ Parsed(d, m).pc = d.pc
         /\ Parsed(d, m).ticks = d.ticks /\ Parsed(d, m).bound = d.bound
         /\ m # NoMessage => Parsed(d, m).from = m.from
BY MessageTypes DEF Parsed, Clients

\* A client whose step ends as these say has been handled.
LEMMA StepHandles ==
  ASSUME NEW d \in Clients, NEW m, NEW r, NEW e \in Clients, r.d = e,
         WaitsRight(e), e.bound = d.bound,
         e.pc # "configured" \/ (m.type = "ack" /\ e.from = m.from)
  PROVE  Handles(d, m, r)
BY DEF Handles

\* e is the client p in another step, waiting for other ticks.
Stepped(e, p, pc, ticks) ==
  e \in Clients /\ e.pc = pc /\ e.ticks = ticks /\ e.bound = p.bound

Steps == {"start", "discovered", "waitOffer", "offered", "again", "requested", "waitAck",
          "configured"}
Ticks == {0, 10, 11, 20, 40, 80}

LEMMA ClientsAre ==
  Clients = [bound : BOOLEAN, from : Addresses, timer : {"off", "runs", "over"},
             pc : Steps, ticks : Ticks]
BY DEF Clients, Steps, Ticks

LEMMA SteppedIs ==
  ASSUME NEW p \in Clients, NEW pc \in Steps, NEW ticks \in Ticks
  PROVE  /\ Stepped([p EXCEPT !.pc = pc, !.ticks = ticks], p, pc, ticks)
         /\ Stepped([p EXCEPT !.ticks = ticks, !.pc = pc], p, pc, ticks)
BY ClientsAre DEF Stepped

LEMMA WaitOfferHandles ==
  ASSUME NEW d \in Clients, d.ticks \in {10, 20, 40, 80}, NEW m \in MessageSet
  PROVE  Handles(d, m, WaitOffer(d, m))
<1>1. PICK p \in Clients : /\ p = Parsed(d, m) /\ p.ticks = d.ticks /\ p.bound = d.bound
  BY ParsedIs
<1>2. Longer(p.ticks) \in {20, 40, 80}
  BY <1>1 DEF Longer
<1>3. \/ WaitOffer(d, m).d = [d EXCEPT !.pc = "waitOffer"]
      \/ WaitOffer(d, m).d = [p EXCEPT !.pc = "offered", !.ticks = 10]
      \/ WaitOffer(d, m).d = [p EXCEPT !.ticks = Longer(p.ticks), !.pc = "discovered"]
  BY <1>1 DEF WaitOffer, Discover, Clients
<1>4. CASE WaitOffer(d, m).d = [d EXCEPT !.pc = "waitOffer"]
  <2>1. PICK e : e = [d EXCEPT !.pc = "waitOffer"]
    OBVIOUS
  <2>2. e \in Clients /\ e.pc = "waitOffer" /\ e.ticks = d.ticks /\ e.bound = d.bound
    BY <2>1 DEF Clients
  <2>3. WaitsRight(e)
    BY <2>2 DEF WaitsRight
  <2> QED BY <1>4, <2>1, <2>2, <2>3, StepHandles
<1>5. CASE WaitOffer(d, m).d = [p EXCEPT !.pc = "offered", !.ticks = 10]
  <2>1. PICK e : e = [p EXCEPT !.pc = "offered", !.ticks = 10]
    OBVIOUS
  <2>2. e \in Clients /\ e.pc = "offered" /\ e.ticks = 10 /\ e.bound = d.bound
    <3>0. "offered" \in Steps /\ 10 \in Ticks
      BY DEF Steps, Ticks
    <3>1. Stepped(e, p, "offered", 10)
      BY <1>1, <2>1, <3>0, SteppedIs, Zenon
    <3> QED BY <1>1, <3>1 DEF Stepped
  <2>3. WaitsRight(e)
    BY <2>2 DEF WaitsRight
  <2> QED BY <1>5, <2>1, <2>2, <2>3, StepHandles
<1>6. CASE WaitOffer(d, m).d = [p EXCEPT !.ticks = Longer(p.ticks), !.pc = "discovered"]
  <2>1. PICK w : w = Longer(p.ticks) /\ w \in {20, 40, 80}
    BY <1>2
  <2>2. PICK e : e = [p EXCEPT !.ticks = w, !.pc = "discovered"]
    OBVIOUS
  <2>5. w \in {0, 10, 11, 20, 40, 80}
    BY <2>1
  <2>6. PICK q : q = [p EXCEPT !.ticks = w]
    OBVIOUS
  <2>7. q \in Clients /\ q.ticks = w /\ q.bound = d.bound
    BY <1>1, <2>5, <2>6 DEF Clients
  <2>8. e = [q EXCEPT !.pc = "discovered"]
    BY <1>1, <2>2, <2>6 DEF Clients
  <2>3. e \in Clients /\ e.pc = "discovered" /\ e.ticks = w /\ e.bound = d.bound
    BY <2>7, <2>8 DEF Clients
  <2>4. WaitsRight(e)
    BY <2>1, <2>3 DEF WaitsRight
  <2> QED BY <1>6, <2>1, <2>2, <2>3, <2>4, StepHandles
<1> QED BY <1>3, <1>4, <1>5, <1>6

LEMMA WaitAckHandles ==
  ASSUME NEW d \in Clients, d.ticks \in {10, 11}, NEW m \in MessageSet
  PROVE  Handles(d, m, WaitAck(d, m))
<1>1. PICK p \in Clients : /\ p = Parsed(d, m) /\ p.ticks = d.ticks /\ p.bound = d.bound
                           /\ m # NoMessage => p.from = m.from
  BY ParsedIs
<1>2. \/ WaitAck(d, m).d = [d EXCEPT !.pc = "waitAck"]
      \/ WaitAck(d, m).d = [p EXCEPT !.pc = "configured"] /\ m.type = "ack"
      \/ WaitAck(d, m).d = [p EXCEPT !.ticks = 11, !.pc = "again"]
      \/ WaitAck(d, m).d = [p EXCEPT !.pc = "start"]
  <2>1. CASE ~WaitOver(d, m)
    BY <2>1 DEF WaitAck
  <2>2. CASE WaitOver(d, m) /\ m.type = "ack"
    BY <1>1, <2>2 DEF WaitAck, IsAck
  <2>3. CASE WaitOver(d, m) /\ m.type # "ack" /\ d.ticks = 10
    BY <1>1, <2>3 DEF WaitAck, IsAck, Clients
  <2>4. CASE WaitOver(d, m) /\ m.type # "ack" /\ d.ticks = 11
    BY <1>1, <2>4 DEF WaitAck, IsAck
  <2> QED BY <2>1, <2>2, <2>3, <2>4
<1>3. CASE WaitAck(d, m).d = [d EXCEPT !.pc = "waitAck"]
  <2>1. PICK e : e = [d EXCEPT !.pc = "waitAck"]
    OBVIOUS
  <2>2. e \in Clients /\ e.pc = "waitAck" /\ e.ticks = d.ticks /\ e.bound = d.bound
    BY <2>1 DEF Clients
  <2>3. WaitsRight(e)
    BY <2>2 DEF WaitsRight
  <2> QED BY <1>3, <2>1, <2>2, <2>3, StepHandles
<1>4. CASE WaitAck(d, m).d = [p EXCEPT !.pc = "configured"] /\ m.type = "ack"
  <2>0. m # NoMessage
    BY <1>4 DEF NoMessage
  <2>1. PICK e : e = [p EXCEPT !.pc = "configured"]
    OBVIOUS
  <2>2. e \in Clients /\ e.pc = "configured" /\ e.from = p.from /\ e.bound = d.bound
    BY <1>1, <2>1 DEF Clients
  <2>3. WaitsRight(e)
    BY <2>2 DEF WaitsRight
  <2> QED BY <1>1, <1>4, <2>0, <2>1, <2>2, <2>3, StepHandles
<1>5. CASE WaitAck(d, m).d = [p EXCEPT !.ticks = 11, !.pc = "again"]
  <2>1. PICK e : e = [p EXCEPT !.ticks = 11, !.pc = "again"]
    OBVIOUS
  <2>2. e \in Clients /\ e.pc = "again" /\ e.ticks = 11 /\ e.bound = d.bound
    <3>0. "again" \in Steps /\ 11 \in Ticks
      BY DEF Steps, Ticks
    <3>1. Stepped(e, p, "again", 11)
      BY <1>1, <2>1, <3>0, SteppedIs, Zenon
    <3> QED BY <1>1, <3>1 DEF Stepped
  <2>3. WaitsRight(e)
    BY <2>2 DEF WaitsRight
  <2> QED BY <1>5, <2>1, <2>2, <2>3, StepHandles
<1>6. CASE WaitAck(d, m).d = [p EXCEPT !.pc = "start"]
  <2>1. PICK e : e = [p EXCEPT !.pc = "start"]
    OBVIOUS
  <2>2. e \in Clients /\ e.pc = "start" /\ e.bound = d.bound
    BY <1>1, <2>1 DEF Clients
  <2>3. WaitsRight(e)
    BY <2>2 DEF WaitsRight
  <2> QED BY <1>6, <2>1, <2>2, <2>3, StepHandles
<1> QED BY <1>2, <1>3, <1>4, <1>5, <1>6

LEMMA HandleDhcpHandles ==
  ASSUME NEW d \in Clients, WaitsRight(d), NEW m \in MessageSet
  PROVE  Handles(d, m, HandleDhcp(d, m))
<1>1. CASE d.pc = "start"
  BY <1>1 DEF HandleDhcp, Discover, Handles, Clients, WaitsRight
<1>2. CASE d.pc = "discovered"
  <2>0. PICK e : e = Started(d)
    OBVIOUS
  <2>1. e \in Clients /\ e = Started(d) /\ e.ticks = d.ticks /\ e.bound = d.bound
    BY <2>0 DEF Started, Clients
  <2>2. Handles(e, m, WaitOffer(e, m))
    BY <1>2, <2>1, WaitOfferHandles DEF WaitsRight
  <2>3. HandleDhcp(d, m) = WaitOffer(e, m)
    BY <1>2, <2>1 DEF HandleDhcp
  <2>4. e.pc = "discovered"
    BY <1>2, <2>0 DEF Started, Clients
  <2> QED BY <1>2, <2>1, <2>2, <2>3, <2>4 DEF Handles
<1>3. CASE d.pc = "waitOffer"
  <2>1. HandleDhcp(d, m) = WaitOffer(d, m)
    BY <1>3 DEF HandleDhcp
  <2> QED BY <1>3, <2>1, WaitOfferHandles DEF WaitsRight
<1>4. CASE d.pc = "offered"
  BY <1>4 DEF HandleDhcp, Handles, Clients, WaitsRight
<1>5. CASE d.pc = "again"
  BY <1>5 DEF HandleDhcp, Started, Handles, Clients, WaitsRight
<1>6. CASE d.pc \in {"requested", "waitAck"}
  <2>1. HandleDhcp(d, m) = WaitAck(d, m)
    BY <1>6 DEF HandleDhcp
  <2> QED BY <1>6, <2>1, WaitAckHandles DEF WaitsRight
<1>7. CASE d.pc = "configured"
  BY <1>7 DEF HandleDhcp, Handles
<1> QED BY <1>1, <1>2, <1>3, <1>4, <1>5, <1>6, <1>7 DEF Clients

-----------------------------------------------------------------------------
(* The steps.                                                               *)

\* dhcpc_appcall(): an address comes into use only when a server acknowledged it.
LEMMA CallKeeps ==
  ASSUME DhcpInv, mode' = mode, boots > 0, dh.bound, NEW m \in MessageSet,
         m.type = "ack" => m.from \in granted, Call(m)
  PROVE  DhcpInv'
<1>1. PICK r : r = HandleDhcp(dh, m)
  OBVIOUS
<1>2. Handles(dh, m, r)
  BY <1>1, HandleDhcpHandles DEF DhcpInv
<1>3. /\ dh' = r.d
      /\ host' = IF r.d.pc = "configured" /\ dh.pc # "configured" THEN r.d.from ELSE host
      /\ UNCHANGED <<static, config, file, replies, granted, boots>>
  BY <1>1 DEF Call, counters
<1>4. ~static
  BY DEF DhcpInv
<1>5. host' = host \/ (host' \in granted /\ host' \in Servers)
  BY <1>2, <1>3 DEF Handles, DhcpInv
<1>6. /\ dh' \in Clients /\ WaitsRight(dh') /\ dh'.bound = dh.bound
  BY <1>2, <1>3 DEF Handles
<1>7. HostRight'
  BY <1>3, <1>4, <1>5, <1>6 DEF HostRight, DhcpInv, Unread
<1> QED BY <1>3, <1>4, <1>5, <1>6, <1>7 DEF DhcpInv, AcksGranted, Addresses

\* dhcpc_init() and dhcp_stop()
LEMMA FreshClients ==
  /\ NoDhcp \in Clients /\ WaitsRight(NoDhcp) /\ ~NoDhcp.bound
  /\ DhcpInit \in Clients /\ WaitsRight(DhcpInit)
<1>1. /\ "start" \in {"start", "discovered", "waitOffer", "offered", "again", "requested",
                      "waitAck", "configured"}
      /\ "off" \in {"off", "runs", "over"} /\ 0 \in {0, 10, 11, 20, 40, 80}
      /\ Zero \in Addresses /\ TRUE \in BOOLEAN /\ FALSE \in BOOLEAN
  BY DEF Addresses
<1>2. /\ NoDhcp.pc = "start" /\ ~NoDhcp.bound /\ DhcpInit.pc = "start"
  BY DEF NoDhcp, DhcpInit
<1>3. WaitsRight(NoDhcp) /\ WaitsRight(DhcpInit)
  BY <1>2 DEF WaitsRight
<1>4. NoDhcp \in Clients
  BY <1>1 DEF NoDhcp, Clients
<1>5. DhcpInit \in Clients
  BY <1>1 DEF DhcpInit, Clients
<1> QED BY <1>2, <1>3, <1>4, <1>5

LEMMA Stopped ==
  ASSUME NEW d \in Clients, WaitsRight(d)
  PROVE  DhcpStop(d) \in Clients /\ ~DhcpStop(d).bound /\ WaitsRight(DhcpStop(d))
<1>1. PICK e : e = DhcpStop(d)
  OBVIOUS
<1>2. e \in Clients /\ ~e.bound /\ e.pc = d.pc /\ e.ticks = d.ticks
  BY <1>1 DEF DhcpStop, Clients
<1>3. WaitsRight(e)
  BY <1>2 DEF WaitsRight
<1> QED BY <1>1, <1>2, <1>3

\* What configure_ip() leaves behind.
LEMMA ConfigureIs ==
  ASSUME DhcpInv, NEW st \in BOOLEAN, NEW cfg \in Configs, ConfigureIp(st, cfg)
  PROVE  /\ dh' \in Clients /\ WaitsRight(dh') /\ (dh'.bound => ~st)
         /\ host' \in Addresses \cup Configs
         /\ st => host' = cfg
         /\ ~st => host' = Zero
<1>1. CASE st
  <2>1. dh \in Clients /\ WaitsRight(dh)
    BY DEF DhcpInv
  <2>2. DhcpStop(dh) \in Clients /\ ~DhcpStop(dh).bound /\ WaitsRight(DhcpStop(dh))
    BY <2>1, Stopped
  <2>3. host' = cfg /\ dh' = DhcpStop(dh)
    BY <1>1 DEF ConfigureIp
  <2> QED BY <1>1, <2>2, <2>3
<1>2. CASE ~st
  <2>1. host' = Zero /\ dh' = DhcpInit
    BY <1>2 DEF ConfigureIp
  <2>2. Zero \in Addresses
    BY DEF Addresses
  <2> QED BY <1>2, <2>1, <2>2, FreshClients
<1> QED BY <1>1, <1>2

\* read_config() sets the values and calls configure_ip(), or does neither.
LEMMA ReadConfigKeeps ==
  ASSUME DhcpInv, mode' = mode, ReadConfig
  PROVE  DhcpInv'
<1>1. /\ file \in Files /\ boots = 0 /\ boots' = 1 /\ UNCHANGED <<replies, granted>>
      /\ dh \in Clients /\ WaitsRight(dh) /\ ~dh.bound
  BY DEF ReadConfig, DhcpInv, network
<1>2. ASSUME /\ static' \in BOOLEAN /\ config' \in Configs /\ file' \in SavedFiles
             /\ file'.kind = "whole" => file'.static = static' /\ file'.config = config'
             /\ ConfigureIp(static', config')
      PROVE  DhcpInv'
  <2>1. /\ dh' \in Clients /\ WaitsRight(dh') /\ (dh'.bound => ~static')
        /\ host' \in Addresses \cup Configs
        /\ static' => host' = config'
        /\ ~static' => host' = Zero
    BY <1>2, ConfigureIs
  <2> QED BY <1>1, <1>2, <2>1 DEF DhcpInv, HostRight, AcksGranted
<1>3. CASE /\ file.kind = "none" /\ static' = FALSE /\ config' = Default
           /\ file' = [kind |-> "whole", static |-> FALSE, config |-> Default]
           /\ ConfigureIp(static', config')
  <2>1. FALSE \in BOOLEAN /\ Default \in Configs /\ "whole" \in {"whole", "malformed"}
    BY DEF Configs
  <2>2. file' \in SavedFiles
    BY <1>3, <2>1 DEF SavedFiles
  <2>3. file'.static = FALSE /\ file'.config = Default
    BY <1>3
  <2>4. file'.static = static' /\ file'.config = config'
    BY <1>3, <2>3, Zenon
  <2>5. static' \in BOOLEAN /\ config' \in Configs
    BY <1>3, <2>1, Zenon
  <2> QED BY <1>2, <1>3, <2>2, <2>4, <2>5
<1>4. CASE /\ file.kind # "none" /\ file' = file /\ static' = file.static
           /\ config' = IF file.kind = "whole" THEN file.config ELSE Garbage
           /\ ConfigureIp(static', config')
  <2>1. /\ static' \in BOOLEAN /\ config' \in Configs /\ file' \in SavedFiles
        /\ file'.kind = "whole" => file'.static = static' /\ file'.config = config'
    BY <1>1, <1>4 DEF Configs, SavedFiles, Files
  <2> QED BY <1>2, <1>4, <2>1
<1>5. CASE file.kind # "none" /\ UNCHANGED <<host, static, config, file, dh>>
  <2>1. /\ static' \in BOOLEAN /\ config' \in Configs /\ host' \in Addresses \cup Configs
        /\ dh' \in Clients /\ WaitsRight(dh') /\ ~dh'.bound
    BY <1>1, <1>5 DEF DhcpInv
  <2>2. file' \in SavedFiles
    BY <1>1, <1>5 DEF SavedFiles, Files, Configs
  <2>3. ~static /\ host = Zero
    BY <1>1 DEF DhcpInv
  <2> QED BY <1>1, <1>5, <2>1, <2>2, <2>3 DEF DhcpInv, HostRight, Unread, AcksGranted
<1> QED BY <1>3, <1>4, <1>5 DEF ReadConfig, settings

LEMMA ToggleKeeps ==
  ASSUME DhcpInv, mode' = mode, Toggle
  PROVE  DhcpInv'
<1>1. /\ static' = ~static /\ config' = config /\ boots' = boots /\ boots > 0
      /\ file' = [kind |-> "whole", static |-> ~static, config |-> config]
      /\ ConfigureIp(~static, config) /\ UNCHANGED <<replies, granted>>
  BY DEF Toggle, network
<1>2. static' \in BOOLEAN /\ config' \in Configs /\ config \in Configs /\ (~static) \in BOOLEAN
  BY <1>1 DEF DhcpInv
<1>3. file' \in SavedFiles /\ file'.kind = "whole" /\ file'.static = static'
      /\ file'.config = config'
  BY <1>1, <1>2 DEF SavedFiles
<1>4. /\ dh' \in Clients /\ WaitsRight(dh') /\ (dh'.bound => ~static')
      /\ host' \in Addresses \cup Configs
      /\ static' => host' = config'
      /\ ~static' => host' = Zero
  BY <1>1, <1>2, ConfigureIs
<1> QED BY <1>1, <1>2, <1>3, <1>4 DEF DhcpInv, HostRight, AcksGranted

\* The tool starts anew with what the file holds.
LEMMA RestartKeeps ==
  ASSUME DhcpInv, mode' = mode, Restart
  PROVE  DhcpInv'
<1>1. /\ file \in SavedFiles /\ file' = file /\ boots' = boots + 1 /\ boots \in Nat
      /\ UNCHANGED <<replies, granted>>
  BY DEF Restart, DhcpInv, HostRight, network
<1>2. /\ static' \in BOOLEAN /\ config' \in Configs
      /\ file.kind = "whole" /\ ~Unread' => file.static = static' /\ file.config = config'
  <2>1. CASE static' = FALSE /\ config' = Zero /\ dh' = NoDhcp
    BY <2>1, FreshClients DEF Configs, Unread
  <2>2. CASE /\ static' = file.static
             /\ config' = IF file.kind = "whole" THEN file.config ELSE Garbage
    BY <1>1, <2>2 DEF SavedFiles, Configs
  <2> QED BY <2>1, <2>2 DEF Restart
<1>3. /\ dh' \in Clients /\ WaitsRight(dh') /\ (dh'.bound => ~static')
      /\ host' \in Addresses \cup Configs
      /\ static' => host' = config'
      /\ ~static' => host' = Zero
  <2>1. CASE static'
    <3>1. host' = config' /\ dh' = NoDhcp
      BY <2>1 DEF Restart
    <3> QED BY <1>2, <2>1, <3>1, FreshClients
  <2>2. CASE ~static'
    <3>1. host' = Zero /\ (dh' = DhcpInit \/ dh' = NoDhcp)
      BY <2>2 DEF Restart
    <3>2. Zero \in Addresses
      BY DEF Addresses
    <3> QED BY <1>2, <2>2, <3>1, <3>2, FreshClients
  <2> QED BY <2>1, <2>2
<1> QED BY <1>1, <1>2, <1>3 DEF DhcpInv, HostRight, AcksGranted

\* A server that acknowledges is one of those that have granted from then on.
LEMMA AnswerKeeps ==
  ASSUME DhcpInv, mode' = mode, NEW s \in Servers, Answer(s)
  PROVE  DhcpInv'
<1>1. /\ granted \subseteq granted' /\ granted' \subseteq Servers
      /\ replies' \subseteq Messages /\ AcksGranted'
  <2>1. CASE /\ replies' = replies \cup {[type |-> "offer", from |-> s]}
             /\ granted' = granted
    BY <2>1 DEF DhcpInv, Messages, Addresses, AcksGranted
  <2>2. CASE /\ replies' = replies \cup {[type |-> "ack", from |-> s]}
             /\ granted' = granted \cup {s}
    BY <2>2 DEF DhcpInv, Messages, Addresses, AcksGranted
  <2>3. CASE /\ replies' = replies \cup {[type |-> "nak", from |-> Zero]}
             /\ granted' = granted
    BY <2>3 DEF DhcpInv, Messages, Addresses, AcksGranted
  <2> QED BY <2>1, <2>2, <2>3 DEF Answer
<1>2. UNCHANGED <<host, static, config, file, dh, boots>>
  BY DEF Answer, settings, counters
<1>3. boots' > 0 => HostRight'
  BY <1>1, <1>2 DEF DhcpInv, HostRight, Unread
<1> QED BY <1>1, <1>2, <1>3 DEF DhcpInv

\* Time passes; programs start and end; steps of the console.
LEMMA OthersKeep ==
  ASSUME DhcpInv, mode' = mode,
         UNCHANGED <<host, static, config, file, replies, granted, boots>>,
         dh' = dh \/ dh' = [dh EXCEPT !.timer = "over"]
  PROVE  DhcpInv'
<1>1. dh' \in Clients /\ WaitsRight(dh') /\ dh'.bound = dh.bound
  BY DEF DhcpInv, Clients, WaitsRight
<1> QED BY <1>1 DEF DhcpInv, HostRight, AcksGranted, Unread

-----------------------------------------------------------------------------
LEMMA DhcpStarts == Init => DhcpInv
<1> SUFFICES ASSUME Init PROVE DhcpInv
  OBVIOUS
<1>1. NoDhcp \in Clients /\ WaitsRight(NoDhcp) /\ ~NoDhcp.bound
  BY FreshClients
<1>2. CASE mode = "dhcp" /\ DInit
  <2>1. host \in Addresses \cup Configs /\ static \in BOOLEAN /\ config \in Configs
    BY <1>2 DEF DInit, Addresses, Configs
  <2>2. dh \in Clients /\ WaitsRight(dh) /\ ~dh.bound
    BY <1>1, <1>2 DEF DInit
  <2>3. replies \subseteq Messages /\ granted \subseteq Servers /\ AcksGranted
    BY <1>2 DEF DInit, AcksGranted
  <2>4. boots = 0 /\ boots \in Nat /\ ~(boots > 0) /\ file \in Files /\ ~static /\ host = Zero
    BY <1>2 DEF DInit
  <2> QED BY <1>2, <2>1, <2>2, <2>3, <2>4 DEF DhcpInv
<1>3. CASE mode = "console" /\ DStatic
  BY <1>1, <1>3 DEF DStatic, DhcpInv, NoDhcp, Addresses, Configs, AcksGranted, HostRight,
                    SavedFiles
<1> QED BY <1>2, <1>3 DEF Init

\* What the client, its servers, the file and the address in use have to do with
\* each other: dhcpc.c, read_config(), toggle_ip_config().
THEOREM DhcpInvariant == Spec => []DhcpInv
<1>1. DhcpInv /\ [Next]_vars => DhcpInv'
  <2> SUFFICES ASSUME DhcpInv, [Next]_vars PROVE DhcpInv'
    OBVIOUS
  <2>1. CASE UNCHANGED vars
    BY <2>1, OthersKeep DEF vars, dvars
  <2>2. CASE mode' = mode /\ UNCHANGED dvars
    BY <2>2, OthersKeep DEF dvars
  <2>3. CASE mode' = mode /\ DNext
    <3>1. CASE ReadConfig
      BY <2>3, <3>1, ReadConfigKeeps
    <3>2. CASE Toggle
      BY <2>3, <3>2, ToggleKeeps
    <3>3. CASE Restart
      BY <2>3, <3>3, RestartKeeps
    <3>4. CASE ProgramStarts
      BY <2>3, <3>4, OthersKeep DEF ProgramStarts, settings, network
    <3>5. CASE ProgramEnds
      BY <2>3, <3>5, OthersKeep DEF ProgramEnds, settings, network, counters
    <3>6. CASE Poll
      <4>1. NoMessage \in MessageSet /\ NoMessage.type # "ack"
        BY DEF MessageSet, NoMessage
      <4> QED BY <2>3, <3>6, <4>1, CallKeeps DEF Poll
    <3>7. CASE TimeOut
      BY <2>3, <3>7, OthersKeep DEF TimeOut, settings, network, counters
    <3>8. ASSUME NEW m \in replies, Deliver(m) PROVE DhcpInv'
      <4>1. m \in MessageSet /\ (m.type = "ack" => m.from \in granted)
        BY <3>8 DEF DhcpInv, MessageSet, AcksGranted
      <4> QED BY <2>3, <3>8, <4>1, CallKeeps DEF Deliver
    <3>9. ASSUME NEW s \in Servers, Answer(s) PROVE DhcpInv'
      BY <2>3, <3>9, AnswerKeeps
    <3> QED BY <2>3, <3>1, <3>2, <3>3, <3>4, <3>5, <3>6, <3>7, <3>8, <3>9 DEF DNext
  <2> QED BY <2>1, <2>2, <2>3 DEF Next
<1> QED BY <1>1, DhcpStarts, PTL DEF Spec

\* dhcpc_configured(), configure_ip(): the machine has the address of its config file
\* or one that a server has acknowledged, never one that was only offered, however
\* late replies come.
THEOREM AddressRightHolds == Spec => []AddressRight
<1>1. DhcpInv => AddressRight
  BY DEF DhcpInv, HostRight, AddressRight
<1> QED BY <1>1, DhcpInvariant, PTL

\* dhcpc.c: the waits of the client are those the code can reach, and a machine with
\* a static address has no client.
THEOREM DhcpTypeOK == Spec => []DTypeOK
<1>1. DhcpInv => DTypeOK
  BY DEF DhcpInv, DTypeOK, Clients, Addresses, Configs
<1> QED BY <1>1, DhcpInvariant, PTL
=============================================================================
