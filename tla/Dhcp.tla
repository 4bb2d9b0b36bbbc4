--------------------------------- MODULE Dhcp ---------------------------------
(***************************************************************************)
(* The address of the machine: the DHCP client (uip/dhcpc.c), the config   *)
(* file and the F1 key that choose between it and a static address         *)
(* (main.c), and the way of a DHCP message through uIP's IP and UDP input  *)
(* (uip/uip.c) to the client's entry in the table of UDP connections.      *)
(*                                                                         *)
(* The client is a protothread without a process: it is called with every  *)
(* message for it, and once in every turn of the main loop.  While a       *)
(* program that httpd started runs, the main loop stands still, but the    *)
(* program's keyboard calls still read packets (ioredirect.c).             *)
(***************************************************************************)
EXTENDS Integers, FiniteSets

CONSTANTS
  Servers,       \* the DHCP servers of the network, one address in each
  Good,          \* the server that answers in the end; the others need not
  MaxToggles,    \* how often F1 is pressed
  MaxPrograms,   \* how many programs are run
  MaxBoots       \* how often the tool is started

ASSUME DhcpAssumption ==
  Good \in Servers /\ MaxToggles \in Nat /\ MaxPrograms \in Nat /\ MaxBoots \in Nat \ {0}

VARIABLES
  host,          \* uip_hostaddr
  static,        \* config_static_ip
  config,        \* config_ip, config_netmask and config_router, together
  file,          \* the config file
  dh,            \* struct dhcpc_state
  busy,          \* a program runs
  asked,         \* requests in the network, on their way or late
  replies,       \* replies in the network
  granted,       \* the servers that have acknowledged their address
  toggles, programs, boots

dvars == <<host, static, config, file, dh, busy, asked, replies, granted,
           toggles, programs, boots>>
settings == <<host, static, config, file>>
network == <<asked, replies, granted>>
counters == <<toggles, programs, boots>>

Zero == "0.0.0.0"
Default == "192.168.1.90"
User == "as the user wrote it"
Garbage == "what lay on the stack"

\* dhcpc_init(): everything is cleared, and an entry taken in the UDP table.
DhcpInit ==
  [bound |-> TRUE, pc |-> "start", from |-> Zero, ticks |-> 0, timer |-> "off"]

NoDhcp == [bound |-> FALSE, pc |-> "start", from |-> Zero, ticks |-> 0, timer |-> "off"]

-----------------------------------------------------------------------------
(* handle_dhcp().  `from' is what parse_msg() has stored: the address, and   *)
(* the server with its netmask and router, of whatever reply came last.      *)

NoMessage == [type |-> "none", from |-> Zero]

\* parse_msg() and parse_options()
Parsed(d, m) == IF m = NoMessage THEN d ELSE [d EXCEPT !.from = m.from]

\* timer_set()
Started(d) == [d EXCEPT !.timer = "runs"]

\* send_discover(), at the start and after a wait.
Discover(d) == [d EXCEPT !.pc = "discovered"]

\* Up to ten times as long as the first wait, by doubling.
Longer(ticks) == IF ticks < 60 THEN ticks * 2 ELSE ticks

WaitOver(d, m) == m # NoMessage \/ d.timer = "over"

\* Wrong on purpose: any reply will do for an acknowledgement.
IsAckAny(m) == m.type \in {"offer", "ack"}

IsAck(m) == m.type = "ack"

\* The new state, and whether it sends: one call, from one yield to the next.
WaitOffer(d, m) ==
  IF ~WaitOver(d, m) THEN [d |-> [d EXCEPT !.pc = "waitOffer"], send |-> "nothing"]
  ELSE IF m.type = "offer"
  THEN [d |-> [Parsed(d, m) EXCEPT !.pc = "offered", !.ticks = 10], send |-> "nothing"]
  ELSE [d |-> Discover([Parsed(d, m) EXCEPT !.ticks = Longer(@)]), send |-> "discover"]

\* Wrong on purpose: the request is repeated for ever.
WaitAckForEver(d, m) ==
  IF ~WaitOver(d, m) THEN [d |-> [d EXCEPT !.pc = "waitAck"], send |-> "nothing"]
  ELSE IF IsAck(m) THEN [d |-> [Parsed(d, m) EXCEPT !.pc = "configured"], send |-> "nothing"]
  ELSE [d |-> [Parsed(d, m) EXCEPT !.ticks = 11, !.pc = "again"], send |-> "nothing"]

\* The second wait in vain starts everything anew.
WaitAck(d, m) ==
  IF ~WaitOver(d, m) THEN [d |-> [d EXCEPT !.pc = "waitAck"], send |-> "nothing"]
  ELSE IF IsAck(m) THEN [d |-> [Parsed(d, m) EXCEPT !.pc = "configured"], send |-> "nothing"]
  ELSE IF d.ticks <= 10
  THEN [d |-> [Parsed(d, m) EXCEPT !.ticks = @ + 1, !.pc = "again"], send |-> "nothing"]
  ELSE [d |-> [Parsed(d, m) EXCEPT !.pc = "start"], send |-> "nothing"]

HandleDhcp(d, m) ==
  CASE d.pc = "start"      -> [d |-> Discover([d EXCEPT !.ticks = 10]), send |-> "discover"]
    [] d.pc = "discovered" -> WaitOffer(Started(d), m)
    [] d.pc = "waitOffer"  -> WaitOffer(d, m)
    [] d.pc = "offered"    -> [d |-> [d EXCEPT !.pc = "again"], send |-> "nothing"]
    [] d.pc = "again"      -> [d |-> [Started(d) EXCEPT !.pc = "requested"], send |-> "request"]
    [] d.pc \in {"requested", "waitAck"} -> WaitAck(d, m)
    [] d.pc = "configured" -> [d |-> d, send |-> "nothing"]

\* dhcpc_appcall(), and dhcpc_configured() at the end.  A packet that is sent out
\* of the program's receive loop is overwritten by the next one that is polled.
Call(m) ==
  LET r == HandleDhcp(dh, m)
  IN  /\ dh' = r.d
      /\ asked' = IF busy \/ r.send = "nothing" THEN asked
                  ELSE asked \cup {[type |-> r.send,
                                      to |-> IF r.send = "request" THEN r.d.from ELSE Zero]}
      /\ host' = IF r.d.pc = "configured" /\ dh.pc # "configured" THEN r.d.from ELSE host
      /\ UNCHANGED <<static, config, file, busy, replies, granted, counters>>

-----------------------------------------------------------------------------
(* The main loop and uIP.                                                   *)

\* uip_udp_periodic() for the client's entry in the table.
Poll == ~busy /\ boots > 0 /\ dh.bound /\ Call(NoMessage)

TimeOut ==
  /\ dh.timer = "runs"
  /\ dh' = [dh EXCEPT !.timer = "over"]
  /\ UNCHANGED <<settings, busy, network, counters>>

\* uip_input(): a reply is broadcast, and without UIP_BROADCAST uIP takes no
\* broadcast once it has an address.  The program's receive loop goes round that
\* check with uip_udp_receive_conn().
Accepts == busy \/ host = Zero

Deliver(m) ==
  /\ m \in replies /\ boots > 0
  /\ Accepts /\ dh.bound
  /\ Call(m)

\* The servers: they answer what they see, early, late, twice or never.
Answer(s) ==
  /\ \/ /\ \E r \in asked : r.type = "discover"
        /\ replies' = replies \cup {[type |-> "offer", from |-> s]}
        /\ UNCHANGED granted
     \/ /\ [type |-> "request", to |-> s] \in asked
        /\ replies' = replies \cup {[type |-> "ack", from |-> s]}
        /\ granted' = granted \cup {s}
     \/ /\ [type |-> "request", to |-> s] \in asked
        /\ replies' = replies \cup {[type |-> "nak", from |-> Zero]}
        /\ UNCHANGED granted
  /\ UNCHANGED <<settings, dh, busy, asked, counters>>

-----------------------------------------------------------------------------
(* The config file and the F1 key.                                          *)

\* Wrong on purpose: the client keeps its entry in the table.
DhcpStopNever(d) == d

\* dhcp_stop()
DhcpStop(d) == [d EXCEPT !.bound = FALSE]

\* configure_ip()
ConfigureIp(st, cfg) ==
  IF st THEN host' = cfg /\ dh' = DhcpStop(dh)
  ELSE host' = Zero /\ dh' = DhcpInit

\* read_config() at the start.  A missing or empty file is written with the
\* defaults.  Of a malformed one the defaults are set as well, and then the values
\* that were not read replace them.  Without memory for the text of the file
\* nothing is set and configure_ip() is not called.
ReadConfig ==
  /\ boots = 0
  /\ boots' = 1
  /\ \/ /\ file.kind = "none"
        /\ static' = FALSE /\ config' = Default
        /\ file' = [kind |-> "whole", static |-> FALSE, config |-> Default]
        /\ ConfigureIp(static', config')
     \/ /\ file.kind # "none" /\ UNCHANGED file
        /\ static' = file.static
        /\ config' = IF file.kind = "whole" THEN file.config ELSE Garbage
        /\ ConfigureIp(static', config')
     \/ file.kind # "none" /\ UNCHANGED <<settings, dh>>
  /\ UNCHANGED <<busy, network, toggles, programs>>

\* toggle_ip_config(): save_config(), then configure_ip().
Toggle ==
  /\ boots > 0 /\ ~busy /\ toggles < MaxToggles
  /\ toggles' = toggles + 1
  /\ static' = ~static
  /\ file' = [kind |-> "whole", static |-> ~static, config |-> config]
  /\ ConfigureIp(~static, config)
  /\ UNCHANGED <<config, busy, network, programs, boots>>

\* The tool is left with a key or the machine is switched off, and started again:
\* read_config() finds the file that was saved, and memory for it or none.
Restart ==
  /\ boots > 0 /\ boots < MaxBoots
  /\ boots' = boots + 1
  /\ \/ /\ static' = file.static
        /\ config' = IF file.kind = "whole" THEN file.config ELSE Garbage
        /\ IF static' THEN host' = config' /\ dh' = NoDhcp ELSE host' = Zero /\ dh' = DhcpInit
     \/ static' = FALSE /\ config' = Zero /\ host' = Zero /\ dh' = NoDhcp
  /\ busy' = FALSE
  /\ UNCHANGED <<file, network, toggles, programs>>

ProgramStarts ==
  /\ boots > 0 /\ ~busy /\ programs < MaxPrograms
  /\ busy' = TRUE /\ programs' = programs + 1
  /\ UNCHANGED <<settings, dh, network, toggles, boots>>

ProgramEnds ==
  /\ busy /\ busy' = FALSE
  /\ UNCHANGED <<settings, dh, network, counters>>

-----------------------------------------------------------------------------
Files == {[kind |-> "none"]}
         \cup [kind : {"whole"}, static : BOOLEAN, config : {User}]
         \cup [kind : {"malformed"}, static : BOOLEAN, config : {Garbage}]

DInit ==
  /\ host = Zero /\ static = FALSE /\ config = Zero /\ file \in Files
  /\ dh = NoDhcp /\ busy = FALSE
  /\ asked = {} /\ replies = {} /\ granted = {}
  /\ toggles = 0 /\ programs = 0 /\ boots = 0

\* A machine with a static address, on which nothing of this goes on.
DStatic ==
  /\ host = User /\ static = TRUE /\ config = User
  /\ file = [kind |-> "whole", static |-> TRUE, config |-> User]
  /\ dh = NoDhcp /\ busy = FALSE
  /\ asked = {} /\ replies = {} /\ granted = {}
  /\ toggles = 0 /\ programs = 0 /\ boots = 1

DNext ==
  \/ ReadConfig \/ Toggle \/ Restart \/ ProgramStarts \/ ProgramEnds
  \/ Poll \/ TimeOut
  \/ \E m \in replies : Deliver(m)
  \/ \E s \in Servers : Answer(s)

\* A reply of the good server, sent again and again, is in time once; time passes.
WaitsFor(m) == dh.pc \in IF m.type = "offer" THEN {"discovered", "waitOffer"}
                         ELSE {"requested", "waitAck"}
InTime(m) == WaitsFor(m) /\ ~busy /\ Deliver(m)

DFairness ==
  /\ WF_dvars(ReadConfig) /\ WF_dvars(Poll) /\ WF_dvars(TimeOut) /\ WF_dvars(ProgramEnds)
  /\ WF_dvars(Answer(Good))
  /\ \A t \in {"offer", "ack"} : SF_dvars(InTime([type |-> t, from |-> Good]))

-----------------------------------------------------------------------------
(* Properties.                                                              *)

DTypeOK ==
  /\ host \in Servers \cup {Zero, Default, User, Garbage}
  /\ dh.from \in Servers \cup {Zero} /\ dh.ticks \in {0, 10, 11, 20, 40, 80}
  /\ dh.timer \in {"off", "runs", "over"}
  /\ dh.bound => ~static

\* read_config() has come back without memory, and F1 was not pressed since.
Unread == ~static /\ ~dh.bound

\* The machine has the address that it was given: the one in the config file,
\* also while a program keeps the main loop from running and late replies come
\* in; or one that a server has acknowledged, never one that was only offered.
\* A config file that is whole is in use, unless there was no memory to read it
\* (main.c:185-263); of one that is malformed nothing is said.
AddressRight ==
  boots > 0 =>
    /\ static => host = config
    /\ ~static /\ host # Zero => host \in granted
    /\ file.kind = "whole" /\ ~Unread => file.static = static /\ file.config = config

\* Where one server answers in time, a machine that asks for an address gets one,
\* whatever others offer and then refuse, keep to themselves, or say too late.  It
\* does not ask when read_config() had no memory.
GetsConfigured == (boots > 0 /\ ~static) ~> (host # Zero \/ static \/ Unread)
=============================================================================
