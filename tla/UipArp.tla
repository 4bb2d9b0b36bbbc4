------------------------------- MODULE UipArp -------------------------------
(***************************************************************************)
(* The ARP cache (uip/uip_arp.c) as the main loop uses it: arriving ARP    *)
(* packets fill it, the ten-second timer ages it, every IP packet sent     *)
(* looks up its next hop in it.                                            *)
(*                                                                         *)
(* An address whose two 16-bit halves are both zero marks an unused entry. *)
(* Whether an entry is in use is asked in three places in two ways, so the *)
(* addresses with one zero half (Halved) are told from the others.  Ages   *)
(* are differences of 8-bit times, taken in int.                           *)
(***************************************************************************)
EXTENDS Integers

CONSTANTS
  UIP_ARPTAB_SIZE,
  UIP_ARP_MAXAGE,
  ClockRange,        \* values of the 8-bit arptime: 2^8
  Addrs,             \* addresses of hosts on the local network
  Halved,            \* those with one half zero
  Unset,             \* 0.0.0.0
  Far, Broadcast,    \* a destination outside, and 255.255.255.255
  Macs,
  NoMac              \* the Ethernet address in an entry never written

ASSUME TableAssumption ==
  /\ UIP_ARPTAB_SIZE \in Nat \ {0}
  /\ UIP_ARP_MAXAGE \in Nat \ {0}
  /\ ClockRange \in Nat \ {0, 1}

ASSUME AddressAssumption ==
  /\ Halved \subseteq Addrs
  /\ Unset \notin Addrs
  /\ Far \notin Addrs /\ Broadcast \notin Addrs /\ Far # Broadcast
  /\ NoMac \notin Macs

VARIABLES
  arp_table,
  arptime,
  draddr,       \* uip_draddr, the default router
  sent,         \* what this turn of the main loop hands to the driver
  age,          \* ticks since an entry was written, UIP_ARP_MAXAGE at most
  heard,        \* the Ethernet address each host gave last
  wrapped       \* arptime has passed its largest value

vars == <<arp_table, arptime, draddr, sent, age, heard, wrapped>>

Slots == 0..(UIP_ARPTAB_SIZE - 1)
Clock == 0..(ClockRange - 1)

NoFrame == [kind |-> "none", hop |-> Unset, eth |-> NoMac]
Frame(k, hop, eth) == [kind |-> k, hop |-> hop, eth |-> eth]

InUse(s) == arp_table[s].ip # Unset

\* The lowest numbered slot of the set S, as the loops find it.
First(S) == CHOOSE s \in S : \A t \in S : s <= t

-----------------------------------------------------------------------------
(* uip_arp_timer()                                                          *)

\* The age as the code computes it: no operand is cut to 8 bits again.
Elapsed(now, s) == now - arp_table[s].time

\* Wrong on purpose: an entry goes one tick too soon.
ExpiresSoon(now, s) == InUse(s) /\ Elapsed(now, s) >= UIP_ARP_MAXAGE - 1

Expires(now, s) == InUse(s) /\ Elapsed(now, s) >= UIP_ARP_MAXAGE

\* Wrong on purpose: the clock is not kept to its width.
TickWide(now) == now + 1

Tick(now) == (now + 1) % ClockRange

\* Wrong on purpose: the clock advances after the entries were looked at.
TimerLate ==
  /\ arptime' = Tick(arptime)
  /\ wrapped' = (wrapped \/ arptime' = 0)
  /\ arp_table' = [s \in Slots |->
       IF Expires(arptime, s) THEN [arp_table[s] EXCEPT !.ip = Unset] ELSE arp_table[s]]
  /\ age' = [s \in Slots |-> IF age[s] < UIP_ARP_MAXAGE THEN age[s] + 1 ELSE age[s]]
  /\ sent' = NoFrame
  /\ UNCHANGED <<draddr, heard>>

Timer ==
  /\ arptime' = Tick(arptime)
  /\ wrapped' = (wrapped \/ arptime' = 0)
  /\ arp_table' = [s \in Slots |->
       IF Expires(arptime', s) THEN [arp_table[s] EXCEPT !.ip = Unset] ELSE arp_table[s]]
  /\ age' = [s \in Slots |-> IF age[s] < UIP_ARP_MAXAGE THEN age[s] + 1 ELSE age[s]]
  /\ sent' = NoFrame
  /\ UNCHANGED <<draddr, heard>>

-----------------------------------------------------------------------------
(* uip_arp_update()                                                         *)

\* Wrong on purpose: only the first entry is compared.
KnownFirst(ip) == {s \in {0} : arp_table[s].ip \notin Halved \cup {Unset} /\ arp_table[s].ip = ip}

\* Entries of this address that the first loop recognises: both halves are
\* asked to be other than zero.
Known(ip) == {s \in Slots : arp_table[s].ip \notin Halved \cup {Unset} /\ arp_table[s].ip = ip}

Unused == {s \in Slots : ~InUse(s)}

\* Wrong on purpose: the youngest entry makes room.
OldestYoung ==
  LET older == {s \in Slots : \A t \in Slots : Elapsed(arptime, t) >= Elapsed(arptime, s)}
  IN First(older)

\* The first entry of those with the greatest age above 0, entry 0 if there is
\* none.
Oldest ==
  LET aged == {s \in Slots : Elapsed(arptime, s) > 0}
  IN IF aged = {} THEN 0
     ELSE First({s \in aged : \A t \in aged : Elapsed(arptime, t) <= Elapsed(arptime, s)})

SlotFor(ip) ==
  IF Known(ip) # {} THEN First(Known(ip))
  ELSE IF Unused # {} THEN First(Unused)
  ELSE Oldest

\* Wrong on purpose: an entry found again keeps its old Ethernet address.
WriteOnce(s, ip, eth) ==
  /\ arp_table' = [arp_table EXCEPT ![s] =
       [ip |-> ip, eth |-> IF @.ip = ip THEN @.eth ELSE eth, time |-> arptime]]
  /\ age' = [age EXCEPT ![s] = 0]

Write(s, ip, eth) ==
  /\ arp_table' = [arp_table EXCEPT ![s] = [ip |-> ip, eth |-> eth, time |-> arptime]]
  /\ age' = [age EXCEPT ![s] = 0]

-----------------------------------------------------------------------------
(* uip_arp_arpin(): a request or reply for our address.  Others change      *)
(* nothing.  A host that only probes for an address sends from 0.0.0.0.     *)

ArpIn(opcode, ip, eth) ==
  /\ Write(SlotFor(ip), ip, eth)
  /\ heard' = IF ip = Unset THEN heard ELSE [heard EXCEPT ![ip] = eth]
  /\ sent' = IF opcode = "request" THEN Frame("reply", ip, eth) ELSE NoFrame
  /\ UNCHANGED <<arptime, draddr, wrapped>>

-----------------------------------------------------------------------------
(* uip_arp_out()                                                            *)

NextHop(dest) == IF dest \in Addrs THEN dest ELSE draddr

\* Every entry counts here, unused ones too.
Found(hop) == {s \in Slots : arp_table[s].ip = hop}

IpOut(dest) ==
  /\ sent' = IF dest = Broadcast THEN Frame("ip", Broadcast, NoMac)
             ELSE IF Found(NextHop(dest)) = {} THEN Frame("ask", NextHop(dest), NoMac)
             ELSE Frame("ip", NextHop(dest), arp_table[First(Found(NextHop(dest)))].eth)
  /\ UNCHANGED <<arp_table, arptime, draddr, age, heard, wrapped>>

\* uip_configure_ip(): another router, or none; the cache stays as it is.
Configure(router) ==
  /\ draddr' = router
  /\ sent' = NoFrame
  /\ UNCHANGED <<arp_table, arptime, age, heard, wrapped>>

-----------------------------------------------------------------------------
Init ==
  /\ arp_table = [s \in Slots |-> [ip |-> Unset, eth |-> NoMac, time |-> 0]]
  /\ arptime = 0
  /\ draddr = Unset
  /\ sent = NoFrame
  /\ age = [s \in Slots |-> 0]
  /\ heard = [a \in Addrs |-> NoMac]
  /\ wrapped = FALSE

Next ==
  \/ Timer
  \/ \E opcode \in {"request", "reply"}, ip \in Addrs \cup {Unset}, eth \in Macs :
       ArpIn(opcode, ip, eth)
  \/ \E dest \in Addrs \cup {Far, Broadcast} : IpOut(dest)
  \/ \E router \in Addrs \cup {Unset} : Configure(router)

Spec == Init /\ [][Next]_vars

-----------------------------------------------------------------------------
(* Properties                                                               *)

\* Types; the tables of addresses stay within their ranges and the clock within
\* 8 bits.
TypeOK ==
  /\ arp_table \in [Slots -> [ip : Addrs \cup {Unset}, eth : Macs \cup {NoMac}, time : Clock]]
  /\ arptime \in Clock
  /\ draddr \in Addrs \cup {Unset}
  /\ sent \in [kind : {"none", "reply", "ask", "ip"},
               hop : Addrs \cup {Unset, Broadcast}, eth : Macs \cup {NoMac}]
  /\ age \in [Slots -> 0..UIP_ARP_MAXAGE]
  /\ heard \in [Addrs -> Macs \cup {NoMac}]
  /\ wrapped \in BOOLEAN

\* An address without a zero half has one entry at most, however entries were
\* updated, expired and thrown away before (uip_arp.c: "try to find an entry to
\* update. If none is found, the IP -> MAC address mapping is inserted").
OneEntry ==
  \A s, t \in Slots :
    arp_table[s].ip = arp_table[t].ip /\ arp_table[s].ip \notin Halved \cup {Unset} => s = t

\* An IP packet goes to the Ethernet address its next hop gave last, never to
\* one it had before or to another host's.  (With no router configured a packet
\* for outside matches an unused entry; addresses with a zero half may have an
\* old second entry.)
LatestHeard ==
  sent.kind = "ip" /\ sent.hop \notin Halved \cup {Unset, Broadcast} =>
    sent.eth = heard[sent.hop]

\* The timer takes no entry that was written less than UIP_ARP_MAXAGE ticks
\* ago, even when arptime wraps in between.
NeverEarly ==
  [][\A s \in Slots : arptime' # arptime /\ InUse(s) /\ arp_table'[s].ip = Unset =>
       age'[s] = UIP_ARP_MAXAGE]_vars

\* Until arptime wraps, no entry outlives UIP_ARP_MAXAGE ticks.
GoneInTime ==
  ~wrapped => \A s \in Slots : InUse(s) => age[s] < UIP_ARP_MAXAGE

\* Until arptime wraps, an entry that makes room for another address is the one
\* not heard of for longest, and no unused entry was left (uip_arp.c: "If no
\* unused entry is found, we try to find the oldest entry and throw it away").
ThrowsOldest ==
  [][\A s \in Slots : InUse(s) /\ arp_table'[s].ip # arp_table[s].ip /\ arptime' = arptime =>
       \A t \in Slots : InUse(t) /\ (~wrapped => age[t] <= age[s])]_vars

\* No entry outlives UIP_ARP_MAXAGE ticks (uipopt.h: "The maxium age of ARP
\* table entries").  It does: when arptime has wrapped, the difference is
\* negative for entries written late before.
NeverOld == \A s \in Slots : InUse(s) => age[s] < UIP_ARP_MAXAGE
=============================================================================
