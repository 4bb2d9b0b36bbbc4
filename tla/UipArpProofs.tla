---------------------------- MODULE UipArpProofs ----------------------------
(* The properties of the ARP cache, for every table size, maximum age, width *)
(* of the clock and set of addresses.                                        *)
EXTENDS UipArp, TLAPS, NaturalsInduction, WellFoundedInduction

-----------------------------------------------------------------------------
(* The invariant                                                            *)

\* What an entry holds is what its host said last.
EntriesLatest ==
  \A s \in Slots :
    arp_table[s].ip \notin Halved \cup {Unset} => arp_table[s].eth = heard[arp_table[s].ip]

\* The age the code computes is never above the true one, ...
AgesBelow ==
  \A s \in Slots : age[s] = UIP_ARP_MAXAGE \/ Elapsed(arptime, s) <= age[s]

\* ... and is the true one until the clock wraps.
AgesTrue ==
  ~wrapped => \A s \in Slots :
    InUse(s) => age[s] < UIP_ARP_MAXAGE /\ Elapsed(arptime, s) = age[s]

ArpInv ==
  /\ TypeOK
  /\ OneEntry
  /\ EntriesLatest
  /\ AgesBelow
  /\ AgesTrue
  /\ LatestHeard

-----------------------------------------------------------------------------
(* Helpers                                                                  *)

LEMMA LeastNatural ==
  ASSUME NEW S \in SUBSET Nat, S # {}
  PROVE  \E s \in S : \A t \in S : s <= t
<1>1. PICK s \in S : \A t \in S : ~ (<<t, s>> \in OpToRel(<, Nat))
  BY NatLessThanWellFounded, WFMin
<1>2. \A t \in S : ~(t < s)
  BY <1>1 DEF OpToRel
<1> QED
  BY <1>2

LEMMA FirstIn ==
  ASSUME NEW S \in SUBSET Slots, S # {}
  PROVE  First(S) \in S
<1>1. S \in SUBSET Nat
  BY DEF Slots
<1>2. \E s \in S : \A t \in S : s <= t
  BY <1>1, LeastNatural
<1> QED
  BY <1>2 DEF First

LEMMA TickStep ==
  ASSUME arptime \in Clock
  PROVE  Tick(arptime) = IF arptime = ClockRange - 1 THEN 0 ELSE arptime + 1
BY TableAssumption DEF Tick, Clock

\* The slot taken for a full table has the greatest age the code sees, or no
\* age is above 0.
LEMMA OldestIs ==
  ASSUME TypeOK
  PROVE  /\ Oldest \in Slots
         /\ \A t \in Slots : Elapsed(arptime, t) <= Elapsed(arptime, Oldest)
                             \/ Elapsed(arptime, t) <= 0
<1> DEFINE aged == {s \in Slots : Elapsed(arptime, s) > 0}
           most == {s \in aged : \A t \in aged : Elapsed(arptime, t) <= Elapsed(arptime, s)}
<1>0. \A s \in Slots : Elapsed(arptime, s) \in Int /\ ClockRange - Elapsed(arptime, s) \in Nat
  BY TableAssumption DEF TypeOK, Elapsed, Clock
<1>1. CASE aged = {}
  <2>1. Oldest = 0
    BY <1>1 DEF Oldest
  <2>2. \A t \in Slots : Elapsed(arptime, t) <= 0
    BY <1>1, <1>0
  <2> QED
    BY <2>1, <2>2, TableAssumption DEF Slots
<1>2. CASE aged # {}
  <2> DEFINE rest == {ClockRange - Elapsed(arptime, s) : s \in aged}
  <2>1. PICK r \in rest : \A q \in rest : r <= q
    <3>1. rest \in SUBSET Nat
      BY <1>0
    <3>2. rest # {}
      BY <1>2
    <3> QED
      BY <3>1, <3>2, LeastNatural
  <2>2. PICK s \in aged : r = ClockRange - Elapsed(arptime, s)
    BY <2>1
  <2>3. ASSUME NEW t \in aged PROVE Elapsed(arptime, t) <= Elapsed(arptime, s)
    <3>1. r <= ClockRange - Elapsed(arptime, t)
      BY <2>1, <2>3
    <3> QED
      BY <3>1, <2>2, <1>0, TableAssumption
  <2>4. most # {}
    BY <2>2, <2>3
  <2>5. First(most) \in most
    BY <2>4, FirstIn
  <2>6. Oldest = First(most)
    BY <1>2 DEF Oldest
  <2> QED
    BY <2>5, <2>6, <1>0
<1> QED
  BY <1>1, <1>2

LEMMA SlotForIn ==
  ASSUME TypeOK, NEW ip
  PROVE  SlotFor(ip) \in Slots
<1>1. Known(ip) \in SUBSET Slots /\ Unused \in SUBSET Slots
  BY DEF Known, Unused
<1>2. CASE Known(ip) # {}
  BY <1>1, <1>2, FirstIn DEF SlotFor
<1>3. CASE Known(ip) = {} /\ Unused # {}
  BY <1>1, <1>3, FirstIn DEF SlotFor
<1>4. CASE Known(ip) = {} /\ Unused = {}
  BY <1>4, OldestIs DEF SlotFor
<1> QED
  BY <1>2, <1>3, <1>4

\* An address that has an entry keeps to it.
LEMMA SlotForKnown ==
  ASSUME TypeOK, NEW ip \in Addrs \ Halved, NEW s \in Slots, arp_table[s].ip = ip
  PROVE  arp_table[SlotFor(ip)].ip = ip
<1>1. ip # Unset
  BY AddressAssumption
<1>2. s \in Known(ip)
  BY <1>1 DEF Known
<1>3. First(Known(ip)) \in Known(ip)
  BY <1>2, FirstIn DEF Known
<1> QED
  BY <1>2, <1>3 DEF SlotFor, Known

-----------------------------------------------------------------------------
(* Every action keeps the invariant                                         *)

LEMMA InitInv == Init => ArpInv
<1> SUFFICES ASSUME Init PROVE ArpInv
  OBVIOUS
<1>1. TypeOK
  <2>1. 0 \in Clock /\ 0 \in 0..UIP_ARP_MAXAGE
    BY TableAssumption DEF Clock
  <2>2. arp_table \in [Slots -> [ip : Addrs \cup {Unset}, eth : Macs \cup {NoMac}, time : Clock]]
    BY <2>1 DEF Init
  <2>3. age \in [Slots -> 0..UIP_ARP_MAXAGE]
    BY <2>1 DEF Init
  <2> QED
    BY <2>1, <2>2, <2>3 DEF Init, TypeOK, NoFrame
<1>2. OneEntry /\ EntriesLatest /\ LatestHeard
  BY DEF Init, OneEntry, EntriesLatest, LatestHeard, NoFrame
<1>3. AgesBelow /\ AgesTrue
  BY DEF Init, AgesBelow, AgesTrue, Elapsed, InUse
<1> QED
  BY <1>1, <1>2, <1>3 DEF ArpInv

LEMMA TimerInv == ArpInv /\ Timer => ArpInv'
<1> SUFFICES ASSUME ArpInv, Timer PROVE ArpInv'
  OBVIOUS
<1>0. TypeOK /\ OneEntry /\ EntriesLatest /\ AgesBelow /\ AgesTrue
  BY DEF ArpInv
<1>1. arptime' = IF arptime = ClockRange - 1 THEN 0 ELSE arptime + 1
  BY <1>0, TickStep DEF Timer, TypeOK
<1>2. ASSUME NEW s \in Slots
      PROVE  /\ arp_table'[s] = arp_table[s] \/ arp_table'[s].ip = Unset
             /\ arp_table'[s].time = arp_table[s].time
             /\ arp_table'[s].ip # Unset => /\ arp_table'[s] = arp_table[s]
                                            /\ InUse(s)
                                            /\ ~(Elapsed(arptime', s) >= UIP_ARP_MAXAGE)
             /\ arp_table'[s] \in [ip : Addrs \cup {Unset}, eth : Macs \cup {NoMac}, time : Clock]
  <2>1. arp_table[s] \in [ip : Addrs \cup {Unset}, eth : Macs \cup {NoMac}, time : Clock]
    BY <1>0 DEF TypeOK
  <2>2. CASE Expires(arptime', s)
    <3>1. arp_table'[s] = [arp_table[s] EXCEPT !.ip = Unset]
      BY <2>2 DEF Timer
    <3> QED
      BY <3>1, <2>1
  <2>3. CASE ~Expires(arptime', s)
    <3>1. arp_table'[s] = arp_table[s]
      BY <2>3 DEF Timer
    <3> QED
      BY <3>1, <2>1, <2>3 DEF Expires, InUse
  <2> QED
    BY <2>2, <2>3
<1>3. TypeOK'
  <2>1. arptime' \in Clock
    BY <1>0, <1>1, TableAssumption DEF TypeOK, Clock
  <2>2. arp_table' \in [Slots -> [ip : Addrs \cup {Unset}, eth : Macs \cup {NoMac}, time : Clock]]
    BY <1>2 DEF Timer
  <2>3. age' \in [Slots -> 0..UIP_ARP_MAXAGE]
    BY <1>0, TableAssumption DEF TypeOK, Timer
  <2>4. wrapped' \in BOOLEAN
    BY <1>0 DEF TypeOK, Timer
  <2> QED
    BY <1>0, <2>1, <2>2, <2>3, <2>4 DEF TypeOK, Timer, NoFrame
<1>4. OneEntry'
  BY <1>0, <1>2 DEF OneEntry
<1>5. EntriesLatest'
  BY <1>0, <1>2 DEF EntriesLatest, Timer
<1>6. ASSUME NEW s \in Slots
      PROVE  /\ age[s] \in 0..UIP_ARP_MAXAGE /\ arp_table[s].time \in Clock
             /\ age'[s] = IF age[s] < UIP_ARP_MAXAGE THEN age[s] + 1 ELSE age[s]
  BY <1>0 DEF TypeOK, Timer
<1>7. AgesBelow'
  <2> SUFFICES ASSUME NEW s \in Slots
               PROVE  age'[s] = UIP_ARP_MAXAGE \/ arptime' - arp_table'[s].time <= age'[s]
    BY DEF AgesBelow, Elapsed
  <2>1. arp_table'[s].time = arp_table[s].time
    BY <1>2
  <2>2. age[s] = UIP_ARP_MAXAGE \/ arptime - arp_table[s].time <= age[s]
    BY <1>0 DEF AgesBelow, Elapsed
  <2>3. arptime \in Clock
    BY <1>0 DEF TypeOK
  <2> QED
    BY <2>1, <2>2, <2>3, <1>1, <1>6, TableAssumption DEF Clock
<1>8. AgesTrue'
  <2> SUFFICES ASSUME wrapped' = FALSE, NEW s \in Slots, arp_table'[s].ip # Unset
               PROVE  /\ age'[s] < UIP_ARP_MAXAGE
                      /\ arptime' - arp_table'[s].time = age'[s]
    <3>1. wrapped' \in BOOLEAN
      BY <1>3 DEF TypeOK
    <3> QED
      BY <3>1 DEF AgesTrue, Elapsed, InUse
  <2>1. wrapped = FALSE /\ arptime' # 0
    BY <1>0 DEF Timer, TypeOK
  <2>2. arptime' = arptime + 1
    BY <2>1, <1>1
  <2>3. InUse(s) /\ arp_table'[s].time = arp_table[s].time
        /\ ~(Elapsed(arptime', s) >= UIP_ARP_MAXAGE)
    BY <1>2
  <2>4. age[s] < UIP_ARP_MAXAGE /\ arptime - arp_table[s].time = age[s]
    BY <1>0, <2>1, <2>3 DEF AgesTrue, Elapsed
  <2>5. arptime \in Clock
    BY <1>0 DEF TypeOK
  <2> QED
    BY <2>2, <2>3, <2>4, <2>5, <1>6, TableAssumption DEF Clock, Elapsed
<1>9. LatestHeard'
  BY DEF LatestHeard, Timer, NoFrame
<1> QED
  BY <1>3, <1>4, <1>5, <1>7, <1>8, <1>9 DEF ArpInv

LEMMA ArpInInv ==
  ASSUME ArpInv,
         NEW opcode \in {"request", "reply"}, NEW ip \in Addrs \cup {Unset}, NEW eth \in Macs,
         ArpIn(opcode, ip, eth)
  PROVE  ArpInv'
<1>0. TypeOK /\ OneEntry /\ EntriesLatest /\ AgesBelow /\ AgesTrue
  BY DEF ArpInv
<1> DEFINE slot == SlotFor(ip)
           new == [ip |-> ip, eth |-> eth, time |-> arptime]
<1>1. slot \in Slots
  BY <1>0, SlotForIn
<1>2. /\ arp_table' = [arp_table EXCEPT ![slot] = new]
      /\ age' = [age EXCEPT ![slot] = 0]
  BY DEF ArpIn, Write
<1> HIDE DEF slot
<1>3. ASSUME NEW s \in Slots
      PROVE  /\ arp_table'[s] = IF s = slot THEN new ELSE arp_table[s]
             /\ age'[s] = IF s = slot THEN 0 ELSE age[s]
  BY <1>0, <1>2 DEF TypeOK
<1>4. heard' = IF ip = Unset THEN heard ELSE [heard EXCEPT ![ip] = eth]
  BY DEF ArpIn
<1>5. arptime' = arptime /\ draddr' = draddr /\ wrapped' = wrapped
  BY DEF ArpIn
<1>6. TypeOK'
  <2>1. arp_table' \in [Slots -> [ip : Addrs \cup {Unset}, eth : Macs \cup {NoMac}, time : Clock]]
    BY <1>0, <1>2 DEF TypeOK
  <2>2. age' \in [Slots -> 0..UIP_ARP_MAXAGE]
    <3>1. 0 \in 0..UIP_ARP_MAXAGE
      BY TableAssumption
    <3>2. age \in [Slots -> 0..UIP_ARP_MAXAGE]
      BY <1>0 DEF TypeOK
    <3> QED
      BY <1>2, <3>1, <3>2
  <2>3. heard' \in [Addrs -> Macs \cup {NoMac}]
    BY <1>0, <1>4 DEF TypeOK
  <2>4. sent' \in [kind : {"none", "reply", "ask", "ip"},
                   hop : Addrs \cup {Unset, Broadcast}, eth : Macs \cup {NoMac}]
    BY DEF ArpIn, Frame, NoFrame
  <2> QED
    BY <1>0, <1>5, <2>1, <2>2, <2>3, <2>4 DEF TypeOK
<1>7. OneEntry'
  <2> SUFFICES ASSUME NEW s \in Slots, NEW t \in Slots,
                      arp_table'[s].ip = arp_table'[t].ip,
                      arp_table'[s].ip \notin Halved \cup {Unset}
               PROVE  s = t
    BY DEF OneEntry
  <2>1. CASE s # slot /\ t # slot
    BY <1>0, <1>3, <2>1 DEF OneEntry
  <2>2. ASSUME NEW r \in Slots, r # slot, arp_table[r].ip = ip, ip \notin Halved \cup {Unset}
        PROVE  FALSE
    <3>1. arp_table[slot].ip = ip
      BY <1>0, <2>2, SlotForKnown DEF slot
    <3> QED
      BY <1>0, <1>1, <2>2, <3>1 DEF OneEntry
  <2>3. CASE s = slot /\ t # slot
    <3>1. arp_table'[s].ip = ip /\ arp_table'[t].ip = arp_table[t].ip
      BY <1>3, <2>3
    <3> QED
      BY <3>1, <2>2, <2>3
  <2>4. CASE s # slot /\ t = slot
    <3>1. arp_table'[t].ip = ip /\ arp_table'[s].ip = arp_table[s].ip
      BY <1>3, <2>4
    <3> QED
      BY <3>1, <2>2, <2>4
  <2> QED
    BY <2>1, <2>3, <2>4
<1>8. EntriesLatest'
  <2> SUFFICES ASSUME NEW s \in Slots, arp_table'[s].ip \notin Halved \cup {Unset}
               PROVE  arp_table'[s].eth = heard'[arp_table'[s].ip]
    BY DEF EntriesLatest
  <2>1. CASE s = slot
    <3>1. arp_table'[s] = new
      BY <1>3, <2>1
    <3>2. ip \in Addrs /\ ip # Unset
      BY <3>1
    <3> QED
      BY <1>0, <1>4, <3>1, <3>2 DEF TypeOK
  <2>2. CASE s # slot
    <3>1. arp_table'[s] = arp_table[s]
      BY <1>3, <2>2
    <3>2. arp_table[s].ip # ip
      <4> SUFFICES ASSUME arp_table[s].ip = ip PROVE FALSE
        OBVIOUS
      <4>1. ip \in Addrs \ Halved
        BY <3>1
      <4>2. arp_table[slot].ip = ip
        BY <1>0, <4>1, SlotForKnown DEF slot
      <4> QED
        BY <1>0, <1>1, <2>2, <3>1, <4>2 DEF OneEntry
    <3>3. arp_table[s].ip \in Addrs
      BY <1>0, <3>1 DEF TypeOK
    <3>4. heard'[arp_table[s].ip] = heard[arp_table[s].ip]
      BY <1>0, <1>4, <3>2, <3>3 DEF TypeOK
    <3> QED
      BY <1>0, <3>1, <3>4 DEF EntriesLatest
  <2> QED
    BY <2>1, <2>2
<1>9. AgesBelow'
  <2> SUFFICES ASSUME NEW s \in Slots
               PROVE  age'[s] = UIP_ARP_MAXAGE \/ arptime' - arp_table'[s].time <= age'[s]
    BY DEF AgesBelow, Elapsed
  <2>1. arptime \in Int
    BY <1>0, TableAssumption DEF TypeOK, Clock
  <2> QED
    BY <1>0, <1>3, <1>5, <2>1 DEF AgesBelow, Elapsed
<1>10. AgesTrue'
  <2> SUFFICES ASSUME wrapped = FALSE, NEW s \in Slots, arp_table'[s].ip # Unset
               PROVE  /\ age'[s] < UIP_ARP_MAXAGE
                      /\ arptime' - arp_table'[s].time = age'[s]
    <3>1. wrapped \in BOOLEAN
      BY <1>0 DEF TypeOK
    <3> QED
      BY <3>1, <1>5 DEF AgesTrue, Elapsed, InUse
  <2>1. arptime \in Int
    BY <1>0, TableAssumption DEF TypeOK, Clock
  <2> QED
    BY <1>0, <1>3, <1>5, <2>1, TableAssumption DEF AgesTrue, Elapsed, InUse
<1>11. LatestHeard'
  <2>1. sent' = Frame("reply", ip, eth) \/ sent' = NoFrame
    BY DEF ArpIn
  <2>2. sent'.kind # "ip"
    BY <2>1 DEF Frame, NoFrame
  <2> QED
    BY <2>2 DEF LatestHeard
<1> QED
  BY <1>6, <1>7, <1>8, <1>9, <1>10, <1>11 DEF ArpInv

LEMMA IpOutInv ==
  ASSUME ArpInv, NEW dest \in Addrs \cup {Far, Broadcast}, IpOut(dest)
  PROVE  ArpInv'
<1>0. TypeOK /\ OneEntry /\ EntriesLatest /\ AgesBelow /\ AgesTrue
  BY DEF ArpInv
<1> DEFINE hop == NextHop(dest)
           slot == First(Found(hop))
<1>1. hop \in Addrs \cup {Unset}
  BY <1>0 DEF NextHop, TypeOK
<1>2. Found(hop) # {} => slot \in Slots /\ arp_table[slot].ip = hop
  <2>1. Found(hop) \in SUBSET Slots
    BY DEF Found
  <2>2. Found(hop) # {} => slot \in Found(hop)
    BY <2>1, FirstIn
  <2> QED
    BY <2>2 DEF Found
<1> HIDE DEF hop
<1>3. \/ sent' = Frame("ip", Broadcast, NoMac)
      \/ sent' = Frame("ask", hop, NoMac)
      \/ Found(hop) # {} /\ sent' = Frame("ip", hop, arp_table[slot].eth)
  BY DEF IpOut, hop
<1> HIDE DEF slot
<1>4. UNCHANGED <<arp_table, arptime, draddr, age, heard, wrapped>>
  BY DEF IpOut
<1>5. TypeOK'
  <2>1. sent' \in [kind : {"none", "reply", "ask", "ip"},
                   hop : Addrs \cup {Unset, Broadcast}, eth : Macs \cup {NoMac}]
    BY <1>0, <1>1, <1>2, <1>3 DEF TypeOK, Frame
  <2> QED
    BY <1>0, <1>4, <2>1 DEF TypeOK
<1>6. OneEntry' /\ EntriesLatest'
  BY <1>0, <1>4 DEF OneEntry, EntriesLatest
<1>7. AgesBelow' /\ AgesTrue'
  BY <1>0, <1>4 DEF AgesBelow, AgesTrue, Elapsed, InUse
<1>8. LatestHeard'
  BY <1>0, <1>2, <1>3, <1>4 DEF LatestHeard, EntriesLatest, Frame
<1> QED
  BY <1>5, <1>6, <1>7, <1>8 DEF ArpInv

LEMMA StepInv == ArpInv /\ [Next]_vars => ArpInv'
<1> SUFFICES ASSUME ArpInv, [Next]_vars PROVE ArpInv'
  OBVIOUS
<1>1. CASE Timer
  BY <1>1, TimerInv
<1>2. ASSUME NEW opcode \in {"request", "reply"}, NEW ip \in Addrs \cup {Unset},
             NEW eth \in Macs, ArpIn(opcode, ip, eth)
      PROVE  ArpInv'
  BY <1>2, ArpInInv
<1>3. ASSUME NEW dest \in Addrs \cup {Far, Broadcast}, IpOut(dest)
      PROVE  ArpInv'
  BY <1>3, IpOutInv
<1>4. ASSUME NEW router \in Addrs \cup {Unset}, Configure(router)
      PROVE  ArpInv'
  BY <1>4 DEF ArpInv, Configure, TypeOK, OneEntry, EntriesLatest, AgesBelow, AgesTrue,
              LatestHeard, Elapsed, InUse, NoFrame
<1>5. CASE UNCHANGED vars
  BY <1>5 DEF ArpInv, vars, TypeOK, OneEntry, EntriesLatest, AgesBelow, AgesTrue,
              LatestHeard, Elapsed, InUse
<1> QED
  BY <1>1, <1>2, <1>3, <1>4, <1>5 DEF Next

\* What the cache holds is always typed, single, the latest heard of, and aged
\* no more than it is.
THEOREM ArpInvariant == Spec => []ArpInv
<1>1. Init => ArpInv
  BY InitInv
<1>2. ArpInv /\ [Next]_vars => ArpInv'
  BY StepInv
<1> QED
  BY <1>1, <1>2, PTL DEF Spec

-----------------------------------------------------------------------------
(* The properties                                                           *)

\* An address has one entry at most (uip_arp_update()).
THEOREM OneEntryHolds == Spec => []OneEntry
<1>1. ArpInv => OneEntry
  BY DEF ArpInv
<1> QED
  BY <1>1, ArpInvariant, PTL

\* Packets go to the Ethernet address heard of last (uip_arp_out()).
THEOREM LatestHeardHolds == Spec => []LatestHeard
<1>1. ArpInv => LatestHeard
  BY DEF ArpInv
<1> QED
  BY <1>1, ArpInvariant, PTL

\* Until the clock wraps every entry goes in time (uip_arp_timer()).
THEOREM GoneInTimeHolds == Spec => []GoneInTime
<1>1. ArpInv => GoneInTime
  BY DEF ArpInv, AgesTrue, GoneInTime
<1> QED
  BY <1>1, ArpInvariant, PTL

\* The timer never takes an entry early, wrapped or not (uip_arp_timer()).
THEOREM NeverEarlyHolds == Spec => NeverEarly
<1> DEFINE Early == \A s \in Slots : arptime' # arptime /\ InUse(s) /\ arp_table'[s].ip = Unset =>
                      age'[s] = UIP_ARP_MAXAGE
<1>1. ArpInv /\ [Next]_vars => Early
  <2> SUFFICES ASSUME ArpInv, [Next]_vars, NEW s \in Slots,
                      arptime' # arptime, InUse(s), arp_table'[s].ip = Unset
               PROVE  age'[s] = UIP_ARP_MAXAGE
    OBVIOUS
  <2>0. TypeOK /\ AgesBelow
    BY DEF ArpInv
  <2>1. Timer
    BY DEF Next, vars, ArpIn, IpOut, Configure
  <2>2. Elapsed(arptime', s) >= UIP_ARP_MAXAGE
    BY <2>1 DEF Timer, Expires, InUse
  <2>3. arptime' = IF arptime = ClockRange - 1 THEN 0 ELSE arptime + 1
    BY <2>0, <2>1, TickStep DEF Timer, TypeOK
  <2>4. age[s] \in 0..UIP_ARP_MAXAGE /\ arptime \in Clock /\ arp_table[s].time \in Clock
    BY <2>0 DEF TypeOK
  <2>5. age[s] = UIP_ARP_MAXAGE \/ arptime - arp_table[s].time <= age[s]
    BY <2>0 DEF AgesBelow, Elapsed
  <2>6. age'[s] = IF age[s] < UIP_ARP_MAXAGE THEN age[s] + 1 ELSE age[s]
    BY <2>1 DEF Timer
  <2> QED
    BY <2>2, <2>3, <2>4, <2>5, <2>6, TableAssumption DEF Clock, Elapsed
<1> QED
  BY <1>1, ArpInvariant, PTL DEF Spec, NeverEarly

\* An entry thrown away for another is the oldest, until the clock wraps, and
\* no unused one was left (uip_arp_update()).
THEOREM ThrowsOldestHolds == Spec => ThrowsOldest
<1> DEFINE Thrown ==
      \A s \in Slots : InUse(s) /\ arp_table'[s].ip # arp_table[s].ip /\ arptime' = arptime =>
        \A t \in Slots : InUse(t) /\ (~wrapped => age[t] <= age[s])
<1>1. ArpInv /\ [Next]_vars => Thrown
  <2> SUFFICES ASSUME ArpInv, [Next]_vars, NEW s \in Slots, NEW t \in Slots,
                      InUse(s), arp_table'[s].ip # arp_table[s].ip, arptime' = arptime
               PROVE  InUse(t) /\ (~wrapped => age[t] <= age[s])
    OBVIOUS
  <2>0. TypeOK /\ AgesTrue
    BY DEF ArpInv
  <2>1. ~Timer
    <3>1. ASSUME Timer PROVE FALSE
      <4>1. arptime' = IF arptime = ClockRange - 1 THEN 0 ELSE arptime + 1
        BY <2>0, <3>1, TickStep DEF Timer, TypeOK
      <4>2. arptime \in Clock
        BY <2>0 DEF TypeOK
      <4> QED
        BY <4>1, <4>2, TableAssumption DEF Clock
    <3> QED
      BY <3>1
  <2>2. PICK opcode \in {"request", "reply"}, ip \in Addrs \cup {Unset}, eth \in Macs :
          ArpIn(opcode, ip, eth)
    BY <2>1 DEF Next, vars, IpOut, Configure
  <2> DEFINE slot == SlotFor(ip)
  <2>3. slot \in Slots
    BY <2>0, SlotForIn
  <2>4. arp_table' = [arp_table EXCEPT ![slot] = [ip |-> ip, eth |-> eth, time |-> arptime]]
    BY <2>2 DEF ArpIn, Write
  <2> HIDE DEF slot
  <2>5. s = slot /\ arp_table[slot].ip # ip
    BY <2>0, <2>3, <2>4 DEF TypeOK
  <2>6. Known(ip) = {}
    <3>1. Known(ip) # {} => First(Known(ip)) \in Known(ip)
      BY FirstIn DEF Known
    <3> QED
      BY <3>1, <2>5 DEF slot, SlotFor, Known
  <2>7. Unused = {}
    <3>1. Unused # {} => First(Unused) \in Unused
      BY FirstIn DEF Unused
    <3> QED
      BY <3>1, <2>5, <2>6 DEF slot, SlotFor, Unused
  <2>8. s = Oldest
    BY <2>5, <2>6, <2>7 DEF slot, SlotFor
  <2>9. InUse(t)
    BY <2>7 DEF Unused
  <2>10. ASSUME wrapped = FALSE PROVE age[t] <= age[s]
    <3>1. Elapsed(arptime, s) = age[s] /\ Elapsed(arptime, t) = age[t]
      BY <2>0, <2>9, <2>10 DEF AgesTrue
    <3>2. Elapsed(arptime, t) <= Elapsed(arptime, s) \/ Elapsed(arptime, t) <= 0
      BY <2>0, <2>8, OldestIs
    <3>3. age[s] \in 0..UIP_ARP_MAXAGE /\ age[t] \in 0..UIP_ARP_MAXAGE
      BY <2>0 DEF TypeOK
    <3> QED
      BY <3>1, <3>2, <3>3, TableAssumption
  <2>11. wrapped \in BOOLEAN
    BY <2>0 DEF TypeOK
  <2> QED
    BY <2>9, <2>10, <2>11
<1> QED
  BY <1>1, ArpInvariant, PTL DEF Spec, ThrowsOldest

\* uip_arp.c: the entries and the clock stay in their types, the entry that
\* uip_arp_update() chooses is one of the table's.
THEOREM ArpTypeOK == Spec => []TypeOK
<1>1. ArpInv => TypeOK
  BY DEF ArpInv
<1> QED
  BY <1>1, ArpInvariant, PTL
=============================================================================
