SPECIFICATION Spec
CONSTANTS
  a = a
  b = b
  h = h
  m = m
  n = n
  UIP_ARPTAB_SIZE = 2
  UIP_ARP_MAXAGE = 2
  ClockRange = 4
  Addrs = {a, b, h}
  Halved = {h}
  Unset = unset
  Far = far
  Broadcast = broadcast
  Macs = {m, n}
  NoMac = nomac
INVARIANTS
  TypeOK
  OneEntry
  LatestHeard
  GoneInTime
PROPERTIES
  NeverEarly
  ThrowsOldest
SYMMETRY Alike
