SPECIFICATION FairSpec
CONSTANTS
  Lens = {2, 3, 4}
  Dest = 3
  MaxPackets = 5
  MaxFaults = 1
  Urb = 8
  Fifo = 8
  Pages = 6
  PageLen = 5
  Dongles = {"172", "772", "772B", "picowifi", "other", "none"}
  Polls = 2
  Segs = {2, 3, 4, 5}
  SplitAbove = 3
INVARIANTS
  TypeOK
  AddressWhole
  HalvesFit
PROPERTIES
  KeepsPromise
  NoneSkipped
  AllHandedUp
  StartsUp
CHECK_DEADLOCK FALSE
