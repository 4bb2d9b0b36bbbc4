SPECIFICATION FairSpec
CONSTANTS
  Servers = {"A", "B"}
  Good = "A"
  MaxToggles = 1
  MaxPrograms = 1
  MaxBoots = 2
  CodeLen = 2
  RingSize = 4
  MaxKeys = 4
  MaxPrints = 4
  MaxLosses = 1
INVARIANTS
  TypeOK
  AddressRight
  KeysWhole
  OutputWhole
PROPERTIES
  GetsConfigured
CHECK_DEADLOCK FALSE
