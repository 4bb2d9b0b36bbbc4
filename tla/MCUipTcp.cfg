SPECIFICATION FairSpec
CONSTANTS
  UIP_RTO = 0
  UIP_MAXRTX = 1
  UIP_MAXSYNRTX = 1
  UIP_TIME_WAIT_TIMEOUT = 2
  UIP_TCP_MSS = 2
  RTOs = {0}
  AppBytes = 3
  PeerBytes = 1
  Windows <- FullWindow
  MssOptions <- MssOrNone
  ToUipLimit = 2
  ToPeerLimit = 1
INVARIANTS
  TypeOK StopAndWait DeliveredInOrder CleanClose
PROPERTIES
  HandshakesEnd ConnectIsAnswered
CHECK_DEADLOCK FALSE
