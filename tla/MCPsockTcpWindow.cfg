SPECIFICATION PSpec
CONSTANTS
  UIP_RTO = 0
  UIP_MAXRTX = 1
  UIP_MAXSYNRTX = 1
  UIP_TIME_WAIT_TIMEOUT = 1
  UIP_TCP_MSS = 2
  RTOs = {0}
  AppBytes = 3
  PeerBytes = 1
  Windows <- AnyWindow
  MssOptions <- FullWindow
  ToUipLimit = 1
  ToPeerLimit = 2
INVARIANTS
  ReturnsWhenReceived
CHECK_DEADLOCK FALSE
