SPECIFICATION Spec
CONSTANTS
  x = x
  Nobody = Nobody
  Clients <- OneClient
  FTPD_MAX_DATA_CONNECTIONS = 2
  FTPD_BASE_DATA_PORT = 7
  UIP_CONNS = 2
  UIP_LISTENPORTS = 2
  INPUTBUF_SIZE = 3
  UIP_TCP_MSS = 2
  Commands = 5
  Aborts = FALSE
  HandshakeLag = FALSE
  Overlap = FALSE
INVARIANTS WholeWhenTold
CHECK_DEADLOCK FALSE
