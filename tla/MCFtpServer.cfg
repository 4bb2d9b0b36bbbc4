SPECIFICATION FairSpec
CONSTANTS
  x = x
  Nobody = Nobody
  Clients <- OneClient
  FTPD_MAX_DATA_CONNECTIONS = 2
  FTPD_BASE_DATA_PORT = 9
  UIP_CONNS = 3
  UIP_LISTENPORTS = 2
  INPUTBUF_SIZE = 3
  UIP_TCP_MSS = 2
  Commands = 6
  Aborts = TRUE
  HandshakeLag = FALSE
  Overlap = FALSE
INVARIANTS TypeOK Honest226 NoNullUse
PROPERTIES RepliesAtEnd TransferEnds
CHECK_DEADLOCK FALSE
