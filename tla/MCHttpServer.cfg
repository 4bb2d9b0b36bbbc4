SPECIFICATION FairSpec
CONSTANTS
  Requests = {"put", "putexpect", "putnolen", "putform", "get", "dir", "delete", "run", "newfolder"}
  u1 = u1
  u2 = u2
  u3 = u3
  Units = {u1, u2, u3}
  Body <- ThreeUnits
  BufSize = 2
  Chunks = {0, 1, 2}
  MaxAsks = 2
  MaxConns = 2
  MaxFaults = 1
INVARIANTS
  TypeOK
  CreatedIsStored
  NothingLeftOpen
  RepliesInTurn
  RunOnce
PROPERTIES
  AnswersAll
CHECK_DEADLOCK FALSE
