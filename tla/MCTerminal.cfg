SPECIFICATION SystemSpec
CONSTANTS
  c1 = c1
  p1 = p1
  Conns <- MCConns
  Pids <- MCPids
  NoPid = NoPid
  NoConn = NoConn
INVARIANTS
  SystemTypeOK
  NoOrphanShell
PROPERTIES
  KeepsGoodSocket
  ShellEndCloses
  GoneClientEndsShell
  Retries
  OffersTap
CHECK_DEADLOCK FALSE
