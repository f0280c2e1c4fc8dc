SPECIFICATION SafeSpec
CONSTANTS
  c1 = c1
  c2 = c2
  p1 = p1
  p2 = p2
  Conns <- MCConns
  Pids <- MCPids
  NoPid = NoPid
SYMMETRY Symmetry
PROPERTIES
  KillsOwnShell
CHECK_DEADLOCK FALSE
