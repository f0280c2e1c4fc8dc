SPECIFICATION Spec
CONSTANTS
  d1 = d1
  d2 = d2
  d3 = d3
  k1 = k1
  k2 = k2
  h1 = h1
  Daemons <- MCDaemons
  Shells <- MCShells
  Hooks <- MCHooks
  None = None
  MaxCommands = 3
  MaxReuses = 1
SYMMETRY Symmetry
INVARIANTS
  TypeOK
  FilesTellTheTruth
  NoSilentLoss
CHECK_DEADLOCK FALSE
