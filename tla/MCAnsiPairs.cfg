SPECIFICATION Spec
CONSTANTS
  Chars <- MCPairs
  Wide <- MCWide
  Params <- MCParams
  TabStop = 2
  MaxLines = 2
  Slack = 1
  MaxCol = 4
  MaxEdits = 4
INVARIANTS
  PairsWhole
CHECK_DEADLOCK FALSE
