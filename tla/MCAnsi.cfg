SPECIFICATION Spec
CONSTANTS
  Chars <- MCChars
  Wide = {}
  Params <- MCParams
  TabStop = 2
  MaxLines = 2
  Slack = 1
  MaxCol = 3
  MaxEdits = 5
INVARIANTS
  TypeOK
  KeepsRecentLines
PROPERTIES
  ImplementsText
  NoRepaint
CHECK_DEADLOCK FALSE
