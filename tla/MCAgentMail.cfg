SPECIFICATION Spec
CONSTANTS
  a1 = a1
  u1 = u1
  u2 = u2
  Agents <- MCAgents
  Users <- MCUsers
  MaxMessages = 2
  MaxTime = 2
  MaxReplies = 2
  MaxFaults = 1
INVARIANTS
  TypeOK
  CopiesBounded
  ReplyNamesItsMessage
PROPERTIES
  ReachesEveryone
  OutboxDrains
CHECK_DEADLOCK FALSE
