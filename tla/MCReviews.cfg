SPECIFICATION Spec
CONSTANTS
  plan = plan
  planmd = planmd
  Names <- MCNames
  Order <- MCOrder
  Contains <- MCContains
  Alike <- MCAlike
  MaxSubmits = 2
  MaxCrashes = 1
  MaxLost = 1
INVARIANTS
  TypeOK
  AuditAccounts
  StampAgrees
PROPERTIES
  EventsAreHeard
CHECK_DEADLOCK FALSE
