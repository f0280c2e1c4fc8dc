SPECIFICATION Spec
CONSTANTS
  Providers <- MCProviders
  Public = FALSE
  Workspace = TRUE
  Owner = "self"
  Installed <- MCInstalled
  DailyLimit = 2
  TTL = 1
  Day = 2
  MaxPairs = 2
  MaxBytes = 3
  MaxTime = 3
  MaxChanges = 4
  MaxAsks = 3
  MaxFaults = 1
INVARIANTS
  TypeOK
  OffMeansOff
  KeyFitsBackend
  ContextIsOneTalk
  LimitHolds
CHECK_DEADLOCK FALSE
