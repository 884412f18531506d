SPECIFICATION FairSpec
CONSTANTS
  Obj = {a, b}
  InitStored = {a}
  MaxAttempts = 2
  UserActs = {"create", "edit", "delete", "keep_local"}
  Reports = {"token", "etag"}
  BatchRows = 1
  MissingRounds = 3
  MaxEdits = 2
  MaxRemote = 1
  MaxFaults = 1
CHECK_DEADLOCK FALSE
INVARIANTS
  TypeOK
  SettledRowsAreCurrent
PROPERTIES
  PromiseKept
  ReadyIsResolved
  EventuallyCurrent
