SPECIFICATION Spec
CONSTANTS
  Obj = {a}
  InitStored = {a}
  MaxAttempts = 2
  UserActs = {"create", "edit", "delete", "blind_delete", "keep_local", "take_server"}
  Reports = {"token"}
  BatchRows = 1
  MissingRounds = 2
  MaxEdits = 3
  MaxRemote = 2
  MaxFaults = 3
CHECK_DEADLOCK FALSE
INVARIANTS
  PendingEditIsShown
  EtagNamesContent
PROPERTY NoLostEdit
