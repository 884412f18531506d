SPECIFICATION FairSpec
CONSTANTS
  Msg = {1, 2}
  MaxQueued = 1
  MaxAttempts = 2
  MaxWait = 2
  MaxHold = 1
  MaxFaults = 1
INVARIANTS
  TypeOK
  NoMessageLost
  SentOnce
  UndoHolds
PROPERTIES OnlyWhenItMay EveryMessageSettles
