SPECIFICATION FairSpec
CONSTANTS
  Msgs = {"m", "n"}
  Stuck = {"n"}
  Calls = {"c1"}
  Batch = 2
  MaxTime = 1
  MaxSleep = 2
  MaxSnoozes = 2
  MaxCancels = 1
  MaxAccidents = 2
CHECK_DEADLOCK FALSE
INVARIANTS
  TypeOK
  SnoozedHasRow
  AlarmIsSet
PROPERTIES SnoozedComesBack
