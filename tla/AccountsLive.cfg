SPECIFICATION FairSpec
CONSTANTS
  Calls = {c1, c2}
  Flows = {f1}
  Resources = {"mail"}
  MaxPending = 1
  Ttl = 1
  MaxLife = 1
  MaxGen = 2
  MaxFaults = 1
  MaxRevokes = 1
  MaxCrashes = 1
PROPERTIES EveryCallEnds RevokedIsMarked
