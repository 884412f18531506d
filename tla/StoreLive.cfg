SPECIFICATION FairSpec
CONSTANTS
  Collections = {"home", "other"}
  MaxKeys = 4
  MaxFaults = 1
  MaxSwitches = 0
  MaxMeddling = 1
  MaxCrashes = 0
PROPERTIES FollowsKeyRing UnwantedIsRemoved
