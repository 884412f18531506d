SPECIFICATION FairSpec
CONSTANTS
  Collections = {"home"}
  MaxKeys = 3
  MaxFaults = 0
  MaxSwitches = 0
  MaxMeddling = 0
  MaxCrashes = 0
PROPERTY OpenIsReadable
