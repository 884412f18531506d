SPECIFICATION Spec
CONSTANTS
  Collections = {"home", "other"}
  MaxKeys = 4
  MaxFaults = 1
  MaxSwitches = 1
  MaxMeddling = 0
  MaxCrashes = 1
INVARIANTS TypeOK OpenStoreHasItsKey
PROPERTY GoodStoreSurvives
