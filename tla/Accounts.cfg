SPECIFICATION Spec
CONSTANTS
  Calls = {c1, c2}
  Flows = {f1}
  Resources = {"mail", "graph"}
  MaxPending = 1
  Ttl = 1
  MaxLife = 2
  MaxGen = 2
  MaxFaults = 1
  MaxRevokes = 0
  MaxCrashes = 1
INVARIANTS TypeOK SecretsHaveAccount ReauthIsTrue DateDescribesToken
PROPERTY DiscardedMakesNone
SYMMETRY CallSymmetry
