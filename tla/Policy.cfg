CONSTANTS
  k1 = k1  k2 = k2
  NoKey = NoKey  NoPatch = NoPatch
  Threads = {t1, t2}
  Sections = {"policy_sets", "dhqc"}
  Versions = {"v1", "v2", "v3"}
  Keys = {k1, k2}
  Bundles = {"v1", "v2"}
  Patches <- MCPatches
  MaxRequests = 3
SPECIFICATION Spec
INVARIANTS
  SerialKeysApplyOnce
  SerialVersionIsInForce
