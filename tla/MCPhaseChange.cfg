CONSTANTS
  a1 = a1
  a2 = a2
  b1 = b1
  b2 = b2
  s1 = s1
  s2 = s2
  s3 = s3
  s4 = s4
  e1 = e1
  NoItem = NoItem
  Items = {a1, a2, b1, b2}
  Registered = {a1, b1}
  Storages = {s1, s2, s3, s4}
  Engines = {e1}
  Staying = {e1}
  OidOf <- MCOidOf
  NameOf <- MCNameOf
  StorageOf <- MCSolidCopy
  StoragePhase <- MCStoragePhase
  Target <- MCTarget
  Parent <- MCNoParent
  Containers = {}
  Contents <- MCNothingInside
  Withdrawals = FALSE
  MaxFaults = 1
SPECIFICATION PhaseSpec
INVARIANT PhaseTypeOK
PROPERTY OnlyEnforceOverstates LoweringStepwiseKeepsGoal DoneMeansGoal 
