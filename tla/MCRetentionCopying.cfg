CONSTANTS
  a1 = a1
  a2 = a2
  s1 = s1
  s2 = s2
  NoItem = NoItem
  Items = {a1, a2}
  Registered = {a1}
  Storages = {s1, s2}
  Engines = {e1}
  Staying = {e1}
  e1 = e1
  e2 = e2
  OidOf <- MCOidOf
  NameOf <- MCNameOf
  StorageOf <- MCStorageOf
  StoragePhase <- MCStoragePhase
  Target <- MCTarget
  Parent <- MCNoParent
  Containers = {}
  Contents <- MCNothingInside
  Withdrawals = FALSE
  MaxFaults = 0
SPECIFICATION Spec
PROPERTY PayloadRemovalSafe
