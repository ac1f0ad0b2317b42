CONSTANTS
  a1 = a1
  a2 = a2
  s1 = s1
  s2 = s2
  NoItem = NoItem
  Items = {a1, a2}
  Registered = {a1}
  Storages = {s1}
  Engines = {e1, e2}
  Staying = {e1}
  e1 = e1
  e2 = e2
  OidOf <- MCOidOf
  NameOf <- MCNameOf
  StorageOf <- MCOneVolume
  StoragePhase <- MCStoragePhase
  Target <- MCTarget
  Parent <- MCNoParent
  Containers = {}
  Contents <- MCNothingInside
  Withdrawals = TRUE
  MaxFaults = 1
SPECIFICATION FairSpec
INVARIANT TypeOK TombstoneSound
PROPERTY OnlyRivalsSpoilDecisions RemovableIsRemoved
