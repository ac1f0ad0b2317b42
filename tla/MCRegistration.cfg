CONSTANTS
  perth = perth
  local = local
  r1 = r1
  m1 = m1
  m2 = m2
  c1 = c1
  c2 = c2
  n1 = n1
  Services = {m1, m2}
  Locations = {perth}
  Volumes = {local}
  LocationOf <- MCLocationOf
  Servers = {r1}
  Clients = {c1, c2}
  Names = {n1}
  MaxFaults = 1
SPECIFICATION FairIngestSpec
INVARIANT IngestTypeOK ServingMeansConfigured OneConfigEach RecordedMeansKnown OneRowEach ReadyHasPath
PROPERTY EveryServiceStarts RefusalIsJustified
