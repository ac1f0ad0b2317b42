CONSTANTS
  a1 = a1
  a2 = a2
  a3 = a3
  b1 = b1
  oa = oa
  ob = ob
  disk = disk
  tape = tape
  c1 = c1
  c2 = c2
  q1 = q1
  q2 = q2
  Nothing = Nothing
  Storages = {disk, tape}
  OriginalPlace <- MCOriginalPlace
  NameOf <- MCNameOf
  Uids = {a1, a2, a3}
  Originals = {a1}
  Oids = {oa}
  Copiers = {c1}
  Pollers = {q1}
  Staying = {q1}
  Repeated = TRUE
  Retention = FALSE
  FaultKinds = {}
  MaxFaults = 0
SPECIFICATION Spec
PROPERTY RecordsAreMaintained
CHECK_DEADLOCK FALSE
