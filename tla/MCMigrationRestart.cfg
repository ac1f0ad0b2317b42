CONSTANTS
  a1 = a1
  a2 = a2
  a3 = a3
  b1 = b1
  oa = oa
  ob = ob
  disk = disk
  tape = tape
  c1 = c1
  c2 = c2
  q1 = q1
  q2 = q2
  Nothing = Nothing
  Storages = {disk, tape}
  OriginalPlace <- MCOriginalPlace
  NameOf <- MCNameOf
  Uids = {a1, b1, a2, a3}
  Originals = {a1, b1}
  Oids = {oa, ob}
  Copiers = {c1}
  Pollers = {q1}
  Staying = {q1}
  Repeated = FALSE
  Retention = FALSE
  FaultKinds = {"restart"}
  MaxFaults = 1
SPECIFICATION Spec
INVARIANT ReadyIsReal
CHECK_DEADLOCK FALSE
