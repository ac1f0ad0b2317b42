CONSTANTS
  ev1 = ev1
  ev2 = ev2
  ev3 = ev3
  x0 = x0
  NoEvent = NoEvent
  Events = {ev1, ev2, ev3}
  Producers = {p1}
  p1 = p1
  p2 = p2
  Relays = {r1}
  r1 = r1
  r2 = r2
  BatchSize = 2
  Exchanges = {x0}
  DefaultExchange = x0
  MaxFaults = 2
SPECIFICATION FairSpec
INVARIANT TypeOK OutboxSound PublishedInOrder RepeatsNeedFaults
PROPERTY SettledStaysSettled DeliversEvents EveryEventSettles
CHECK_DEADLOCK FALSE
