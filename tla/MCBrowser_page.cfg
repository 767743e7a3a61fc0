CONSTANTS
  t1 = t1
  t2 = t2
  q1 = q1
  q2 = q2
  Tab = {t1}
  Query = {q1, q2}
  QueriesOf <- Queries
  Desk = {t1}
  Where = {"settings"}
  Faults = {"ended", "lost", "shed"}
  Breaking = {"load", "check", q1, q2}
  MaxLapses = 2
  MaxLogins = 2
  MaxLoads = 1
SPECIFICATION Spec
INVARIANTS
  QueueHasRefresh
  OnlyClashSignsOut
PROPERTIES
  EveryCallSettles
  EveryPageDecides
CHECK_DEADLOCK FALSE
