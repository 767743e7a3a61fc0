CONSTANTS
  Ticket = {k1, k2}
  Tech = {tina, tom}
  Me = tina
  Nobody = Nobody
  Role = {"SYSTEM_ADMIN", "TECHNICIAN"}
  Start <- Rows
  k1 = k1
  k2 = k2
  Finding = {"WAITING_FOR_APPROVAL", "DIAGNOSING"}
  MaxCalls = 2
  MaxOthers = 1
SPECIFICATION Spec
INVARIANTS
  TypeOK
  DrawerTellsTruth
  ListFollowsOwnWork
PROPERTIES
  StaleMovesAreFew
CHECK_DEADLOCK FALSE
