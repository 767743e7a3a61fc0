CONSTANTS
  Branch = {b1, b2}
  Staff = {boss, lead, desk}
  Customer = {c1, c2}
  Device = {d1, d2}
  Ticket = {t1, t2}
  Key = {f1, f2}
  Worker = {w1, w2}
  RoleOf <- Roles
  Oldest = b1
  Phone = {p1, p2}
  Email = {e1}
  Serial = {s1}
  Name = {n1, n2}
  Blank = Blank
  Null = Null
  Old <- Databases
  MaxRequests = 3
  MaxFaults = 1
  boss = boss
  lead = lead
  desk = desk
  b1 = b1
  b2 = b2
  c1 = c1
  c2 = c2
  d1 = d1
  d2 = d2
  t1 = t1
  t2 = t2
  p1 = p1
  p2 = p2
  e1 = e1
  s1 = s1
SPECIFICATION Spec
SYMMETRY Alikes
INVARIANTS
  TypeOK
  PlacesAgree
  TrailTellsRows
  EveryRowHasItsFile
  OrphansComeFromFaults
CHECK_DEADLOCK FALSE
