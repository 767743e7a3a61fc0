CONSTANTS
  admin = admin
  manager = manager
  clerk = clerk
  tech1 = tech1
  tech2 = tech2
  main = main
  other = other
  Nobody = Nobody
  Staff = {clerk, tech1}
  Worker = {w1, w2}
  TicketId = {t1}
  Branch = {main}
  RoleOf <- MCRoleOf
  BranchesOf <- MCBranchesOf
  MaxChanges = 5
  MaxAssigns = 1
  MaxFindings = 1
SPECIFICATION Spec
SYMMETRY Symmetry
INVARIANTS
  TypeOK
  TimelineEndsAtStatus
  TimelineIsAuthorized
  StagesAreStamped
  TrailIsComplete
  AssigneeHasOpenRow
PROPERTIES
  KeepsTimeline
