CONSTANTS
  admin = admin
  manager = manager
  clerk = clerk
  tech1 = tech1
  tech2 = tech2
  main = main
  other = other
  Nobody = Nobody
  Staff = {admin}
  Worker = {w1}
  TicketId = {t1, t2}
  Branch = {main, other}
  RoleOf <- MCRoleOf
  BranchesOf <- MCBranchesOf
  MaxChanges = 5
  MaxAssigns = 0
  MaxFindings = 2
SPECIFICATION Spec
SYMMETRY Symmetry
INVARIANTS
  NumbersAreSequential
PROPERTIES
  FollowsMachine
