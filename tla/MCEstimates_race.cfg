CONSTANTS
  manager = manager
  clerk = clerk
  main = main
  Nobody = Nobody
  Staff = {manager}
  Worker = {w1, w2}
  TicketId = {t1}
  Branch = {main}
  RoleOf <- MCRoleOf
  BranchesOf <- MCBranchesOf
  MaxChanges = 3
  MaxAssigns = 0
  MaxFindings = 0
  MaxEntries = 5
  Subtotals = {3}
  MaxEstimates = 1
SPECIFICATION EstimatesSpec
SYMMETRY Symmetry
INVARIANTS
  LinkAgrees
  VerdictsAreTold
  TimelineEndsAtStatus
