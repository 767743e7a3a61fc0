CONSTANTS
  User = {u1}
  Worker = {w1, w2}
  Statuses = {"SUSPENDED"}
  Roles = {"FRONT_DESK"}
  LockAfter = 2
  Deadlines = {}
  MaxFailures = 2
  MaxLogins = 1
  MaxSessions = 2
  MaxResets = 1
SPECIFICATION Spec
SYMMETRY Symmetry
INVARIANTS
  LockIsEarned
  ReplacedIsDead
  LinkPerPassword
