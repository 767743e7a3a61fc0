CONSTANTS
  User = {u1}
  Worker = {w1}
  Statuses = {"ACTIVE", "SUSPENDED"}
  Roles = {"FRONT_DESK"}
  LockAfter = 2
  Deadlines = {"lock", "session", "link"}
  MaxFailures = 3
  MaxLogins = 2
  MaxSessions = 3
  MaxResets = 2
SPECIFICATION Spec
INVARIANTS
  NoSessionOutlivesPassword
