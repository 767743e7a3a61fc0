CONSTANTS
  Role = {"OWNER", "BRANCH_MANAGER", "FRONT_DESK", "TECHNICIAN"}
  Opened = {"layout", "dashboard", "tickets", "customers", "devices", "estimates", "invoices", "reports", "branches", "users", "audit-logs", "settings"}
  Visited = {"settings"}
  MaxVisits = 1
  MaxWrites = 1
  Aged = {"branches-list-for-users"}
  Failing = {"ticket-timeline"}
SPECIFICATION Spec
INVARIANTS
  TypeOK
  OwnWriteShows
  PagesReadWhatTheyMay
  OffersArePermitted
PROPERTIES
  OwnWriteComes
CHECK_DEADLOCK FALSE
