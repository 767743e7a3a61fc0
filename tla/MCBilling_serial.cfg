CONSTANTS
  admin = admin
  clerk = clerk
  Nobody = Nobody
  Staff = {admin, clerk}
  Worker = {w1}
  TicketId = {t1}
  Branch = {main}
  RoleOf <- MCRoleOf
  BranchesOf <- MCBranchesOf
  MaxChanges = 1
  MaxAssigns = 0
  MaxFindings = 0
  MaxEntries = 3
  MaxEstimates = 2
  Subtotals = {3}
  Discounts = {0, 2001}
  Amounts = {1, 3}
  MaxInvoices = 2
  MaxAudit = 3
SPECIFICATION BillingSpec
INVARIANTS
  BilledWasApproved
PROPERTIES
  KeepsQuote
  KeepsLedger
