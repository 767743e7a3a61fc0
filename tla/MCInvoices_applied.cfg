CONSTANTS
  admin = admin
  clerk = clerk
  Staff = {admin}
  Worker = {w1, w2}
  TicketId = {t1}
  RoleOf <- MCRoleOf
  Scope <- MCScope
  Subtotals = {3}
  Discounts = {0}
  Amounts = {1, 2, 3}
  MaxInvoices = 1
  MaxAudit = 4
SPECIFICATION Spec
PROPERTIES
  PaymentLowersBalance
