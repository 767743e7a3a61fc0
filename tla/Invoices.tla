-------------------------------- MODULE Invoices --------------------------------
(***************************************************************************)
(* InvoicesService: issuing an invoice from an approved estimate, taking   *)
(* payments and voiding.  As in RepairTickets, a Worker is one request:    *)
(* Begin reads the rows and makes every check, Commit is the transaction   *)
(* that writes what was computed from that reading, Abort its rollback.    *)
(***************************************************************************)
EXTENDS Money, Lifecycle, Sequences

CONSTANTS
  TicketId,     \* the repair tickets
  Staff,        \* the users
  Worker,       \* the requests that can be in flight together
  RoleOf,       \* each user's role
  Scope,        \* the tickets in each user's branches
  Subtotals,    \* the subtotals estimates can have
  Discounts,    \* the discounts asked for
  Amounts,      \* the payments offered
  MaxInvoices,  \* bound: no invoice is begun beyond so many
  MaxAudit      \* bound: no payment or voiding is begun beyond so many audit rows

ASSUME InvoiceAssumption ==
  /\ RoleOf \in [Staff -> UserRole]
  /\ Scope \in [Staff -> SUBSET TicketId]
  /\ Subtotals \subseteq Nat
  /\ Discounts \subseteq Nat
  /\ Amounts \subseteq Nat \ {0}   \* recordPaymentSchema: int, at least 1
  /\ MaxInvoices \in Nat /\ MaxAudit \in Nat

VARIABLES
  approved,   \* the subtotals of each ticket's APPROVED estimates
  invoices,   \* Invoice rows in the order of their numbers (1, 2, ...)
  received,   \* the sum of the PaymentRecord rows of each invoice
  audit,      \* AuditLog rows of each invoice, oldest first
  req         \* what each worker is doing

vars == <<approved, invoices, received, audit, req>>

-----------------------------------------------------------------------------
(* Rows.  The number of an invoice is its position: the counter row stays   *)
(* locked from generateInvoiceNumber to the end of the transaction.         *)

InvoiceStatus == {"UNPAID", "PARTIALLY_PAID", "PAID", "VOID"}

Invoice ==
  [ticket: TicketId, totalAmount: Int, amountPaid: Int, balanceDue: Int,
   status: InvoiceStatus]

\* What a row of the audit says was done, and the balance it left: the row of a
\* voiding is written without values and states none.
Entry ==
       [action: {"CREATE_INVOICE", "RECORD_PAYMENT"}, balance: Int]
  \cup [action: {"VOID_INVOICE"}]

Idle == [op |-> "idle"]

Request ==
       [op: {"idle"}]
  \cup [op: {"create"}, ticket: TicketId, total: Int]
  \cup [op: {"pay"}, invoice: Nat \ {0}, amount: Nat \ {0}, seenPaid: Int]
  \cup [op: {"void"}, invoice: Nat \ {0}]

TypeOK ==
  /\ approved \in [TicketId -> SUBSET Subtotals]
  /\ invoices \in Seq(Invoice)
  /\ received \in Seq(Nat)
  /\ audit \in Seq(Seq(Entry))
  /\ Len(received) = Len(invoices)
  /\ Len(audit) = Len(invoices)
  /\ req \in [Worker -> Request]
  /\ \A w \in Worker : req[w].op \in {"pay", "void"} => req[w].invoice \in DOMAIN invoices

Init ==
  /\ approved = [t \in TicketId |-> {}]
  /\ invoices = <<>>
  /\ received = <<>>
  /\ audit = <<>>
  /\ req = [w \in Worker |-> Idle]

-----------------------------------------------------------------------------
Desk(u) == RoleOf[u] # "TECHNICIAN"

\* @Roles on voidInvoice.
Manager(u) == RoleOf[u] \in Unscoped \cup {"BRANCH_MANAGER"}

\* findOne's branch check.
CanOpen(u, i) == RoleOf[u] \in Unscoped \/ invoices[i].ticket \in Scope[u]

Receive(w, r) ==
  /\ req[w] = Idle
  /\ req' = [req EXCEPT ![w] = r]
  /\ UNCHANGED <<approved, invoices, received, audit>>

Answer(w) == req' = [req EXCEPT ![w] = Idle]

Write(i, entry) == audit' = [audit EXCEPT ![i] = Append(@, entry)]

\* The estimates of a ticket as other requests decide them: an approval, or
\* a decision overwritten by one that raced with it (EstimatesService).
Approve(t, s) ==
  /\ s \notin approved[t]
  /\ approved' = [approved EXCEPT ![t] = @ \cup {s}]
  /\ UNCHANGED <<invoices, received, audit, req>>

Overturn(t, s) ==
  /\ s \in approved[t]
  /\ approved' = [approved EXCEPT ![t] = @ \ {s}]
  /\ UNCHANGED <<invoices, received, audit, req>>

-----------------------------------------------------------------------------
(* createFromTicket *)

\* Mutant: the existing invoice is not looked for.
Active_None(t) == FALSE

\* Is there an invoice of the ticket that is not VOID?
Active(t) == \E i \in DOMAIN invoices : invoices[i].ticket = t /\ invoices[i].status # "VOID"

\* The ticket, the active invoice and the estimate are read before the
\* transaction; any of several approved estimates may come first.
BeginCreate(w, u, t, discount) ==
  /\ Desk(u)
  /\ Len(invoices) < MaxInvoices
  /\ ~Active(t)
  /\ MayDiscount(RoleOf[u], discount)
  /\ \E s \in approved[t] :
       Receive(w, [op |-> "create", ticket |-> t, total |-> Total(s, discount)])

CommitCreate(w) ==
  LET r == req[w] IN
  /\ r.op = "create"
  /\ invoices' = Append(invoices,
       [ticket |-> r.ticket, totalAmount |-> r.total, amountPaid |-> 0,
        balanceDue |-> r.total, status |-> "UNPAID"])
  /\ received' = Append(received, 0)
  /\ audit' = Append(audit, <<[action |-> "CREATE_INVOICE", balance |-> r.total]>>)
  /\ Answer(w)
  /\ UNCHANGED approved

-----------------------------------------------------------------------------
(* recordPayment *)

Payable(i) == invoices[i].status \notin {"PAID", "VOID"}

Fits(amount, i) == amount <= invoices[i].balanceDue

BeginPay(w, u, i, amount) ==
  /\ Desk(u)
  /\ CanOpen(u, i)
  /\ Payable(i)
  /\ Fits(amount, i)
  /\ Len(audit[i]) < MaxAudit
  /\ Receive(w, [op |-> "pay", invoice |-> i, amount |-> amount,
                 seenPaid |-> invoices[i].amountPaid])

\* What a payment of amount leaves, counted from the paid amount that was read.
BalanceAfter(row, seenPaid, amount) == row.totalAmount - (seenPaid + amount)

\* Mutant: a payment that leaves a balance does not touch the status.
Paid_KeepsStatus(row, seenPaid, amount) ==
  [row EXCEPT !.amountPaid = seenPaid + amount,
              !.balanceDue = BalanceAfter(row, seenPaid, amount),
              !.status = IF row.totalAmount = seenPaid + amount THEN "PAID" ELSE @]

\* Mutant: the balance is decremented in the database, the paid amount is not.
Paid_Decrement(row, seenPaid, amount) ==
  [row EXCEPT !.amountPaid = seenPaid + amount,
              !.balanceDue = @ - amount,
              !.status = IF row.totalAmount = seenPaid + amount THEN "PAID" ELSE "PARTIALLY_PAID"]

\* The header after a payment: everything is computed from the amount read.
Paid(row, seenPaid, amount) ==
  LET amountPaid == seenPaid + amount
      balanceDue == BalanceAfter(row, seenPaid, amount)
  IN [row EXCEPT !.amountPaid = amountPaid,
                 !.balanceDue = balanceDue,
                 !.status = IF balanceDue = 0 THEN "PAID" ELSE "PARTIALLY_PAID"]

\* The audit row states the balance that was computed, not the one stored.
CommitPay(w) ==
  LET r == req[w]
      row == invoices[r.invoice]
  IN
  /\ r.op = "pay"
  /\ received' = [received EXCEPT ![r.invoice] = @ + r.amount]
  /\ invoices' = [invoices EXCEPT ![r.invoice] = Paid(row, r.seenPaid, r.amount)]
  /\ Write(r.invoice, [action |-> "RECORD_PAYMENT",
                       balance |-> BalanceAfter(row, r.seenPaid, r.amount)])
  /\ Answer(w)
  /\ UNCHANGED approved

-----------------------------------------------------------------------------
(* voidInvoice *)

\* An invoice that is VOID already may be voided again.
Voidable(i) == invoices[i].status # "PAID" /\ invoices[i].amountPaid <= 0

BeginVoid(w, u, i) ==
  /\ Manager(u)
  /\ CanOpen(u, i)
  /\ Voidable(i)
  /\ Len(audit[i]) < MaxAudit
  /\ Receive(w, [op |-> "void", invoice |-> i])

Voided(row) == [row EXCEPT !.status = "VOID", !.balanceDue = 0]

CommitVoid(w) ==
  LET i == req[w].invoice IN
  /\ req[w].op = "void"
  /\ invoices' = [invoices EXCEPT ![i] = Voided(@)]
  /\ Write(i, [action |-> "VOID_INVOICE"])
  /\ Answer(w)
  /\ UNCHANGED <<approved, received>>

-----------------------------------------------------------------------------
Abort(w) ==
  /\ req[w] # Idle
  /\ Answer(w)
  /\ UNCHANGED <<approved, invoices, received, audit>>

Begin(w) ==
  \E u \in Staff :
    \/ \E t \in TicketId, discount \in Discounts : BeginCreate(w, u, t, discount)
    \/ \E i \in DOMAIN invoices :
         \/ \E amount \in Amounts : BeginPay(w, u, i, amount)
         \/ BeginVoid(w, u, i)

Finish(w) ==
  \/ CommitCreate(w)
  \/ CommitPay(w)
  \/ CommitVoid(w)
  \/ Abort(w)

Next ==
  \/ \E t \in TicketId, s \in Subtotals : Approve(t, s) \/ Overturn(t, s)
  \/ \E w \in Worker : Begin(w) \/ Finish(w)

Spec == Init /\ [][Next]_vars

-----------------------------------------------------------------------------
(* Invariants that hold whatever the requests in flight *)

\* The columns of an invoice agree with one another after any overlap of
\* payments and voidings: the balance is what is left of the total, no more than
\* the total was taken, and the status says which case it is.  Only an invoice
\* for nothing or less is unpaid without a balance.
HeaderAddsUp ==
  \A i \in DOMAIN invoices :
    LET v == invoices[i] IN
    /\ v.status = "VOID" => v.balanceDue = 0
    /\ v.status # "VOID" => v.balanceDue = v.totalAmount - v.amountPaid
    /\ v.status = "UNPAID" => v.amountPaid = 0
    /\ v.status = "PARTIALLY_PAID" => v.amountPaid > 0 /\ v.balanceDue > 0
    /\ v.status = "PAID" => v.amountPaid = v.totalAmount /\ v.amountPaid > 0

\* The shop never shows more as paid than payment rows account for, and an
\* invoice that still says UNPAID has no payment row at all.
PaidWasReceived ==
  \A i \in DOMAIN invoices :
    /\ invoices[i].amountPaid <= received[i]
    /\ invoices[i].status = "UNPAID" => received[i] = 0

\* Whatever payments and voidings overlap, the newest audit row of an invoice names
\* a voiding exactly when the invoice is void, and otherwise states the balance the
\* invoice has: what was computed for the trail is what was stored.
AuditStatesBalance ==
  \A i \in DOMAIN invoices :
    LET newest == audit[i][Len(audit[i])] IN
    /\ audit[i] # <<>>
    /\ newest.action = "VOID_INVOICE" <=> invoices[i].status = "VOID"
    /\ newest.action # "VOID_INVOICE" => newest.balance = invoices[i].balanceDue

-----------------------------------------------------------------------------
(* Properties that need the requests to come one at a time *)

Promise == INSTANCE Ledger WITH
  Totals <- {Total(s, d) : s \in Subtotals, d \in Discounts},
  bills <- [i \in DOMAIN invoices |->
              [ticket |-> invoices[i].ticket, total |-> invoices[i].totalAmount,
               paid |-> received[i], void |-> invoices[i].status = "VOID"]]

\* The service implements the ledger: one active invoice per ticket, no payment
\* beyond the bill, no voiding of money taken.
KeepsLedger == Promise!Spec

-----------------------------------------------------------------------------
(* What a document says, and overlapping requests do not keep *)

\* Recording a payment immediately updates the balance due: by its amount.
PaymentLowersBalance ==
  [][\A i \in DOMAIN invoices :
       received'[i] > received[i] =>
         invoices'[i].balanceDue = invoices[i].balanceDue - (received'[i] - received[i])]_vars
=============================================================================
