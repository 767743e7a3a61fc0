--------------------------------- MODULE Billing ---------------------------------
(***************************************************************************)
(* The three services together: InvoicesService bills what EstimatesService*)
(* had approved, on the tickets of RepairTicketsService.  A Worker is busy *)
(* with one request, of any of the three.                                  *)
(***************************************************************************)
EXTENDS Estimates

CONSTANTS Discounts, Amounts, MaxInvoices, MaxAudit   \* see Invoices

\* The scope of findOne in Invoices is per ticket: here every user works in every
\* branch, so that it is all the tickets, wherever they are opened.
ASSUME OneTeam == \A u \in Staff : BranchesOf[u] = Branch

ASSUME OfficeAssumption ==
  /\ Discounts \subseteq Nat
  /\ Amounts \subseteq Nat \ {0}   \* recordPaymentSchema: int, at least 1
  /\ MaxInvoices \in Nat /\ MaxAudit \in Nat

VARIABLES
  invoices,   \* Invoice rows, as in Invoices
  received,   \* the payments of each invoice
  audit,      \* the audit rows of each invoice
  bill        \* what each worker is doing for InvoicesService

billVars == <<invoices, received, audit, bill>>

shopVars == <<branchActive, counter, tickets, history, assignments, diagnoses, logged, req,
              estimates, decisions, call, invoices, received, audit, bill>>

-----------------------------------------------------------------------------
\* What createFromTicket finds: the ticket's APPROVED estimates.
ApprovedOf(t) == {e \in DOMAIN estimates : estimates[e].ticket = t /\ estimates[e].status = "APPROVED"}

Office == INSTANCE Invoices WITH
  approved <- [t \in TicketId |-> {estimates[e].subtotal : e \in ApprovedOf(t)}],
  req      <- bill,
  Scope    <- [u \in Staff |-> TicketId]

BillingInit == EstimatesInit /\ Office!Init

\* A step of InvoicesService, by a worker that has no other request.
BillStep(w) ==
  /\ req[w] = Idle
  /\ call[w] = NoCall
  /\ UNCHANGED allVars
  /\ Office!Begin(w) \/ Office!Finish(w)

\* A step of the other two, by a worker that has none of InvoicesService.
RepairStep(w) ==
  /\ bill[w] = Office!Idle
  /\ TicketStep(w) \/ BeginCall(w) \/ FinishCall(w)
  /\ UNCHANGED billVars

Lapse(e) == ExpireLink(e) /\ UNCHANGED billVars

BillingNext ==
  \/ \E w \in Worker : RepairStep(w) \/ BillStep(w)
  \/ \E e \in DOMAIN estimates : Lapse(e)

BillingSpec == BillingInit /\ [][BillingNext]_shopVars

-----------------------------------------------------------------------------
(* Properties that need the requests to come one at a time *)

\* InvoicesService implements the ledger: one active invoice per ticket, no payment
\* beyond the bill, no voiding of money taken.
KeepsLedger == Office!KeepsLedger

\* Nobody is billed for work not agreed to: the total of every invoice is that of
\* an estimate of its ticket which is still APPROVED (less a discount), and the
\* ticket's timeline has the approval, in the name of the estimate's author.
BilledWasApproved ==
  \A i \in DOMAIN invoices :
    LET t == invoices[i].ticket IN
    \E e \in ApprovedOf(t), discount \in Discounts :
      /\ invoices[i].totalAmount = Office!Total(estimates[e].subtotal, discount)
      /\ \E k \in DOMAIN history[t] :
           history[t][k] = Change("WAITING_FOR_APPROVAL", "APPROVED", estimates[e].createdBy)
=============================================================================
