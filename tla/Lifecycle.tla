------------------------------ MODULE Lifecycle ------------------------------
(***************************************************************************)
(* The two tables at the head of repair-tickets.service.ts: which status   *)
(* may follow which, and which role may request which status.  Every       *)
(* component that writes RepairTicket.status is judged against them.       *)
(***************************************************************************)

\* enum UserRole
UserRole == {"SYSTEM_ADMIN", "OWNER", "BRANCH_MANAGER", "FRONT_DESK", "TECHNICIAN"}

\* The roles that every branch check and RolesGuard let through.
Unscoped == {"SYSTEM_ADMIN", "OWNER"}

\* enum TicketStatus
TicketStatus ==
  {"RECEIVED", "DIAGNOSING", "WAITING_FOR_APPROVAL", "APPROVED", "REJECTED",
   "REPAIR_IN_PROGRESS", "PARTS_REQUIRED", "READY_FOR_COLLECTION",
   "DELIVERED", "UNREPAIRABLE", "CANCELLED"}

\* const VALID_TRANSITIONS: the successors of each status.
VALID_TRANSITIONS ==
  [s \in TicketStatus |->
     CASE s = "RECEIVED"             -> {"DIAGNOSING", "CANCELLED"}
       [] s = "DIAGNOSING"           -> {"WAITING_FOR_APPROVAL", "UNREPAIRABLE", "CANCELLED"}
       [] s = "WAITING_FOR_APPROVAL" -> {"APPROVED", "REJECTED", "CANCELLED"}
       [] s = "APPROVED"             -> {"REPAIR_IN_PROGRESS"}
       [] s = "REPAIR_IN_PROGRESS"   -> {"READY_FOR_COLLECTION", "PARTS_REQUIRED"}
       [] s = "PARTS_REQUIRED"       -> {"REPAIR_IN_PROGRESS"}
       [] s = "READY_FOR_COLLECTION" -> {"DELIVERED"}
       [] s = "REJECTED"             -> {"READY_FOR_COLLECTION"}
       [] s = "UNREPAIRABLE"         -> {"READY_FOR_COLLECTION"}
       [] OTHER                      -> {}]

\* The statuses the service treats as closed: "Cannot modify a delivered or
\* cancelled repair ticket."
Terminal == {"DELIVERED", "CANCELLED"}

\* const STATUS_TRANSITION_ROLES: who may request each target.
STATUS_TRANSITION_ROLES ==
  [s \in TicketStatus |->
     CASE s \in {"APPROVED", "REJECTED", "CANCELLED", "DELIVERED"} ->
            UserRole \ {"TECHNICIAN"}
       [] s = "RECEIVED" -> UserRole   \* not in the table: nobody is refused
       [] OTHER -> UserRole \ {"FRONT_DESK"}]

\* Mutant: the start of the repair is not stamped.
StampOf_NoRepair(s) ==
  CASE s = "DIAGNOSING"           -> {"diagnosisStartedAt"}
    [] s = "READY_FOR_COLLECTION" -> {"readyAt"}
    [] s = "DELIVERED"            -> {"deliveredAt"}
    [] OTHER                      -> {}

\* Mutant: completion is stamped in a column the row does not have.
StampOf_Misnamed(s) ==
  CASE s = "DIAGNOSING"           -> {"diagnosisStartedAt"}
    [] s = "REPAIR_IN_PROGRESS"   -> {"repairStartedAt"}
    [] s = "READY_FOR_COLLECTION" -> {"readyAt", "finishedAt"}
    [] s = "DELIVERED"            -> {"deliveredAt"}
    [] OTHER                      -> {}

\* How the targets that a change of status also timestamps are recorded.
StampOf(s) ==
  CASE s = "DIAGNOSING"           -> {"diagnosisStartedAt"}
    [] s = "REPAIR_IN_PROGRESS"   -> {"repairStartedAt"}
    [] s = "READY_FOR_COLLECTION" -> {"readyAt"}
    [] s = "DELIVERED"            -> {"deliveredAt"}
    [] OTHER                      -> {}

Stamp == {"diagnosisStartedAt", "repairStartedAt", "readyAt", "deliveredAt"}

\* Mutant: the two status columns of the row are swapped.
Change_Swapped(from, to, by) ==
  [previousStatus |-> to, newStatus |-> from, changedBy |-> by]

\* A row of TicketStatusHistory: the transition it claims and who made it.
Change(from, to, by) == [previousStatus |-> from, newStatus |-> to, changedBy |-> by]

\* The row that intake and reopening write for a new ticket.
Opening(by) == Change("RECEIVED", "RECEIVED", by)

\* The transition a history row claims is one the state machine has.
LegalChange(h) == h.newStatus \in VALID_TRANSITIONS[h.previousStatus]
=============================================================================
