---------------------------- MODULE RepairTickets ----------------------------
(***************************************************************************)
(* RepairTicketsService: intake, assignment, the status machine, diagnosis,*)
(* delivery and reopening, with the branch switch that intake consults.    *)
(*                                                                         *)
(* Every handler reads the rows it validates OUTSIDE its transaction and   *)
(* then runs an interactive transaction that writes values computed from   *)
(* that reading.  A Worker is one in-flight HTTP request: a Begin action   *)
(* is the reading and all the checks, a Commit action the transaction      *)
(* (READ COMMITTED, so its blind writes take effect at one point), and     *)
(* Abort the transaction that rolls back or the process that dies.  A      *)
(* request that fails a check changes nothing and is not a step.           *)
(***************************************************************************)
EXTENDS Lifecycle, Naturals, Sequences

CONSTANTS
  TicketId,      \* the ids RepairTicket rows can take
  Branch,        \* the branches
  Staff,         \* the users of the shop
  Worker,        \* the requests that can be in flight together
  Nobody,        \* null, for a nullable user column
  RoleOf,        \* each user's role
  BranchesOf,    \* each user's branches (UserBranch rows)
  MaxChanges,    \* bound: no change of status is begun beyond so many history rows
  MaxAssigns,    \* bound: no assignment is begun beyond so many rows of the ticket
  MaxFindings    \* bound: no diagnosis is begun beyond so many submissions

ASSUME StaffAssumption ==
  /\ RoleOf \in [Staff -> UserRole]
  /\ BranchesOf \in [Staff -> SUBSET Branch]
  /\ Nobody \notin Staff

ASSUME BoundAssumption ==
  MaxChanges \in Nat /\ MaxAssigns \in Nat /\ MaxFindings \in Nat

VARIABLES
  branchActive,  \* Branch.isActive
  counter,       \* SequenceCounter "ticket"
  tickets,       \* RepairTicket rows, by id
  history,       \* TicketStatusHistory rows of each ticket, oldest first
  assignments,   \* TechnicianAssignmentHistory rows of each ticket
  diagnoses,     \* Diagnosis rows of each ticket
  logged,        \* how many audit and notification rows each ticket has
  req            \* what each worker is doing

vars == <<branchActive, counter, tickets, history, assignments, diagnoses, logged, req>>

-----------------------------------------------------------------------------
(* Rows *)

Ticket ==
  [status: TicketStatus, branch: Branch, number: Nat, stamps: SUBSET Stamp,
   assignedTechnician: Staff \cup {Nobody}, deliveredBy: Staff \cup {Nobody}]

StatusChange == [previousStatus: TicketStatus, newStatus: TicketStatus, changedBy: Staff]

Assignment == [technician: Staff, open: BOOLEAN]

Diagnosis == [technician: Staff]

\* The actions of AuditLog and the titles of Notification rows about a ticket
\* (JOB_ASSIGNED is "New Job Assigned", REPAIR_COMPLETE "Repair Complete").
SideRow == {"CREATE_REPAIR_TICKET", "REOPEN_TICKET", "UPDATE_TICKET_STATUS",
            "ASSIGN_TECHNICIAN", "ADD_DIAGNOSIS", "JOB_ASSIGNED", "REPAIR_COMPLETE"}

(* Requests, with what each has read *)

Idle == [op |-> "idle"]

Request ==
       [op: {"idle"}]
  \cup [op: {"toggle"}, branch: Branch, isActive: BOOLEAN]
  \cup [op: {"create"}, actor: Staff, branch: Branch]
  \cup [op: {"reopen"}, actor: Staff, branch: Branch]
  \cup [op: {"status", "deliver"}, actor: Staff, ticket: TicketId,
        seen: TicketStatus, target: TicketStatus]
  \cup [op: {"assign"}, ticket: TicketId, technician: Staff]
  \cup [op: {"assignWrite"}, ticket: TicketId, technician: Staff, closing: SUBSET Nat]
  \cup [op: {"diagnose"}, actor: Staff, ticket: TicketId, seen: TicketStatus,
        target: TicketStatus]
  \cup [op: {"diagnoseWrite"}, actor: Staff, ticket: TicketId, seen: TicketStatus,
        target: TicketStatus, existing: Nat]

TypeOK ==
  /\ branchActive \in [Branch -> BOOLEAN]
  /\ counter \in Nat
  /\ DOMAIN tickets \subseteq TicketId
  /\ tickets \in [DOMAIN tickets -> Ticket]
  /\ history \in [TicketId -> Seq(StatusChange)]
  /\ assignments \in [TicketId -> Seq(Assignment)]
  /\ diagnoses \in [TicketId -> Seq(Diagnosis)]
  /\ logged \in [TicketId -> [SideRow -> Nat]]
  /\ req \in [Worker -> Request]

Init ==
  /\ branchActive = [b \in Branch |-> TRUE]
  /\ counter = 0
  /\ tickets = [t \in {} |-> Nobody]
  /\ history = [t \in TicketId |-> <<>>]
  /\ assignments = [t \in TicketId |-> <<>>]
  /\ diagnoses = [t \in TicketId |-> <<>>]
  /\ logged = [t \in TicketId |-> [k \in SideRow |-> 0]]
  /\ req = [w \in Worker |-> Idle]

-----------------------------------------------------------------------------
(* What the handlers share *)

InBranch(u, b) == RoleOf[u] \in Unscoped \/ b \in BranchesOf[u]

\* findOne: the branch scope of the query, then the technician's own check.
CanOpen(u, t) ==
  /\ t \in DOMAIN tickets
  /\ InBranch(u, tickets[t].branch)
  /\ RoleOf[u] = "TECHNICIAN" => tickets[t].assignedTechnician = u

\* "Cannot modify a delivered or cancelled repair ticket."
Modifiable(t) == tickets[t].status \notin Terminal

\* Mutant: no role restriction on the intake, delivery and assignment endpoints.
Desk_Anyone(u) == RoleOf[u] \in UserRole

\* @Roles("SYSTEM_ADMIN", "OWNER", "BRANCH_MANAGER", "FRONT_DESK")
Desk(u) == RoleOf[u] # "TECHNICIAN"

Receive(w, r) ==
  /\ req[w] = Idle
  /\ req' = [req EXCEPT ![w] = r]
  /\ UNCHANGED <<branchActive, counter, tickets, history, assignments, diagnoses, logged>>

Answer(w) == req' = [req EXCEPT ![w] = Idle]

\* Mutant: the audit of a change goes to another connection and is skipped once
\* the ticket has a row of the kind.
Trail_Once(t, kinds) ==
  logged' = [logged EXCEPT ![t] = [k \in SideRow |-> IF k \in kinds THEN 1 ELSE @[k]]]

\* The audit and notification rows a transaction adds.
Trail(t, kinds) ==
  logged' = [logged EXCEPT ![t] = [k \in SideRow |-> IF k \in kinds THEN @[k] + 1 ELSE @[k]]]

\* The columns of a ticket that a change of status writes.
Moved(row, to, by) ==
  [row EXCEPT !.status = to,
              !.stamps = @ \cup StampOf(to),
              !.deliveredBy = IF to = "DELIVERED" THEN by ELSE @]

\* The status columns and the history row of a change that a handler writes.
WriteStatus(t, from, to, by) ==
  /\ tickets' = [tickets EXCEPT ![t] = Moved(@, to, by)]
  /\ history' = [history EXCEPT ![t] = Append(@, Change(from, to, by))]

\* generateTicketNumber and the rows of a new ticket, in one transaction: the
\* upsert of the counter row holds its lock until the transaction ends.
OpenTicket(t, b, by, action) ==
  /\ t \in TicketId \ DOMAIN tickets
  /\ counter' = counter + 1
  /\ tickets' = [x \in DOMAIN tickets \cup {t} |->
                   IF x = t
                   THEN [status |-> "RECEIVED", branch |-> b, number |-> counter + 1,
                         stamps |-> {}, assignedTechnician |-> Nobody, deliveredBy |-> Nobody]
                   ELSE tickets[x]]
  /\ history' = [history EXCEPT ![t] = Append(@, Opening(by))]
  /\ Trail(t, {action})
  /\ UNCHANGED <<branchActive, assignments, diagnoses>>

-----------------------------------------------------------------------------
(* Intake and reopening *)

\* create: the branch of an unscoped actor or one of the actor's own, and active.
BeginCreate(w, u, b) ==
  /\ Desk(u)
  /\ InBranch(u, b)
  /\ branchActive[b]
  /\ Receive(w, [op |-> "create", actor |-> u, branch |-> b])

CommitCreate(w) ==
  /\ req[w].op = "create"
  /\ \E t \in TicketId :
       OpenTicket(t, req[w].branch, req[w].actor, "CREATE_REPAIR_TICKET")
  /\ Answer(w)

\* reopenTicket: a delivered ticket yields a new one in its branch.
BeginReopen(w, u, t) ==
  /\ Desk(u)
  /\ CanOpen(u, t)
  /\ tickets[t].status = "DELIVERED"
  /\ Receive(w, [op |-> "reopen", actor |-> u, branch |-> tickets[t].branch])

CommitReopen(w) ==
  /\ req[w].op = "reopen"
  /\ \E t \in TicketId :
       OpenTicket(t, req[w].branch, req[w].actor, "REOPEN_TICKET")
  /\ Answer(w)

\* BranchesService.toggleStatus, for the owner and the administrator.
BeginToggle(w, u, b, isActive) ==
  /\ RoleOf[u] \in Unscoped
  /\ Receive(w, [op |-> "toggle", branch |-> b, isActive |-> isActive])

CommitToggle(w) ==
  /\ req[w].op = "toggle"
  /\ branchActive' = [branchActive EXCEPT ![req[w].branch] = req[w].isActive]
  /\ Answer(w)
  /\ UNCHANGED <<counter, tickets, history, assignments, diagnoses, logged>>

-----------------------------------------------------------------------------
(* The status machine and delivery *)

\* updateStatus: the transition and the role are checked against the row read.
BeginUpdateStatus(w, u, t, target) ==
  /\ CanOpen(u, t)
  /\ Modifiable(t)
  /\ target \in VALID_TRANSITIONS[tickets[t].status]
  /\ target # "DELIVERED"
  /\ RoleOf[u] \in STATUS_TRANSITION_ROLES[target]
  /\ Len(history[t]) < MaxChanges
  /\ Receive(w, [op |-> "status", actor |-> u, ticket |-> t,
                 seen |-> tickets[t].status, target |-> target])

\* deliverTicket
BeginDeliver(w, u, t) ==
  /\ Desk(u)
  /\ CanOpen(u, t)
  /\ tickets[t].status = "READY_FOR_COLLECTION"
  /\ Len(history[t]) < MaxChanges
  /\ Receive(w, [op |-> "deliver", actor |-> u, ticket |-> t,
                 seen |-> tickets[t].status, target |-> "DELIVERED"])

\* Both transactions: the row is written whatever its status is by now.
CommitStatus(w) ==
  LET r == req[w] IN
  /\ r.op \in {"status", "deliver"}
  /\ WriteStatus(r.ticket, r.seen, r.target, r.actor)
  /\ Trail(r.ticket, {"UPDATE_TICKET_STATUS"} \cup
                   (IF r.target = "READY_FOR_COLLECTION" THEN {"REPAIR_COMPLETE"} ELSE {}))
  /\ Answer(w)
  /\ UNCHANGED <<branchActive, counter, assignments, diagnoses>>

-----------------------------------------------------------------------------
(* Assignment: assign and reassign are the same handler *)

BeginAssign(w, u, t, tech) ==
  /\ Desk(u)
  /\ CanOpen(u, t)
  /\ Modifiable(t)
  /\ RoleOf[tech] = "TECHNICIAN"
  /\ tickets[t].branch \in BranchesOf[tech]
  /\ Len(assignments[t]) < MaxAssigns
  /\ Receive(w, [op |-> "assign", ticket |-> t, technician |-> tech])

\* The transaction's updateMany: the rows that get removedAt are the open ones
\* committed when the statement starts.
FindOpenAssignments(w) ==
  LET r == req[w] IN
  /\ r.op = "assign"
  /\ req' = [req EXCEPT ![w] =
               [op |-> "assignWrite", ticket |-> r.ticket, technician |-> r.technician,
                closing |-> {i \in DOMAIN assignments[r.ticket] : assignments[r.ticket][i].open}]]
  /\ UNCHANGED <<branchActive, counter, tickets, history, assignments, diagnoses, logged>>

\* The rows of a ticket after a reassignment: those found open get removedAt.
\* Mutant: the row is created before the update and is closed with the others.
Reassigned_CloseLast(rows, closing, tech) ==
  Append([i \in 1..Len(rows) |-> [rows[i] EXCEPT !.open = FALSE]],
         [technician |-> tech, open |-> FALSE])

Reassigned(rows, closing, tech) ==
  Append([i \in 1..Len(rows) |-> [rows[i] EXCEPT !.open = @ /\ i \notin closing]],
         [technician |-> tech, open |-> TRUE])

\* Its other statements, and the end of the transaction.
CommitAssign(w) ==
  LET r == req[w] IN
  /\ r.op = "assignWrite"
  /\ assignments' = [assignments EXCEPT ![r.ticket] = Reassigned(@, r.closing, r.technician)]
  /\ tickets' = [tickets EXCEPT ![r.ticket].assignedTechnician = r.technician]
  /\ Trail(r.ticket, {"ASSIGN_TECHNICIAN", "JOB_ASSIGNED"})
  /\ Answer(w)
  /\ UNCHANGED <<branchActive, counter, history, diagnoses>>

-----------------------------------------------------------------------------
(* Diagnosis *)

\* repairFeasibility, and the status it moves a ticket to that was read as
\* DIAGNOSING (the two inconclusive answers leave it there).
Feasibility == {"REPAIRABLE", "PARTIALLY_REPAIRABLE", "UNREPAIRABLE", "FURTHER_TESTING_REQUIRED"}

\* Mutant: an unrepairable device is rejected.
Outcome_Rejects(f) ==
  CASE f = "UNREPAIRABLE" -> "REJECTED"
    [] f = "REPAIRABLE"   -> "WAITING_FOR_APPROVAL"
    [] OTHER              -> "DIAGNOSING"

Outcome(f) ==
  CASE f = "UNREPAIRABLE" -> "UNREPAIRABLE"
    [] f = "REPAIRABLE"   -> "WAITING_FOR_APPROVAL"
    [] OTHER              -> "DIAGNOSING"

\* Mutant: a finding moves the ticket whatever its status was.
Moves_Always(r) == r.target # "DIAGNOSING"

Moves(r) == r.seen = "DIAGNOSING" /\ r.target # "DIAGNOSING"

BeginDiagnose(w, u, t, f) ==
  /\ RoleOf[u] \in {"SYSTEM_ADMIN", "TECHNICIAN"}
  /\ CanOpen(u, t)
  /\ Modifiable(t)
  /\ logged[t]["ADD_DIAGNOSIS"] < MaxFindings
  /\ Receive(w, [op |-> "diagnose", actor |-> u, ticket |-> t,
                 seen |-> tickets[t].status, target |-> Outcome(f)])

\* The transaction's findFirst: any committed row of the ticket (0 for none).
FindDiagnosis(w) ==
  LET r == req[w] IN
  /\ r.op = "diagnose"
  /\ \E i \in IF diagnoses[r.ticket] = <<>> THEN {0} ELSE 1..Len(diagnoses[r.ticket]) :
       req' = [req EXCEPT ![w] =
                 [op |-> "diagnoseWrite", actor |-> r.actor, ticket |-> r.ticket,
                  seen |-> r.seen, target |-> r.target, existing |-> i]]
  /\ UNCHANGED <<branchActive, counter, tickets, history, assignments, diagnoses, logged>>

CommitDiagnosis(w) ==
  LET r == req[w]
      row == [technician |-> r.actor]
  IN
  /\ r.op = "diagnoseWrite"
  /\ diagnoses' = [diagnoses EXCEPT ![r.ticket] =
                     IF r.existing = 0 THEN Append(@, row) ELSE [@ EXCEPT ![r.existing] = row]]
  /\ \/ /\ Moves(r)
        /\ WriteStatus(r.ticket, "DIAGNOSING", r.target, r.actor)
        /\ Trail(r.ticket, {"ADD_DIAGNOSIS", "UPDATE_TICKET_STATUS"})
     \/ /\ ~Moves(r)
        /\ Trail(r.ticket, {"ADD_DIAGNOSIS"})
        /\ UNCHANGED <<tickets, history>>
  /\ Answer(w)
  /\ UNCHANGED <<branchActive, counter, assignments>>

-----------------------------------------------------------------------------
\* Mutant: the number is drawn outside the transaction, as from a SEQUENCE.
Abort_KeepsNumber(w) ==
  /\ req[w] # Idle
  /\ Answer(w)
  /\ counter' = IF req[w].op \in {"create", "reopen"} THEN counter + 1 ELSE counter
  /\ UNCHANGED <<branchActive, tickets, history, assignments, diagnoses, logged>>

\* The transaction is rolled back (a lost connection, a timeout, a deadlock
\* victim, a failed statement) or the process stops before it: nothing is written.
Abort(w) ==
  /\ req[w] # Idle
  /\ Answer(w)
  /\ UNCHANGED <<branchActive, counter, tickets, history, assignments, diagnoses, logged>>

Begin(w) ==
  \E u \in Staff :
    \/ \E b \in Branch : BeginCreate(w, u, b)
    \/ \E b \in Branch, isActive \in BOOLEAN : BeginToggle(w, u, b, isActive)
    \/ \E t \in TicketId :
         \/ BeginReopen(w, u, t)
         \/ \E target \in TicketStatus : BeginUpdateStatus(w, u, t, target)
         \/ BeginDeliver(w, u, t)
         \/ \E tech \in Staff : BeginAssign(w, u, t, tech)
         \/ \E f \in Feasibility : BeginDiagnose(w, u, t, f)

Finish(w) ==
  \/ CommitCreate(w)
  \/ CommitReopen(w)
  \/ CommitToggle(w)
  \/ CommitStatus(w)
  \/ FindOpenAssignments(w)
  \/ CommitAssign(w)
  \/ FindDiagnosis(w)
  \/ CommitDiagnosis(w)
  \/ Abort(w)

Next == \E w \in Worker : Begin(w) \/ Finish(w)

Spec == Init /\ [][Next]_vars

-----------------------------------------------------------------------------
(* Invariants that hold whatever the requests in flight *)

Last(s) == s[Len(s)]

\* The timeline never disagrees with the ticket: its newest entry names the
\* current status, and a ticket handed over was handed over by the user the row
\* names.  It is what getTimeline shows beside findOne, across every handler that
\* writes one of the two tables from a reading that may be stale.
TimelineEndsAtStatus ==
  \A t \in DOMAIN tickets :
    /\ history[t] # <<>>
    /\ Last(history[t]).newStatus = tickets[t].status
    /\ tickets[t].status = "DELIVERED" => Last(history[t]).changedBy = tickets[t].deliveredBy

\* Every entry after the opening one claims a transition of VALID_TRANSITIONS by
\* a role STATUS_TRANSITION_ROLES permits, the automatic ones of addDiagnosis
\* and the one of deliverTicket (which check neither table) included.
TimelineIsAuthorized ==
  \A t \in TicketId : \A i \in 2..Len(history[t]) :
    LET h == history[t][i] IN
    /\ LegalChange(h)
    /\ RoleOf[h.changedBy] \in STATUS_TRANSITION_ROLES[h.newStatus]

\* Ticket numbers are issued without gap or repetition: the rows carry exactly
\* 1..counter, whichever intakes and reopenings raced or were rolled back.
NumbersAreSequential ==
  /\ {tickets[t].number : t \in DOMAIN tickets} = 1..counter
  /\ \A t1, t2 \in DOMAIN tickets : tickets[t1].number = tickets[t2].number => t1 = t2

\* Nobody reaches a stage of the repair without the stages before it having
\* been stamped on the row, even when requests overwrite each other's status.
StagesAreStamped ==
  \A t \in DOMAIN tickets :
    LET s == tickets[t].status
        stamps == tickets[t].stamps
    IN
    /\ s \notin {"RECEIVED", "CANCELLED"} => "diagnosisStartedAt" \in stamps
    /\ s \in {"REPAIR_IN_PROGRESS", "PARTS_REQUIRED"} => "repairStartedAt" \in stamps
    /\ s \in {"READY_FOR_COLLECTION", "DELIVERED"} => "readyAt" \in stamps
    /\ s = "DELIVERED" => "deliveredAt" \in stamps /\ tickets[t].deliveredBy # Nobody

\* The technician a ticket names has an assignment row that is still open.
AssigneeHasOpenRow ==
  \A t \in DOMAIN tickets :
    tickets[t].assignedTechnician # Nobody =>
      \E i \in DOMAIN assignments[t] :
        assignments[t][i] = [technician |-> tickets[t].assignedTechnician, open |-> TRUE]

\* No transaction leaves its trail behind: audit rows and notifications account
\* one for one for the rows of the tables the handlers write.
TrailIsComplete ==
  \A t \in TicketId :
    /\ logged[t]["CREATE_REPAIR_TICKET"] + logged[t]["REOPEN_TICKET"]
         + logged[t]["UPDATE_TICKET_STATUS"] = Len(history[t])
    /\ logged[t]["ASSIGN_TECHNICIAN"] = Len(assignments[t])
    /\ logged[t]["JOB_ASSIGNED"] = Len(assignments[t])
    /\ logged[t]["ADD_DIAGNOSIS"] >= Len(diagnoses[t])

\* The history implements the append-only log of module Timeline: no transaction
\* rewrites, drops or reorders an entry, or opens a timeline twice.
Log == INSTANCE Timeline WITH timeline <- history

KeepsTimeline == Log!Spec

-----------------------------------------------------------------------------
(* Properties that need the requests to come one at a time *)

\* The status moves along VALID_TRANSITIONS only and each entry of a timeline
\* starts where the one before it ended: the workflow document's state machine.
Machine == INSTANCE TicketMachine WITH
  status <- [t \in TicketId |-> IF t \in DOMAIN tickets THEN tickets[t].status ELSE "ABSENT"],
  timeline <- history

FollowsMachine == Machine!Spec
=============================================================================
