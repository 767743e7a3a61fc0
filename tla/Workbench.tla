-------------------------------- MODULE Workbench --------------------------------
(***************************************************************************)
(* The tickets page at work: the list it read, the drawer with its own     *)
(* copy of a row, the dialogs over it, and what their answers do to the    *)
(* copy, while the rest of the shop works on the same tickets.             *)
(*                                                                         *)
(* The server answers one request at a time here; RepairTickets has its    *)
(* races.  A row is its status and its technician.                         *)
(***************************************************************************)
EXTENDS Lifecycle, Naturals

CONSTANTS
  Ticket,     \* the tickets of the branch
  Tech,       \* its technicians
  Me,         \* the technician at this page, when a technician is
  Nobody,     \* null
  Role,       \* the roles that use the page
  Start,      \* the rows of the tickets when the page is opened
  Finding,    \* the statuses a diagnosis proposes
  MaxCalls,   \* bound: so many changes asked for here
  MaxOthers   \* bound: so many changes by others

ASSUME WorkbenchAssumption ==
  /\ Me \in Tech /\ Nobody \notin Tech
  /\ Role \subseteq UserRole /\ Start \in [Ticket -> [status: TicketStatus, technician: Tech \cup {Nobody}]]
  /\ Finding \subseteq {"WAITING_FOR_APPROVAL", "UNREPAIRABLE", "DIAGNOSING"}
  /\ MaxCalls \in Nat /\ MaxOthers \in Nat

VARIABLES
  role,      \* of the user
  rows,      \* the tickets
  list,      \* ticketsData: what the page read of those it may see
  refetch,   \* the fetch of the list
  shown,     \* selectedTicket while the drawer is open: a ticket and a copy of its row
  dialog,    \* what is open: the drawer, or a dialog over it
  form,      \* statusForm.status while its dialog is open, and (history) the status shown
             \* at the button
  chosen,    \* selectedTechId
  call,      \* the three mutations of the drawer
  asked,     \* how many changes were asked for
  others,    \* how many changes others made
  doubts     \* history: why the drawer may differ from the row

vars == <<role, rows, list, refetch, shown, dialog, form, chosen, call, asked, others, doubts>>

Row == [status: TicketStatus, technician: Tech \cup {Nobody}]

Mutation == {"assign", "diagnosis", "status"}

Idle == [state |-> "idle"]

NoFetch == [state |-> "no"]

NotSelected == [ticket |-> Nobody]

NewForm == [status |-> "RECEIVED", seen |-> "RECEIVED"]

\* It was opened from an old list or with a request under way, another wrote the
\* row, an answer was overtaken or came to another choice; or an answer came that
\* belongs to another ticket.
Doubt == {"late", "stray"}

-----------------------------------------------------------------------------
(* What the page offers *)

\* Mutant: a ticket under diagnosis may be approved.
getAllowedTransitions_Skip(s) ==
  IF s = "DIAGNOSING" THEN {"APPROVED", "WAITING_FOR_APPROVAL"} ELSE VALID_TRANSITIONS[s]

getAllowedTransitions(s) ==
  CASE s = "RECEIVED"             -> {"DIAGNOSING", "CANCELLED"}
    [] s = "DIAGNOSING"           -> {"WAITING_FOR_APPROVAL", "PARTS_REQUIRED", "UNREPAIRABLE",
                                      "CANCELLED"}
    [] s = "PARTS_REQUIRED"       -> {"DIAGNOSING", "UNREPAIRABLE", "CANCELLED"}
    [] s = "WAITING_FOR_APPROVAL" -> {"APPROVED", "REJECTED", "CANCELLED"}
    [] s = "APPROVED"             -> {"REPAIR_IN_PROGRESS", "CANCELLED"}
    [] s = "REPAIR_IN_PROGRESS"   -> {"READY_FOR_COLLECTION", "PARTS_REQUIRED", "CANCELLED"}
    [] s = "READY_FOR_COLLECTION" -> {"DELIVERED"}
    [] s = "REJECTED"             -> {"CANCELLED"}
    [] s = "UNREPAIRABLE"         -> {"DELIVERED"}
    [] OTHER                      -> {}

\* The checks of a button, before its dialog: "You must be assigned to this
\* ticket to begin diagnosis.", "Please assign a technician ..."
MayPress(copy, target) ==
  target = "DIAGNOSING" =>
    /\ copy.technician # Nobody
    /\ role = "TECHNICIAN" => copy.technician = Me

OpensDiagnosis(copy, target) ==
  \/ target = "WAITING_FOR_APPROVAL"
  \/ target = "DIAGNOSING" /\ copy.status = "PARTS_REQUIRED"

-----------------------------------------------------------------------------
(* What the server makes of a request *)

\* Technicians are given their own tickets only.
Reads(r, t) == role = "TECHNICIAN" => r[t].technician = Me

Visible(r) == [t \in {x \in Ticket : Reads(r, x)} |-> r[t]]

\* Mutant: a diagnosis moves the ticket whatever its status is.
Served_AnyStatus(row, c) ==
  CASE c.op = "assign" -> [row EXCEPT !.technician = c.value]
    [] c.op = "diagnosis" -> [row EXCEPT !.status = c.value]
    [] c.op = "status"    -> [row EXCEPT !.status = c.value]

Served(row, c) ==
  CASE c.op = "assign" -> [row EXCEPT !.technician = c.value]
    [] c.op = "diagnosis" /\ row.status = "DIAGNOSING" -> [row EXCEPT !.status = c.value]
    [] c.op = "diagnosis" /\ row.status # "DIAGNOSING" -> row
    [] c.op = "status"    -> [row EXCEPT !.status = c.value]

Accepts(c) ==
  LET row == rows[c.ticket] IN
  /\ Reads(rows, c.ticket)
  /\ row.status \notin Terminal
  /\ CASE c.op = "assign"    -> role # "TECHNICIAN"
       [] c.op = "diagnosis" -> role \in {"SYSTEM_ADMIN", "TECHNICIAN"}
       [] c.op = "status"    -> /\ c.value \in VALID_TRANSITIONS[row.status] \ {"DELIVERED"}
                                /\ role \in STATUS_TRANSITION_ROLES[c.value]

-----------------------------------------------------------------------------
TypeOK ==
  /\ role \in Role
  /\ rows \in [Ticket -> Row]
  /\ DOMAIN list \subseteq Ticket /\ \A t \in DOMAIN list : list[t] \in Row
  /\ refetch.state \in {"no", "asked", "answered"}
  /\ dialog \in {"none", "drawer"} \cup Mutation
  /\ dialog # "none" => shown.ticket \in Ticket /\ shown.row \in Row
  /\ form \in [status: TicketStatus, seen: TicketStatus]
  /\ chosen \in Tech \cup {Nobody}
  /\ \A m \in Mutation : call[m].state \in {"idle", "asked", "done", "refused", "reading", "read"}
  /\ asked \in 0..MaxCalls /\ others \in 0..MaxOthers
  /\ doubts \subseteq Doubt

Init ==
  /\ role \in Role
  /\ rows = Start
  /\ list = Visible(rows)
  /\ refetch = NoFetch
  /\ shown = NotSelected
  /\ dialog = "none"
  /\ form = NewForm
  /\ chosen = Nobody
  /\ call = [m \in Mutation |-> Idle]
  /\ asked = 0 /\ others = 0
  /\ doubts = {}

-----------------------------------------------------------------------------
(* The user *)

Unless(fine, doubt) == IF fine THEN {} ELSE {doubt}

About(t, m) == call[m].state # "idle" /\ call[m].ticket = t

\* A card of the list.
OpenDrawer(t) ==
  /\ dialog = "none"
  /\ t \in DOMAIN list
  /\ shown' = [ticket |-> t, row |-> list[t]]
  /\ dialog' = "drawer"
  /\ doubts' = Unless(list[t] = rows[t] /\ \A m \in Mutation : ~About(t, m), "late")
  /\ UNCHANGED <<role, rows, list, refetch, form, chosen, call, asked, others>>

\* The state left behind is written again before it is read: by the next card.
CloseDrawer ==
  /\ dialog = "drawer"
  /\ dialog' = "none"
  /\ shown' = NotSelected
  /\ doubts' = {}
  /\ UNCHANGED <<role, rows, list, refetch, form, chosen, call, asked, others>>

\* The choice of a technician stays.
Cancel ==
  /\ dialog \in Mutation
  /\ dialog' = "drawer"
  /\ form' = NewForm
  /\ UNCHANGED <<role, rows, list, refetch, shown, chosen, call, asked, others, doubts>>

Press(target) ==
  /\ dialog = "drawer"
  /\ target \in getAllowedTransitions(shown.row.status)
  /\ MayPress(shown.row, target)
  /\ IF OpensDiagnosis(shown.row, target)
     THEN dialog' = "diagnosis" /\ form' = form
     ELSE dialog' = "status" /\ form' = [status |-> target, seen |-> shown.row.status]
  /\ UNCHANGED <<role, rows, list, refetch, shown, chosen, call, asked, others, doubts>>

PressAssign ==
  /\ dialog = "drawer"
  /\ role # "TECHNICIAN"
  /\ shown.row.technician = Nobody
  /\ dialog' = "assign"
  /\ UNCHANGED <<role, rows, list, refetch, shown, form, chosen, call, asked, others, doubts>>

Choose(tech) ==
  /\ dialog = "assign"
  /\ chosen # tech
  /\ chosen' = tech
  /\ UNCHANGED <<role, rows, list, refetch, shown, dialog, form, call, asked, others, doubts>>

\* mutate: for the ticket selected now.  "seen" and "doubts" are history.
Ask(m, value) ==
  /\ dialog = m
  /\ call[m] = Idle
  /\ asked < MaxCalls
  /\ asked' = asked + 1
  /\ call' = [call EXCEPT ![m] = [state |-> "asked", op |-> m, ticket |-> shown.ticket,
                                 value |-> value, seen |-> form.seen, doubts |-> doubts]]
  /\ UNCHANGED <<role, rows, list, refetch, shown, dialog, form, chosen, others, doubts>>

ConfirmAssign == chosen # Nobody /\ Ask("assign", chosen)

ConfirmDiagnosis == \E finding \in Finding : Ask("diagnosis", finding)

ConfirmStatus == Ask("status", form.status)

-----------------------------------------------------------------------------
(* The server, and everybody else *)

Serve(m) ==
  LET c == call[m] IN
  /\ c.state = "asked"
  /\ IF Accepts(c)
     THEN /\ rows' = [rows EXCEPT ![c.ticket] = Served(@, c)]
          /\ call' = [call EXCEPT ![m].state = "done"]
     ELSE /\ rows' = rows
          /\ call' = [call EXCEPT ![m].state = "refused"]
  /\ UNCHANGED <<role, list, refetch, shown, dialog, form, chosen, asked, others, doubts>>

\* A colleague, an administrator, a customer: whoever the server lets.
Other(t, row) ==
  /\ others < MaxOthers
  /\ rows[t].status \notin Terminal
  /\ \/ row.status \in VALID_TRANSITIONS[rows[t].status] /\ row.technician = rows[t].technician
     \/ row.status = rows[t].status /\ row.technician \in Tech \ {rows[t].technician}
  /\ rows' = [rows EXCEPT ![t] = row]
  /\ others' = others + 1
  /\ doubts' = doubts \cup Unless(shown.ticket # t, "late")
  /\ UNCHANGED <<role, list, refetch, shown, dialog, form, chosen, call, asked>>

ServeList ==
  /\ refetch.state = "asked"
  /\ refetch' = [state |-> "answered", list |-> Visible(rows)]
  /\ UNCHANGED <<role, rows, list, shown, dialog, form, chosen, call, asked, others, doubts>>

-----------------------------------------------------------------------------
(* The answers *)

ShowList ==
  /\ refetch.state = "answered"
  /\ list' = refetch.list
  /\ refetch' = NoFetch
  /\ UNCHANGED <<role, rows, shown, dialog, form, chosen, call, asked, others, doubts>>

\* Mutant: a fetch under way is left to end.
Invalidate_Kept == IF refetch = NoFetch THEN [state |-> "asked"] ELSE refetch

\* A fetch under way is given up for a new one.
Invalidate == [state |-> "asked"]

\* Mutant: every answer goes back to the drawer, even once it is closed.
Closing_Always(m) == "drawer"

Closing(m) == IF dialog = m THEN "drawer" ELSE dialog

\* What an answer does to the copy, whichever ticket it is of by now, and whoever
\* is picked by now.
Patched(row, m, c) ==
  IF m = "assign" THEN [row EXCEPT !.technician = chosen] ELSE [row EXCEPT !.status = c.value]

\* onSuccess of assignTechMutation and of updateStatusMutation.
Saved(m) ==
  LET c == call[m] IN
  /\ m # "diagnosis"
  /\ c.state = "done"
  /\ refetch' = Invalidate
  /\ dialog' = Closing(m)
  /\ form' = IF Closing(m) = "status" THEN form ELSE NewForm
  /\ IF dialog = "none"
     THEN UNCHANGED <<shown, doubts>>
     ELSE /\ shown' = [shown EXCEPT !.row = Patched(@, m, c)]
          /\ doubts' = doubts \cup Unless(c.ticket = shown.ticket, "stray")
                              \cup Unless(m = "assign" => chosen = c.value, "late")
  /\ call' = [call EXCEPT ![m] = Idle]
  /\ UNCHANGED <<role, rows, list, chosen, asked, others>>

\* onSuccess of submitDiagnosisMutation, up to its await.
DiagnosisSaved ==
  /\ call["diagnosis"].state = "done"
  /\ refetch' = Invalidate
  /\ dialog' = Closing("diagnosis")
  /\ call' = [call EXCEPT !["diagnosis"].state = "reading"]
  /\ UNCHANGED <<role, rows, list, shown, form, chosen, asked, others, doubts>>

ServeTicket ==
  LET c == call["diagnosis"] IN
  /\ c.state = "reading"
  /\ call' = [call EXCEPT !["diagnosis"] =
       IF Reads(rows, c.ticket)
       THEN [state |-> "read", ticket |-> c.ticket, row |-> rows[c.ticket]]
       ELSE Idle]
  /\ UNCHANGED <<role, rows, list, refetch, shown, dialog, form, chosen, asked, others, doubts>>

\* The drawer turns to the ticket that was diagnosed, as it was read.
DiagnosisRead ==
  LET c == call["diagnosis"] IN
  /\ c.state = "read"
  /\ IF dialog = "none"
     THEN UNCHANGED <<shown, doubts>>
     ELSE /\ shown' = [ticket |-> c.ticket, row |-> c.row]
          /\ doubts' = doubts \cup Unless(c.ticket = shown.ticket, "stray")
                              \cup Unless(c.row = rows[c.ticket], "late")
  /\ call' = [call EXCEPT !["diagnosis"] = Idle]
  /\ UNCHANGED <<role, rows, list, refetch, dialog, form, chosen, asked, others>>

\* onError: a message.
Refused(m) ==
  /\ call[m].state = "refused"
  /\ call' = [call EXCEPT ![m] = Idle]
  /\ UNCHANGED <<role, rows, list, refetch, shown, dialog, form, chosen, asked, others, doubts>>

-----------------------------------------------------------------------------
Next ==
  \/ \E t \in Ticket : OpenDrawer(t)
  \/ CloseDrawer
  \/ Cancel
  \/ \E target \in TicketStatus : Press(target)
  \/ PressAssign
  \/ \E tech \in Tech : Choose(tech)
  \/ ConfirmAssign
  \/ ConfirmDiagnosis
  \/ ConfirmStatus
  \/ \E m \in Mutation : Serve(m)
  \/ \E t \in Ticket, row \in Row : Other(t, row)
  \/ ServeList
  \/ ShowList
  \/ \E m \in Mutation : Saved(m)
  \/ DiagnosisSaved
  \/ ServeTicket
  \/ DiagnosisRead
  \/ \E m \in Mutation : Refused(m)

Spec == Init /\ [][Next]_vars

-----------------------------------------------------------------------------
\* The drawer shows the row as it is, once its own requests are answered: unless
\* it was opened from an old list, somebody else wrote the row, an answer came
\* that belongs to another ticket or was overtaken, or another technician was
\* picked while an assignment was under way.
DrawerTellsTruth ==
  /\ dialog # "none" /\ doubts = {}
  /\ \A m \in Mutation :
       call[m].state \in {"done", "reading", "read"} => call[m].ticket # shown.ticket
  => shown.row = rows[shown.ticket]

\* While nobody else works, the list is what the server has whenever nothing is
\* under way.
ListFollowsOwnWork ==
  others = 0 /\ refetch = NoFetch /\ (\A m \in Mutation : call[m] = Idle) => list = Visible(rows)

\* An outdated copy misleads the user, and the server lets it do little harm: a
\* change asked for on one, that no stray answer touched, starts where the drawer
\* said or else cancels the ticket, takes its repair up again or calls for parts.
StaleMovesAreFew ==
  [][call["status"].state = "asked" /\ call'["status"].state = "done" =>
       LET c == call["status"] IN
       \/ rows[c.ticket].status = c.seen
       \/ c.value \in {"CANCELLED", "REPAIR_IN_PROGRESS", "PARTS_REQUIRED"}
       \/ "stray" \in c.doubts]_vars
=============================================================================
