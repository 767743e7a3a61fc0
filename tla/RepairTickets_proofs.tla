------------------------- MODULE RepairTickets_proofs -------------------------
(***************************************************************************)
(* What holds of RepairTickets for every set of tickets, users, branches   *)
(* and overlapping requests.                                               *)
(***************************************************************************)
EXTENDS RepairTickets, TLAPS

\* The tables of Lifecycle are functions into the types their users expect.
LEMMA TablesType ==
  /\ VALID_TRANSITIONS \in [TicketStatus -> SUBSET TicketStatus]
  /\ STATUS_TRANSITION_ROLES \in [TicketStatus -> SUBSET UserRole]
  /\ \A s : StampOf(s) \subseteq Stamp
<1>1. VALID_TRANSITIONS \in [TicketStatus -> SUBSET TicketStatus]
  BY DEF VALID_TRANSITIONS, TicketStatus
<1>2. STATUS_TRANSITION_ROLES \in [TicketStatus -> SUBSET UserRole]
  BY DEF STATUS_TRANSITION_ROLES, TicketStatus
<1>3. \A s : StampOf(s) \subseteq Stamp
  BY DEF StampOf, Stamp
<1>4. QED BY <1>1, <1>2, <1>3

\* Init satisfies the type invariant.
LEMMA InitTypeOK == Init => TypeOK
BY DEF Init, TypeOK, Request, Idle

LEMMA ReceiveTypeOK ==
  ASSUME TypeOK, NEW w \in Worker, NEW r \in Request, Receive(w, r)
  PROVE  TypeOK'
BY DEF TypeOK, Receive

\* Opening a ticket keeps the type of the tables it writes.
LEMMA OpenTicketType ==
  ASSUME TypeOK, NEW t \in TicketId, NEW b \in Branch, NEW by \in Staff, NEW action,
         NEW w \in Worker,
         OpenTicket(t, b, by, action), Answer(w)
  PROVE  TypeOK'
<1>1. counter' \in Nat
  BY DEF TypeOK, OpenTicket
<1>2. DOMAIN tickets' \subseteq TicketId /\ tickets' \in [DOMAIN tickets' -> Ticket]
  BY StaffAssumption DEF TypeOK, OpenTicket, Ticket, TicketStatus
<1>3. Opening(by) \in StatusChange
  BY DEF Opening, Change, StatusChange, TicketStatus
<1>4. history' \in [TicketId -> Seq(StatusChange)]
  BY <1>3 DEF TypeOK, OpenTicket
<1>5. logged' \in [TicketId -> [SideRow -> Nat]]
  BY DEF TypeOK, OpenTicket, Trail
<1>6. req' \in [Worker -> Request]
  BY DEF TypeOK, Answer, Request, Idle
<1>7. QED
  BY <1>1, <1>2, <1>4, <1>5, <1>6 DEF TypeOK, OpenTicket

-----------------------------------------------------------------------------
(* What each kind of request carries *)

LEMMA RequestFields ==
  ASSUME TypeOK, NEW w \in Worker
  PROVE  /\ req[w].op \in {"create", "reopen"} => req[w].actor \in Staff /\ req[w].branch \in Branch
         /\ req[w].op = "toggle" => req[w].branch \in Branch /\ req[w].isActive \in BOOLEAN
         /\ req[w].op \in {"status", "deliver", "diagnose", "diagnoseWrite"} =>
              /\ req[w].actor \in Staff
              /\ req[w].ticket \in TicketId
              /\ req[w].seen \in TicketStatus
              /\ req[w].target \in TicketStatus
         /\ req[w].op \in {"assign", "assignWrite"} =>
              req[w].ticket \in TicketId /\ req[w].technician \in Staff
         /\ req[w].op = "assignWrite" => req[w].closing \in SUBSET Nat
         /\ req[w].op = "diagnoseWrite" => req[w].existing \in Nat
<1>1. req[w] \in Request
  BY DEF TypeOK
<1>2. QED BY <1>1 DEF Request

\* Begin actions only add a well-typed request.
LEMMA BeginTypeOK ==
  ASSUME TypeOK, NEW w \in Worker, Begin(w)
  PROVE  TypeOK'
<1>1. PICK u \in Staff :
        \/ \E b \in Branch : BeginCreate(w, u, b)
        \/ \E b \in Branch, isActive \in BOOLEAN : BeginToggle(w, u, b, isActive)
        \/ \E t \in TicketId :
             \/ BeginReopen(w, u, t)
             \/ \E target \in TicketStatus : BeginUpdateStatus(w, u, t, target)
             \/ BeginDeliver(w, u, t)
             \/ \E tech \in Staff : BeginAssign(w, u, t, tech)
             \/ \E f \in Feasibility : BeginDiagnose(w, u, t, f)
  BY DEF Begin
<1>2. ASSUME NEW b \in Branch, BeginCreate(w, u, b) PROVE TypeOK'
  <2>1. [op |-> "create", actor |-> u, branch |-> b] \in Request
    BY DEF Request
  <2>2. QED BY <1>2, <2>1, ReceiveTypeOK DEF BeginCreate
<1>3. ASSUME NEW b \in Branch, NEW isActive \in BOOLEAN, BeginToggle(w, u, b, isActive) PROVE TypeOK'
  <2>1. [op |-> "toggle", branch |-> b, isActive |-> isActive] \in Request
    BY DEF Request
  <2>2. QED BY <1>3, <2>1, ReceiveTypeOK DEF BeginToggle
<1>4. ASSUME NEW t \in TicketId, BeginReopen(w, u, t) PROVE TypeOK'
  <2>1. [op |-> "reopen", actor |-> u, branch |-> tickets[t].branch] \in Request
    BY <1>4 DEF BeginReopen, CanOpen, TypeOK, Ticket, Request
  <2>2. QED BY <1>4, <2>1, ReceiveTypeOK DEF BeginReopen
<1>5. ASSUME NEW t \in TicketId, NEW target \in TicketStatus, BeginUpdateStatus(w, u, t, target)
      PROVE  TypeOK'
  <2>1. [op |-> "status", actor |-> u, ticket |-> t, seen |-> tickets[t].status,
         target |-> target] \in Request
    BY <1>5 DEF BeginUpdateStatus, CanOpen, TypeOK, Ticket, Request
  <2>2. QED BY <1>5, <2>1, ReceiveTypeOK DEF BeginUpdateStatus
<1>6. ASSUME NEW t \in TicketId, BeginDeliver(w, u, t) PROVE TypeOK'
  <2>1. [op |-> "deliver", actor |-> u, ticket |-> t, seen |-> tickets[t].status,
         target |-> "DELIVERED"] \in Request
    BY <1>6 DEF BeginDeliver, CanOpen, TypeOK, Ticket, TicketStatus, Request
  <2>2. QED BY <1>6, <2>1, ReceiveTypeOK DEF BeginDeliver
<1>7. ASSUME NEW t \in TicketId, NEW tech \in Staff, BeginAssign(w, u, t, tech) PROVE TypeOK'
  <2>1. [op |-> "assign", ticket |-> t, technician |-> tech] \in Request
    BY DEF Request
  <2>2. QED BY <1>7, <2>1, ReceiveTypeOK DEF BeginAssign
<1>8. ASSUME NEW t \in TicketId, NEW f \in Feasibility, BeginDiagnose(w, u, t, f) PROVE TypeOK'
  <2>1. Outcome(f) \in TicketStatus
    BY DEF Outcome, TicketStatus
  <2>2. [op |-> "diagnose", actor |-> u, ticket |-> t, seen |-> tickets[t].status,
         target |-> Outcome(f)] \in Request
    BY <1>8, <2>1 DEF BeginDiagnose, CanOpen, TypeOK, Ticket, Request
  <2>3. QED BY <1>8, <2>2, ReceiveTypeOK DEF BeginDiagnose
<1>9. QED BY <1>1, <1>2, <1>3, <1>4, <1>5, <1>6, <1>7, <1>8

\* The status columns and the history row keep their types.
LEMMA WriteStatusType ==
  ASSUME TypeOK, NEW t \in TicketId, NEW from \in TicketStatus, NEW to \in TicketStatus,
         NEW by \in Staff, WriteStatus(t, from, to, by)
  PROVE  /\ DOMAIN tickets' = DOMAIN tickets
         /\ tickets' \in [DOMAIN tickets -> Ticket]
         /\ history' \in [TicketId -> Seq(StatusChange)]
<1>1. Change(from, to, by) \in StatusChange
  BY DEF Change, StatusChange
<1>2. history' \in [TicketId -> Seq(StatusChange)]
  BY <1>1 DEF WriteStatus, TypeOK
<1>3. tickets' \in [DOMAIN tickets -> Ticket]
  <2>1. tickets' = [tickets EXCEPT ![t] = Moved(tickets[t], to, by)]
    BY DEF WriteStatus
  <2>2. ASSUME t \in DOMAIN tickets PROVE Moved(tickets[t], to, by) \in Ticket
    <3>1. tickets[t] \in Ticket
      BY <2>2 DEF TypeOK
    <3>2. tickets[t].stamps \cup StampOf(to) \in SUBSET Stamp
      BY <3>1, TablesType DEF Ticket
    <3>3. (IF to = "DELIVERED" THEN by ELSE tickets[t].deliveredBy) \in Staff \cup {Nobody}
      BY <3>1 DEF Ticket
    <3>4. QED BY <3>1, <3>2, <3>3 DEF Ticket, Moved
  <2>3. QED BY <2>1, <2>2 DEF TypeOK
<1>4. DOMAIN tickets' = DOMAIN tickets
  BY DEF WriteStatus
<1>5. QED BY <1>2, <1>3, <1>4

LEMMA TrailType ==
  ASSUME TypeOK, NEW t \in TicketId, NEW kinds, Trail(t, kinds)
  PROVE  logged' \in [TicketId -> [SideRow -> Nat]]
BY DEF Trail, TypeOK

LEMMA FinishTypeOK ==
  ASSUME TypeOK, NEW w \in Worker, Finish(w)
  PROVE  TypeOK'
<1> DEFINE r == req[w]
<1>a. /\ r.op \in {"create", "reopen"} => r.actor \in Staff /\ r.branch \in Branch
      /\ r.op = "toggle" => r.branch \in Branch /\ r.isActive \in BOOLEAN
      /\ r.op \in {"status", "deliver", "diagnose", "diagnoseWrite"} =>
           /\ r.actor \in Staff
           /\ r.ticket \in TicketId
           /\ r.seen \in TicketStatus
           /\ r.target \in TicketStatus
      /\ r.op \in {"assign", "assignWrite"} => r.ticket \in TicketId /\ r.technician \in Staff
      /\ r.op = "assignWrite" => r.closing \in SUBSET Nat
      /\ r.op = "diagnoseWrite" => r.existing \in Nat
  BY RequestFields
<1>0. Answer(w) => req' \in [Worker -> Request]
  BY DEF Answer, TypeOK, Request, Idle
<1>1. CASE CommitCreate(w)
  BY <1>a, <1>1, OpenTicketType DEF CommitCreate
<1>2. CASE CommitReopen(w)
  BY <1>a, <1>2, OpenTicketType DEF CommitReopen
<1>3. CASE CommitToggle(w)
  BY <1>0, <1>a, <1>3 DEF CommitToggle, TypeOK
<1>4. CASE CommitStatus(w)
  <2>1. logged' \in [TicketId -> [SideRow -> Nat]]
    BY <1>a, <1>4, TrailType DEF CommitStatus
  <2>2. QED BY <1>0, <1>a, <1>4, <2>1, WriteStatusType DEF CommitStatus, TypeOK
<1>5. CASE FindOpenAssignments(w)
  <2>1. {i \in DOMAIN assignments[req[w].ticket] : assignments[req[w].ticket][i].open} \in SUBSET Nat
    BY <1>a, <1>5 DEF FindOpenAssignments, TypeOK
  <2>2. req'[w] \in Request
    BY <1>a, <1>5, <2>1 DEF FindOpenAssignments, TypeOK, Request
  <2>3. QED BY <1>a, <1>5, <2>2 DEF FindOpenAssignments, TypeOK
<1>6. CASE CommitAssign(w)
  <2> DEFINE rows == assignments[r.ticket]
  <2>1. r.ticket \in TicketId /\ r.technician \in Staff /\ rows \in Seq(Assignment)
    BY <1>a, <1>6 DEF CommitAssign, TypeOK
  <2>2. [i \in 1..Len(rows) |-> [rows[i] EXCEPT !.open = @ /\ i \notin r.closing]] \in Seq(Assignment)
    <3>1. ASSUME NEW i \in 1..Len(rows)
          PROVE  [rows[i] EXCEPT !.open = @ /\ i \notin r.closing] \in Assignment
      <4>1. rows[i] \in Assignment
        BY <2>1
      <4>2. (rows[i].open /\ i \notin r.closing) \in BOOLEAN
        OBVIOUS
      <4>3. QED BY <4>1, <4>2 DEF Assignment
    <3>2. QED BY <2>1, <3>1
  <2>3. Reassigned(rows, r.closing, r.technician) \in Seq(Assignment)
    BY <2>1, <2>2 DEF Reassigned, Assignment
  <2>4. assignments' \in [TicketId -> Seq(Assignment)]
    BY <1>a, <1>6, <2>1, <2>3 DEF CommitAssign, TypeOK
  <2>5. tickets' \in [DOMAIN tickets -> Ticket]
    <3>1. tickets' = [tickets EXCEPT ![r.ticket].assignedTechnician = r.technician]
      BY <1>6 DEF CommitAssign
    <3>2. tickets \in [DOMAIN tickets -> Ticket]
      BY DEF TypeOK
    <3>3. ASSUME NEW t \in DOMAIN tickets
          PROVE  [tickets[t] EXCEPT !.assignedTechnician = r.technician] \in Ticket
      <4>1. tickets[t] \in Ticket
        BY <3>2
      <4>2. QED BY <2>1, <4>1 DEF Ticket
    <3> HIDE DEF r
    <3>4. QED BY <3>1, <3>2, <3>3
  <2>6. logged' \in [TicketId -> [SideRow -> Nat]]
    BY <1>a, <1>6, TrailType DEF CommitAssign
  <2>7. QED BY <1>0, <1>6, <2>4, <2>5, <2>6 DEF CommitAssign, TypeOK
<1>7. CASE FindDiagnosis(w)
  <2>1. PICK i \in IF diagnoses[req[w].ticket] = <<>> THEN {0} ELSE 1..Len(diagnoses[req[w].ticket]) :
          req' = [req EXCEPT ![w] =
                 [op |-> "diagnoseWrite", actor |-> req[w].actor, ticket |-> req[w].ticket,
                  seen |-> req[w].seen, target |-> req[w].target, existing |-> i]]
    BY <1>a, <1>7 DEF FindDiagnosis
  <2>2. i \in Nat
    <3>1. diagnoses[r.ticket] \in Seq(Diagnosis)
      BY <1>a, <1>7 DEF FindDiagnosis, TypeOK
    <3>2. Len(diagnoses[r.ticket]) \in Nat
      BY <3>1
    <3>3. QED BY <2>1, <3>2
  <2>3. req'[w] \in Request
    BY <1>a, <1>7, <2>1, <2>2 DEF FindDiagnosis, TypeOK, Request
  <2>4. QED BY <1>a, <1>7, <2>1, <2>3 DEF FindDiagnosis, TypeOK
<1>8. CASE CommitDiagnosis(w)
  <2> DEFINE row == [technician |-> r.actor]
             rows == diagnoses[r.ticket]
  <2>1. r.ticket \in TicketId /\ row \in Diagnosis /\ rows \in Seq(Diagnosis)
    BY <1>a, <1>8 DEF CommitDiagnosis, TypeOK, Diagnosis
  <2>2. Append(rows, row) \in Seq(Diagnosis) /\ [rows EXCEPT ![r.existing] = row] \in Seq(Diagnosis)
    <3>1. rows \in [1..Len(rows) -> Diagnosis] /\ Len(rows) \in Nat
      BY <2>1
    <3>2. [rows EXCEPT ![r.existing] = row] \in [1..Len(rows) -> Diagnosis]
      BY <2>1, <3>1
    <3>3. Append(rows, row) \in Seq(Diagnosis)
      BY <2>1
    <3>4. QED BY <3>1, <3>2, <3>3
  <2>3. diagnoses' \in [TicketId -> Seq(Diagnosis)]
    BY <1>8, <2>1, <2>2 DEF CommitDiagnosis, TypeOK
  <2>4. logged' \in [TicketId -> [SideRow -> Nat]]
    BY <1>a, <1>8, TrailType DEF CommitDiagnosis
  <2>5. "DIAGNOSING" \in TicketStatus
    BY DEF TicketStatus
  <2>6. /\ DOMAIN tickets' \subseteq TicketId
        /\ tickets' \in [DOMAIN tickets' -> Ticket]
        /\ history' \in [TicketId -> Seq(StatusChange)]
    <3>1. CASE Moves(r)
      BY <1>a, <1>8, <2>5, <3>1, WriteStatusType DEF CommitDiagnosis, TypeOK
    <3>2. CASE ~Moves(r)
      BY <1>8, <3>2 DEF CommitDiagnosis, TypeOK
    <3>3. QED BY <3>1, <3>2
  <2>7. QED BY <1>0, <1>8, <2>3, <2>4, <2>6 DEF CommitDiagnosis, TypeOK
<1>9. CASE Abort(w)
  BY <1>0, <1>9 DEF Abort, TypeOK
<1>10. QED
  BY <1>1, <1>2, <1>3, <1>4, <1>5, <1>6, <1>7, <1>8, <1>9 DEF Finish

\* The rows, the side tables and the requests keep their types whatever the
\* requests in flight: no handler writes a status, role or reference that the
\* tables do not have.
THEOREM TypeCorrect == Spec => []TypeOK
<1>1. TypeOK /\ [Next]_vars => TypeOK'
  <2>1. CASE UNCHANGED vars
    BY <2>1 DEF vars, TypeOK
  <2>2. CASE Next
    BY <2>2, BeginTypeOK, FinishTypeOK DEF Next
  <2>3. QED BY <2>1, <2>2
<1>2. QED BY InitTypeOK, <1>1, PTL DEF Spec

-----------------------------------------------------------------------------
(* The timeline: what requests in flight may claim, and what they leave *)

\* A request that will write a history row carries a transition the tables
\* permit its actor, for a ticket that exists; its reading may be stale by now.
RequestsAreLegal ==
  \A w \in Worker :
    LET r == req[w] IN
    /\ r.op \in {"status", "deliver", "diagnose", "diagnoseWrite", "assign", "assignWrite"} =>
         r.ticket \in DOMAIN tickets
    /\ r.op \in {"status", "deliver"} =>
         /\ r.target \in VALID_TRANSITIONS[r.seen]
         /\ RoleOf[r.actor] \in STATUS_TRANSITION_ROLES[r.target]
    /\ r.op \in {"diagnose", "diagnoseWrite"} =>
         /\ RoleOf[r.actor] \in {"SYSTEM_ADMIN", "TECHNICIAN"}
         /\ r.target \in {"UNREPAIRABLE", "WAITING_FOR_APPROVAL", "DIAGNOSING"}

\* A ticket that was never opened has no timeline.
UnopenedIsEmpty == \A t \in TicketId \ DOMAIN tickets : history[t] = <<>>

TimelineInv ==
  TypeOK /\ RequestsAreLegal /\ UnopenedIsEmpty /\ TimelineEndsAtStatus /\ TimelineIsAuthorized

\* The three ways a step can leave the timelines: a ticket opened, a ticket moved
\* on as the tables permit from the status a request read, or neither the timeline
\* nor the two columns it speaks of written.
Reading == {"status", "deliver", "diagnose", "diagnoseWrite"}

HasRead(w, t, s) == req[w].op \in Reading /\ req[w].ticket = t /\ req[w].seen = s

OpensOne ==
  \E t \in TicketId, b \in Branch, by \in Staff,
     action \in {"CREATE_REPAIR_TICKET", "REOPEN_TICKET"} : OpenTicket(t, b, by, action)

MovesOne ==
  \E t \in DOMAIN tickets, from \in TicketStatus, to \in TicketStatus, by \in Staff :
    /\ to \in VALID_TRANSITIONS[from]
    /\ RoleOf[by] \in STATUS_TRANSITION_ROLES[to]
    /\ \E w \in Worker : HasRead(w, t, from)
    /\ WriteStatus(t, from, to, by)

LeavesTimeline ==
  /\ history' = history
  /\ DOMAIN tickets' = DOMAIN tickets
  /\ \A t \in DOMAIN tickets : /\ tickets'[t].status = tickets[t].status
                               /\ tickets'[t].deliveredBy = tickets[t].deliveredBy

LEMMA AppendFacts ==
  ASSUME NEW S, NEW s \in Seq(S), NEW e \in S
  PROVE  /\ Append(s, e) # <<>>
         /\ Len(Append(s, e)) = Len(s) + 1
         /\ Last(Append(s, e)) = e
         /\ \A i \in 1..Len(s) : Append(s, e)[i] = s[i]
BY DEF Last

\* The two tables agree on what addDiagnosis and deliverTicket write without
\* consulting them.
LEMMA UncheckedWritesAreLegal ==
  /\ {"UNREPAIRABLE", "WAITING_FOR_APPROVAL"} \subseteq VALID_TRANSITIONS["DIAGNOSING"]
  /\ "DELIVERED" \in VALID_TRANSITIONS["READY_FOR_COLLECTION"]
  /\ \A u \in Staff : Desk(u) => RoleOf[u] \in STATUS_TRANSITION_ROLES["DELIVERED"]
  /\ {"SYSTEM_ADMIN", "TECHNICIAN"} \subseteq
       STATUS_TRANSITION_ROLES["UNREPAIRABLE"] \cap STATUS_TRANSITION_ROLES["WAITING_FOR_APPROVAL"]
BY StaffAssumption DEF VALID_TRANSITIONS, STATUS_TRANSITION_ROLES, TicketStatus, UserRole, Desk

\* What a change of status leaves in the two tables.
LEMMA WriteStatusRows ==
  ASSUME TypeOK, NEW t \in DOMAIN tickets, NEW from \in TicketStatus, NEW to \in TicketStatus,
         NEW by \in Staff, WriteStatus(t, from, to, by)
  PROVE  /\ t \in TicketId /\ history[t] \in Seq(StatusChange)
         /\ Change(from, to, by) \in StatusChange
         /\ history'[t] = Append(history[t], Change(from, to, by))
         /\ \A x \in TicketId : x # t => history'[x] = history[x]
         /\ DOMAIN tickets' = DOMAIN tickets
         /\ tickets'[t].status = to
         /\ to = "DELIVERED" => tickets'[t].deliveredBy = by
         /\ \A x \in DOMAIN tickets : x # t => tickets'[x] = tickets[x]
<1>1. t \in TicketId /\ history[t] \in Seq(StatusChange) /\ tickets[t] \in Ticket
  BY DEF TypeOK
<1>2. Change(from, to, by) \in StatusChange
  BY DEF Change, StatusChange
<1>3. /\ history'[t] = Append(history[t], Change(from, to, by))
      /\ \A x \in TicketId : x # t => history'[x] = history[x]
      /\ DOMAIN tickets' = DOMAIN tickets
      /\ tickets'[t] = Moved(tickets[t], to, by)
      /\ \A x \in DOMAIN tickets : x # t => tickets'[x] = tickets[x]
  BY <1>1 DEF WriteStatus, TypeOK
<1>4. tickets'[t].status = to /\ (to = "DELIVERED" => tickets'[t].deliveredBy = by)
  BY <1>1, <1>3 DEF Moved, Ticket
<1>5. QED BY <1>1, <1>2, <1>3, <1>4

\* Its timeline ends at the status written, whatever the status was.
LEMMA WriteStatusEnds ==
  ASSUME TypeOK, UnopenedIsEmpty, TimelineEndsAtStatus,
         NEW t \in DOMAIN tickets, NEW from \in TicketStatus, NEW to \in TicketStatus,
         NEW by \in Staff, WriteStatus(t, from, to, by)
  PROVE  UnopenedIsEmpty' /\ TimelineEndsAtStatus'
<1> DEFINE h == Change(from, to, by)
<1>1. h.newStatus = to /\ h.changedBy = by
  BY DEF Change
<1>2. /\ t \in TicketId /\ history[t] \in Seq(StatusChange) /\ h \in StatusChange
      /\ history'[t] = Append(history[t], h)
      /\ \A x \in TicketId : x # t => history'[x] = history[x]
      /\ DOMAIN tickets' = DOMAIN tickets
      /\ tickets'[t].status = to
      /\ to = "DELIVERED" => tickets'[t].deliveredBy = by
      /\ \A x \in DOMAIN tickets : x # t => tickets'[x] = tickets[x]
  BY WriteStatusRows
<1> HIDE DEF h
<1>3. UnopenedIsEmpty'
  BY <1>2 DEF UnopenedIsEmpty
<1>4. history'[t] # <<>> /\ Last(history'[t]) = h
  BY <1>2, AppendFacts
<1>5. QED BY <1>1, <1>2, <1>3, <1>4 DEF TimelineEndsAtStatus, TypeOK

\* A change the tables permit, written to a ticket that exists.
LEMMA WriteStatusTimeline ==
  ASSUME TypeOK, UnopenedIsEmpty, TimelineEndsAtStatus, TimelineIsAuthorized,
         NEW t \in DOMAIN tickets, NEW from \in TicketStatus, NEW to \in TicketStatus,
         NEW by \in Staff,
         to \in VALID_TRANSITIONS[from],
         RoleOf[by] \in STATUS_TRANSITION_ROLES[to],
         WriteStatus(t, from, to, by)
  PROVE  UnopenedIsEmpty' /\ TimelineEndsAtStatus' /\ TimelineIsAuthorized'
<1> DEFINE h == Change(from, to, by)
<1>1. h.newStatus = to /\ h.previousStatus = from /\ h.changedBy = by
  BY DEF Change
<1>2. /\ t \in TicketId /\ history[t] \in Seq(StatusChange) /\ h \in StatusChange
      /\ history'[t] = Append(history[t], h)
      /\ \A x \in TicketId : x # t => history'[x] = history[x]
  BY WriteStatusRows
<1> HIDE DEF h
<1>3. ASSUME NEW i \in 2..Len(history'[t])
      PROVE  /\ LegalChange(history'[t][i])
             /\ RoleOf[history'[t][i].changedBy] \in STATUS_TRANSITION_ROLES[history'[t][i].newStatus]
  <2>1. CASE i \in 1..Len(history[t])
    BY <1>2, <2>1, AppendFacts DEF TimelineIsAuthorized
  <2>2. CASE i = Len(history[t]) + 1
    <3>1. history'[t][i] = h
      BY <1>2, <2>2
    <3>2. QED BY <1>1, <3>1 DEF LegalChange
  <2>3. QED BY <1>2, <1>3, <2>1, <2>2, AppendFacts
<1>4. TimelineIsAuthorized'
  BY <1>2, <1>3 DEF TimelineIsAuthorized
<1>5. QED BY <1>4, WriteStatusEnds

\* A new ticket and its opening row.
LEMMA OpenTicketRows ==
  ASSUME TypeOK, UnopenedIsEmpty, TimelineEndsAtStatus,
         NEW t \in TicketId, NEW b \in Branch, NEW by \in Staff, NEW action,
         OpenTicket(t, b, by, action)
  PROVE  /\ UnopenedIsEmpty' /\ TimelineEndsAtStatus'
         /\ DOMAIN tickets \subseteq DOMAIN tickets'
         /\ 2..Len(history'[t]) = {}
         /\ \A x \in TicketId : x # t => history'[x] = history[x]
<1>1. Opening(by) \in StatusChange /\ Opening(by).newStatus = "RECEIVED"
  BY DEF Opening, Change, StatusChange, TicketStatus
<1>2. /\ history'[t] = <<Opening(by)>>
      /\ \A x \in TicketId : x # t => history'[x] = history[x]
  <2>1. history' = [history EXCEPT ![t] = Append(history[t], Opening(by))] /\ t \notin DOMAIN tickets
    BY DEF OpenTicket
  <2>2. history[t] = <<>> /\ history \in [TicketId -> Seq(StatusChange)]
    BY <2>1 DEF UnopenedIsEmpty, TypeOK
  <2>3. Append(<<>>, Opening(by)) = <<Opening(by)>>
    BY <1>1
  <2>4. QED BY <2>1, <2>2, <2>3
<1>3. /\ DOMAIN tickets' = DOMAIN tickets \cup {t}
      /\ tickets'[t].status = "RECEIVED"
      /\ \A x \in DOMAIN tickets : x # t => tickets'[x] = tickets[x]
  BY DEF OpenTicket
<1>4. UnopenedIsEmpty'
  BY <1>2, <1>3 DEF UnopenedIsEmpty
<1>5. TimelineEndsAtStatus'
  <2>1. history'[t] # <<>> /\ Last(history'[t]) = Opening(by)
    BY <1>2 DEF Last
  <2>2. QED BY <1>1, <1>2, <1>3, <2>1 DEF TimelineEndsAtStatus, TypeOK
<1>6. 2..Len(history'[t]) = {}
  BY <1>2
<1>7. QED BY <1>2, <1>3, <1>4, <1>5, <1>6

LEMMA OpenTicketTimeline ==
  ASSUME TimelineInv, NEW t \in TicketId, NEW b \in Branch, NEW by \in Staff, NEW action,
         OpenTicket(t, b, by, action)
  PROVE  UnopenedIsEmpty' /\ TimelineEndsAtStatus' /\ TimelineIsAuthorized'
<1>1. /\ UnopenedIsEmpty' /\ TimelineEndsAtStatus'
      /\ 2..Len(history'[t]) = {}
      /\ \A x \in TicketId : x # t => history'[x] = history[x]
  BY OpenTicketRows DEF TimelineInv
<1>2. TimelineIsAuthorized'
  BY <1>1 DEF TimelineIsAuthorized, TimelineInv
<1>3. QED BY <1>1, <1>2

LEMMA QuietStep ==
  ASSUME TimelineInv, LeavesTimeline
  PROVE  UnopenedIsEmpty' /\ TimelineEndsAtStatus' /\ TimelineIsAuthorized'
BY DEF LeavesTimeline, TimelineInv, UnopenedIsEmpty, TimelineEndsAtStatus, TimelineIsAuthorized

-----------------------------------------------------------------------------
(* Requests stay legal *)

\* A request that is legal at the moment it is received, or is answered, leaves
\* every other one legal: tickets are never deleted.
LEMMA LegalStep ==
  ASSUME TypeOK, RequestsAreLegal, NEW w \in Worker, NEW r,
         DOMAIN tickets \subseteq DOMAIN tickets',
         req' = [req EXCEPT ![w] = r],
         r.op \in {"status", "deliver", "diagnose", "diagnoseWrite", "assign", "assignWrite"} =>
           r.ticket \in DOMAIN tickets,
         r.op \in {"status", "deliver"} =>
           /\ r.target \in VALID_TRANSITIONS[r.seen]
           /\ RoleOf[r.actor] \in STATUS_TRANSITION_ROLES[r.target],
         r.op \in {"diagnose", "diagnoseWrite"} =>
           /\ RoleOf[r.actor] \in {"SYSTEM_ADMIN", "TECHNICIAN"}
           /\ r.target \in {"UNREPAIRABLE", "WAITING_FOR_APPROVAL", "DIAGNOSING"}
  PROVE  RequestsAreLegal'
<1>1. req \in [Worker -> Request]
  BY DEF TypeOK
<1>2. \A v \in Worker : req'[v] = IF v = w THEN r ELSE req[v]
  BY <1>1
<1>3. SUFFICES ASSUME NEW v \in Worker
      PROVE /\ req'[v].op \in {"status", "deliver", "diagnose", "diagnoseWrite", "assign", "assignWrite"} =>
                 req'[v].ticket \in DOMAIN tickets'
            /\ req'[v].op \in {"status", "deliver"} =>
                 /\ req'[v].target \in VALID_TRANSITIONS[req'[v].seen]
                 /\ RoleOf[req'[v].actor] \in STATUS_TRANSITION_ROLES[req'[v].target]
            /\ req'[v].op \in {"diagnose", "diagnoseWrite"} =>
                 /\ RoleOf[req'[v].actor] \in {"SYSTEM_ADMIN", "TECHNICIAN"}
                 /\ req'[v].target \in {"UNREPAIRABLE", "WAITING_FOR_APPROVAL", "DIAGNOSING"}
  BY DEF RequestsAreLegal
<1>4. CASE v = w
  BY <1>2, <1>4
<1>5. CASE v # w
  BY <1>2, <1>5 DEF RequestsAreLegal
<1>6. QED BY <1>4, <1>5

LEMMA AnswerLegal ==
  ASSUME TypeOK, RequestsAreLegal, NEW w \in Worker, Answer(w), DOMAIN tickets \subseteq DOMAIN tickets'
  PROVE  RequestsAreLegal'
BY LegalStep DEF Answer, Idle

LEMMA BeginEffect ==
  ASSUME TypeOK, RequestsAreLegal, NEW w \in Worker, Begin(w)
  PROVE  RequestsAreLegal' /\ LeavesTimeline
<1>0. UNCHANGED <<branchActive, counter, tickets, history, assignments, diagnoses, logged>>
  BY DEF Begin, BeginCreate, BeginToggle, BeginReopen, BeginUpdateStatus, BeginDeliver,
         BeginAssign, BeginDiagnose, Receive
<1>1. PICK u \in Staff :
        \/ \E b \in Branch : BeginCreate(w, u, b)
        \/ \E b \in Branch, isActive \in BOOLEAN : BeginToggle(w, u, b, isActive)
        \/ \E t \in TicketId :
             \/ BeginReopen(w, u, t)
             \/ \E target \in TicketStatus : BeginUpdateStatus(w, u, t, target)
             \/ BeginDeliver(w, u, t)
             \/ \E tech \in Staff : BeginAssign(w, u, t, tech)
             \/ \E f \in Feasibility : BeginDiagnose(w, u, t, f)
  BY DEF Begin
<1>2. ASSUME NEW b \in Branch, BeginCreate(w, u, b) PROVE RequestsAreLegal'
  BY <1>0, <1>2, LegalStep DEF BeginCreate, Receive
<1>3. ASSUME NEW b \in Branch, NEW isActive \in BOOLEAN, BeginToggle(w, u, b, isActive)
      PROVE  RequestsAreLegal'
  BY <1>0, <1>3, LegalStep DEF BeginToggle, Receive
<1>4. ASSUME NEW t \in TicketId, BeginReopen(w, u, t) PROVE RequestsAreLegal'
  BY <1>0, <1>4, LegalStep DEF BeginReopen, Receive
<1>5. ASSUME NEW t \in TicketId, NEW target \in TicketStatus, BeginUpdateStatus(w, u, t, target)
      PROVE  RequestsAreLegal'
  BY <1>0, <1>5, LegalStep DEF BeginUpdateStatus, CanOpen, Receive
<1>6. ASSUME NEW t \in TicketId, BeginDeliver(w, u, t) PROVE RequestsAreLegal'
  BY <1>0, <1>6, LegalStep, UncheckedWritesAreLegal DEF BeginDeliver, CanOpen, Receive
<1>7. ASSUME NEW t \in TicketId, NEW tech \in Staff, BeginAssign(w, u, t, tech)
      PROVE  RequestsAreLegal'
  BY <1>0, <1>7, LegalStep DEF BeginAssign, CanOpen, Receive
<1>8. ASSUME NEW t \in TicketId, NEW f \in Feasibility, BeginDiagnose(w, u, t, f)
      PROVE  RequestsAreLegal'
  <2>1. Outcome(f) \in {"UNREPAIRABLE", "WAITING_FOR_APPROVAL", "DIAGNOSING"}
    BY DEF Outcome
  <2>2. QED BY <1>0, <1>8, <2>1, LegalStep DEF BeginDiagnose, CanOpen, Receive
<1>9. LeavesTimeline
  BY <1>0 DEF LeavesTimeline
<1>10. QED BY <1>9, <1>1, <1>2, <1>3, <1>4, <1>5, <1>6, <1>7, <1>8

LEMMA FinishEffect ==
  ASSUME TypeOK, RequestsAreLegal, NEW w \in Worker, Finish(w)
  PROVE  RequestsAreLegal' /\ (OpensOne \/ MovesOne \/ LeavesTimeline)
<1> DEFINE r == req[w]
<1>b. /\ r.op \in {"create", "reopen"} => r.actor \in Staff /\ r.branch \in Branch
      /\ r.op \in {"status", "deliver", "diagnose", "diagnoseWrite"} =>
           r.actor \in Staff /\ r.seen \in TicketStatus /\ r.target \in TicketStatus
  BY RequestFields
<1>c. /\ r.op \in {"status", "deliver", "diagnose", "diagnoseWrite", "assign", "assignWrite"} =>
           r.ticket \in DOMAIN tickets
      /\ r.op \in {"status", "deliver"} =>
           /\ r.target \in VALID_TRANSITIONS[r.seen]
           /\ RoleOf[r.actor] \in STATUS_TRANSITION_ROLES[r.target]
      /\ r.op \in {"diagnose", "diagnoseWrite"} =>
           /\ RoleOf[r.actor] \in {"SYSTEM_ADMIN", "TECHNICIAN"}
           /\ r.target \in {"UNREPAIRABLE", "WAITING_FOR_APPROVAL", "DIAGNOSING"}
  BY DEF RequestsAreLegal
<1>1. CASE CommitCreate(w) \/ CommitReopen(w)
  <2>1. PICK t \in TicketId, action \in {"CREATE_REPAIR_TICKET", "REOPEN_TICKET"} :
          OpenTicket(t, r.branch, r.actor, action)
    BY <1>1 DEF CommitCreate, CommitReopen
  <2>2. Answer(w) /\ r.op \in {"create", "reopen"}
    BY <1>1 DEF CommitCreate, CommitReopen
  <2>3. DOMAIN tickets \subseteq DOMAIN tickets'
    BY <2>1 DEF OpenTicket
  <2>4. OpensOne
    BY <1>b, <2>1, <2>2 DEF OpensOne
  <2>5. QED BY <2>2, <2>3, <2>4, AnswerLegal
<1>2. CASE CommitStatus(w)
  <2>1. WriteStatus(r.ticket, r.seen, r.target, r.actor) /\ r.op \in {"status", "deliver"} /\ Answer(w)
    BY <1>2 DEF CommitStatus
  <2>2. DOMAIN tickets' = DOMAIN tickets
    BY <2>1 DEF WriteStatus
  <2>3. HasRead(w, r.ticket, r.seen)
    BY <2>1 DEF HasRead, Reading
  <2>4. MovesOne
    BY <1>b, <1>c, <2>1, <2>3 DEF MovesOne
  <2>5. QED BY <2>1, <2>2, <2>4, AnswerLegal
<1>3. CASE CommitDiagnosis(w)
  <2>1. r.op = "diagnoseWrite" /\ Answer(w)
    BY <1>3 DEF CommitDiagnosis
  <2>2. CASE Moves(r)
    <3>1. WriteStatus(r.ticket, "DIAGNOSING", r.target, r.actor)
      BY <1>3, <2>2 DEF CommitDiagnosis
    <3>2. /\ r.target \in VALID_TRANSITIONS["DIAGNOSING"]
          /\ RoleOf[r.actor] \in STATUS_TRANSITION_ROLES[r.target]
          /\ "DIAGNOSING" \in TicketStatus
      BY <1>c, <2>1, <2>2, UncheckedWritesAreLegal DEF Moves, TicketStatus
    <3>3. DOMAIN tickets' = DOMAIN tickets
      BY <3>1 DEF WriteStatus
    <3>4. HasRead(w, r.ticket, "DIAGNOSING")
      BY <2>1, <2>2 DEF HasRead, Reading, Moves
    <3>5. MovesOne
      BY <1>b, <1>c, <2>1, <3>1, <3>2, <3>4 DEF MovesOne
    <3>6. QED BY <2>1, <3>3, <3>5, AnswerLegal
  <2>3. CASE ~Moves(r)
    <3>1. UNCHANGED <<tickets, history>>
      BY <1>3, <2>3 DEF CommitDiagnosis
    <3>2. QED BY <2>1, <3>1, AnswerLegal DEF LeavesTimeline
  <2>4. QED BY <2>2, <2>3
<1>4. CASE CommitAssign(w)
  <2>1. /\ tickets' = [tickets EXCEPT ![r.ticket].assignedTechnician = r.technician]
        /\ UNCHANGED history
        /\ Answer(w)
    BY <1>4 DEF CommitAssign
  <2>2. \A t \in DOMAIN tickets : tickets[t] \in Ticket
    BY DEF TypeOK
  <2>3. \A t \in DOMAIN tickets : /\ tickets'[t].status = tickets[t].status
                                  /\ tickets'[t].deliveredBy = tickets[t].deliveredBy
    BY <2>1, <2>2 DEF Ticket
  <2>4. QED BY <2>1, <2>3, AnswerLegal DEF LeavesTimeline
<1>5. CASE FindOpenAssignments(w)
  <2>1. UNCHANGED <<tickets, history>> /\ r.op = "assign"
    BY <1>5 DEF FindOpenAssignments
  <2>2. RequestsAreLegal'
    BY <1>5, <1>c, <2>1, LegalStep DEF FindOpenAssignments
  <2>3. QED BY <2>1, <2>2 DEF LeavesTimeline
<1>6. CASE FindDiagnosis(w)
  <2>1. UNCHANGED <<tickets, history>> /\ r.op = "diagnose"
    BY <1>6 DEF FindDiagnosis
  <2>2. RequestsAreLegal'
    BY <1>6, <1>c, <2>1, LegalStep DEF FindDiagnosis
  <2>3. QED BY <2>1, <2>2 DEF LeavesTimeline
<1>7. CASE CommitToggle(w) \/ Abort(w)
  <2>1. UNCHANGED <<tickets, history>> /\ Answer(w)
    BY <1>7 DEF CommitToggle, Abort
  <2>2. QED BY <2>1, AnswerLegal DEF LeavesTimeline
<1>8. QED
  BY <1>1, <1>2, <1>3, <1>4, <1>5, <1>6, <1>7 DEF Finish

\* What any step of a request leaves behind.
LEMMA StepEffect ==
  ASSUME TypeOK, RequestsAreLegal, NEW w \in Worker, Begin(w) \/ Finish(w)
  PROVE  /\ TypeOK'
         /\ RequestsAreLegal'
         /\ OpensOne \/ MovesOne \/ LeavesTimeline
BY BeginTypeOK, FinishTypeOK, BeginEffect, FinishEffect

LEMMA StepTimeline ==
  ASSUME TimelineInv, NEW w \in Worker, Begin(w) \/ Finish(w)
  PROVE  TimelineInv'
<1>1. TypeOK' /\ RequestsAreLegal' /\ (OpensOne \/ MovesOne \/ LeavesTimeline)
  BY StepEffect DEF TimelineInv
<1>2. CASE OpensOne
  BY <1>1, <1>2, OpenTicketTimeline DEF OpensOne, TimelineInv
<1>3. CASE MovesOne
  BY <1>1, <1>3, WriteStatusTimeline DEF MovesOne, TimelineInv
<1>4. CASE LeavesTimeline
  BY <1>1, <1>4, QuietStep DEF TimelineInv
<1>5. QED BY <1>1, <1>2, <1>3, <1>4

LEMMA InitTimeline == Init => TimelineInv
<1> SUFFICES ASSUME Init PROVE TimelineInv
  OBVIOUS
<1>1. DOMAIN tickets = {} /\ \A t \in TicketId : history[t] = <<>>
  BY DEF Init
<1>2. 2..Len(<<>>) = {}
  OBVIOUS
<1>3. QED
  BY <1>1, <1>2, InitTypeOK DEF Init, TimelineInv, RequestsAreLegal, UnopenedIsEmpty,
     TimelineEndsAtStatus, TimelineIsAuthorized, Idle

\* The inductive invariant: what the timelines hold together with what the
\* requests in flight may still write into them.
LEMMA TimelineInvariant == Spec => []TimelineInv
<1>1. TimelineInv /\ [Next]_vars => TimelineInv'
  <2>1. CASE UNCHANGED vars
    BY <2>1 DEF vars, TimelineInv, TypeOK, RequestsAreLegal, UnopenedIsEmpty,
                TimelineEndsAtStatus, TimelineIsAuthorized
  <2>2. CASE Next
    BY <2>2, StepTimeline DEF Next
  <2>3. QED BY <2>1, <2>2
<1>2. QED BY InitTimeline, <1>1, PTL DEF Spec

\* Whatever requests overlap, the newest entry of a ticket's timeline names its
\* current status, and the user recorded as having delivered it.
THEOREM TimelineNeverDisagrees == Spec => []TimelineEndsAtStatus
<1>1. TimelineInv => TimelineEndsAtStatus
  BY DEF TimelineInv
<1>2. QED BY <1>1, TimelineInvariant, PTL

\* Whatever requests overlap, every recorded change is a transition of the state
\* machine by a role it permits, also where the handler consults no table.
THEOREM TimelineIsLegal == Spec => []TimelineIsAuthorized
<1>1. TimelineInv => TimelineIsAuthorized
  BY DEF TimelineInv
<1>2. QED BY <1>1, TimelineInvariant, PTL

-----------------------------------------------------------------------------
(* The history implements the append-only log of module Timeline *)

LEMMA SameTables ==
  /\ Log!VALID_TRANSITIONS = VALID_TRANSITIONS
  /\ Log!STATUS_TRANSITION_ROLES = STATUS_TRANSITION_ROLES
  /\ Log!TicketStatus = TicketStatus
  /\ \A from, to, by : Log!Change(from, to, by) = Change(from, to, by)
  /\ \A by : Log!Opening(by) = Opening(by)
<1>1. Log!TicketStatus = TicketStatus
  BY DEF Log!TicketStatus, TicketStatus
<1>2. Log!VALID_TRANSITIONS = VALID_TRANSITIONS
  BY <1>1 DEF Log!VALID_TRANSITIONS, VALID_TRANSITIONS
<1>3. Log!UserRole = UserRole
  BY DEF Log!UserRole, UserRole
<1>4. Log!STATUS_TRANSITION_ROLES = STATUS_TRANSITION_ROLES
  BY <1>1, <1>3 DEF Log!STATUS_TRANSITION_ROLES, STATUS_TRANSITION_ROLES
<1>5. \A from, to, by : Log!Change(from, to, by) = Change(from, to, by)
  BY DEF Log!Change, Change
<1>6. \A by : Log!Opening(by) = Opening(by)
  BY <1>5 DEF Log!Opening, Opening
<1>7. QED BY <1>1, <1>2, <1>4, <1>5, <1>6

\* A permitted change extends one log by one entry.
LEMMA WriteStatusExtends ==
  ASSUME TimelineInv, NEW t \in DOMAIN tickets, NEW from \in TicketStatus,
         NEW to \in VALID_TRANSITIONS[from], NEW by \in Staff,
         to \in TicketStatus,
         RoleOf[by] \in STATUS_TRANSITION_ROLES[to],
         WriteStatus(t, from, to, by)
  PROVE  Log!Grow
<1>1. t \in TicketId
  BY DEF TimelineInv, TypeOK
<1>2. history[t] # <<>>
  BY DEF TimelineInv, TimelineEndsAtStatus
<1>3. history' = [history EXCEPT ![t] = Append(history[t], Change(from, to, by))]
  BY DEF WriteStatus
<1>4. Log!Extend(t, from, to, by)
  BY <1>2, <1>3, SameTables DEF Log!Extend
<1>5. QED BY <1>1, <1>4, SameTables DEF Log!Grow

\* A new ticket opens the log of an id that had none.
LEMMA OpenTicketOpens ==
  ASSUME TimelineInv, NEW t \in TicketId, NEW b, NEW by \in Staff, NEW action,
         OpenTicket(t, b, by, action)
  PROVE  Log!Grow
<1>1. history[t] = <<>>
  BY DEF TimelineInv, UnopenedIsEmpty, OpenTicket
<1>2. history' = [history EXCEPT ![t] = Append(history[t], Opening(by))]
  BY DEF OpenTicket
<1>3. Append(<<>>, Opening(by)) = <<Opening(by)>>
  OBVIOUS
<1>4. Log!Open(t, by)
  BY <1>1, <1>2, <1>3, SameTables DEF Log!Open
<1>5. QED BY <1>4 DEF Log!Grow

\* Overlapping requests implement the append-only log: no transaction rewrites,
\* drops or reorders an entry, opens a timeline twice, or adds a change the
\* tables refuse.
THEOREM ImplementsTimeline == Spec => KeepsTimeline
<1>1. Init => Log!Empty
  BY DEF Init, Log!Empty
<1>2. TimelineInv /\ [Next]_vars => [Log!Grow]_history
  <2>1. CASE UNCHANGED vars
    BY <2>1 DEF vars
  <2>2. ASSUME TimelineInv, Next PROVE [Log!Grow]_history
    <3>1. OpensOne \/ MovesOne \/ LeavesTimeline
      BY <2>2, StepEffect DEF Next, TimelineInv
    <3>2. CASE OpensOne
      BY <2>2, <3>2, OpenTicketOpens DEF OpensOne
    <3>3. CASE MovesOne
      BY <2>2, <3>3, WriteStatusExtends DEF MovesOne
    <3>4. CASE LeavesTimeline
      BY <3>4 DEF LeavesTimeline
    <3>5. QED BY <3>1, <3>2, <3>3, <3>4
  <2>3. QED BY <2>1, <2>2
<1>3. QED BY <1>1, <1>2, TimelineInvariant, PTL DEF Spec, KeepsTimeline, Log!Spec

-----------------------------------------------------------------------------
(* Ticket numbers *)

LEMMA NumbersStep ==
  ASSUME TypeOK, NumbersAreSequential, [Next]_vars
  PROVE  NumbersAreSequential'
<1>1. ASSUME NEW t \in TicketId, NEW b, NEW by, NEW action, OpenTicket(t, b, by, action)
      PROVE  NumbersAreSequential'
  <2>1. /\ DOMAIN tickets' = DOMAIN tickets \cup {t}
        /\ t \notin DOMAIN tickets
        /\ tickets'[t].number = counter + 1
        /\ \A x \in DOMAIN tickets : tickets'[x] = tickets[x]
        /\ counter' = counter + 1
    BY <1>1 DEF OpenTicket
  <2>2. \A x \in DOMAIN tickets : tickets[x].number \in 1..counter
    BY DEF NumbersAreSequential
  <2>3. counter \in Nat /\ 1..(counter + 1) = 1..counter \cup {counter + 1} /\ counter + 1 \notin 1..counter
    BY DEF TypeOK
  <2>4. {tickets'[x].number : x \in DOMAIN tickets'} = 1..counter'
    BY <2>1, <2>3 DEF NumbersAreSequential
  <2>5. \A x, y \in DOMAIN tickets' : tickets'[x].number = tickets'[y].number => x = y
    BY <2>1, <2>2, <2>3 DEF NumbersAreSequential
  <2>6. QED BY <2>4, <2>5 DEF NumbersAreSequential
<1>2. ASSUME counter' = counter, DOMAIN tickets' = DOMAIN tickets,
             \A x \in DOMAIN tickets : tickets'[x].number = tickets[x].number
      PROVE  NumbersAreSequential'
  BY <1>2 DEF NumbersAreSequential
<1>3. \A x \in DOMAIN tickets : tickets[x] \in Ticket
  BY DEF TypeOK
<1>4. ASSUME NEW t, NEW from, NEW to, NEW by, WriteStatus(t, from, to, by), counter' = counter
      PROVE  NumbersAreSequential'
  <2>1. tickets' = [tickets EXCEPT ![t] = Moved(tickets[t], to, by)]
    BY <1>4 DEF WriteStatus
  <2>2. t \in DOMAIN tickets => Moved(tickets[t], to, by).number = tickets[t].number
    BY <1>3 DEF Moved, Ticket
  <2>3. QED BY <1>2, <1>4, <2>1, <2>2
<1>5. ASSUME NEW w \in Worker, Begin(w) PROVE NumbersAreSequential'
  BY <1>2, <1>5 DEF Begin, BeginCreate, BeginToggle, BeginReopen, BeginUpdateStatus,
                    BeginDeliver, BeginAssign, BeginDiagnose, Receive
<1>6. ASSUME NEW w \in Worker, Finish(w) PROVE NumbersAreSequential'
  <2>1. CASE CommitCreate(w) \/ CommitReopen(w)
    BY <1>1, <2>1 DEF CommitCreate, CommitReopen
  <2>2. CASE CommitStatus(w)
    BY <1>4, <2>2 DEF CommitStatus
  <2>3. CASE CommitDiagnosis(w)
    BY <1>2, <1>4, <2>3 DEF CommitDiagnosis
  <2>4. CASE CommitAssign(w)
    <3>1. /\ tickets' = [tickets EXCEPT ![req[w].ticket].assignedTechnician = req[w].technician]
          /\ counter' = counter
      BY <2>4 DEF CommitAssign
    <3>2. \A x \in DOMAIN tickets : tickets'[x].number = tickets[x].number
      BY <1>3, <3>1 DEF Ticket
    <3>3. QED BY <1>2, <3>1, <3>2
  <2>5. CASE CommitToggle(w) \/ FindOpenAssignments(w) \/ FindDiagnosis(w) \/ Abort(w)
    BY <1>2, <2>5 DEF CommitToggle, FindOpenAssignments, FindDiagnosis, Abort
  <2>6. QED BY <1>6, <2>1, <2>2, <2>3, <2>4, <2>5 DEF Finish
<1>7. CASE UNCHANGED vars
  BY <1>2, <1>7 DEF vars
<1>8. QED BY <1>5, <1>6, <1>7 DEF Next

\* Ticket numbers are exactly 1..counter, each on one ticket, however many
\* intakes and reopenings race or are rolled back.
THEOREM NumbersStaySequential == Spec => []NumbersAreSequential
<1>1. Init => NumbersAreSequential
  <2>1. Init => DOMAIN tickets = {} /\ counter = 0
    BY DEF Init
  <2>2. 1..0 = {}
    OBVIOUS
  <2>3. QED BY <2>1, <2>2 DEF NumbersAreSequential
<1>2. QED BY <1>1, NumbersStep, TypeCorrect, PTL DEF Spec

-----------------------------------------------------------------------------
(* Assignment rows *)

LEMMA ReassignedOpens ==
  ASSUME NEW rows \in Seq(Assignment), NEW closing, NEW tech
  PROVE  /\ Len(Reassigned(rows, closing, tech)) = Len(rows) + 1
         /\ Len(rows) + 1 \in DOMAIN Reassigned(rows, closing, tech)
         /\ Reassigned(rows, closing, tech)[Len(rows) + 1] = [technician |-> tech, open |-> TRUE]
<1> DEFINE kept == [i \in 1..Len(rows) |-> [rows[i] EXCEPT !.open = @ /\ i \notin closing]]
<1>1. Len(rows) \in Nat
  OBVIOUS
<1>2. kept \in Seq({kept[i] : i \in 1..Len(rows)}) /\ Len(kept) = Len(rows)
  BY <1>1
<1> HIDE DEF kept
<1>3. QED BY <1>1, <1>2 DEF Reassigned, kept

\* A step that writes no assignment and keeps the tickets' technicians.
LEMMA AssigneeQuiet ==
  ASSUME AssigneeHasOpenRow, UNCHANGED assignments, DOMAIN tickets' = DOMAIN tickets,
         \A t \in DOMAIN tickets : tickets'[t].assignedTechnician = tickets[t].assignedTechnician
  PROVE  AssigneeHasOpenRow'
BY DEF AssigneeHasOpenRow

LEMMA WriteStatusAssignee ==
  ASSUME TypeOK, NEW t, NEW from, NEW to, NEW by, WriteStatus(t, from, to, by)
  PROVE  /\ DOMAIN tickets' = DOMAIN tickets
         /\ \A x \in DOMAIN tickets :
              tickets'[x].assignedTechnician = tickets[x].assignedTechnician
<1>1. tickets' = [tickets EXCEPT ![t] = Moved(tickets[t], to, by)]
  BY DEF WriteStatus
<1>2. \A x \in DOMAIN tickets : tickets[x] \in Ticket
  BY DEF TypeOK
<1>3. t \in DOMAIN tickets =>
        Moved(tickets[t], to, by).assignedTechnician = tickets[t].assignedTechnician
  BY <1>2 DEF Moved, Ticket
<1>4. QED BY <1>1, <1>3

LEMMA AssigneeStep ==
  ASSUME TypeOK, AssigneeHasOpenRow, [Next]_vars
  PROVE  AssigneeHasOpenRow'
<1>1. ASSUME NEW t, NEW b, NEW by, NEW action, OpenTicket(t, b, by, action)
      PROVE  AssigneeHasOpenRow'
  <2>1. /\ DOMAIN tickets' = DOMAIN tickets \cup {t}
        /\ tickets'[t].assignedTechnician = Nobody
        /\ \A x \in DOMAIN tickets : x # t => tickets'[x] = tickets[x]
        /\ UNCHANGED assignments
    BY <1>1 DEF OpenTicket
  <2>2. QED BY <2>1 DEF AssigneeHasOpenRow
<1>2. ASSUME NEW w \in Worker, Begin(w) PROVE AssigneeHasOpenRow'
  BY <1>2, AssigneeQuiet DEF Begin, BeginCreate, BeginToggle, BeginReopen, BeginUpdateStatus,
                             BeginDeliver, BeginAssign, BeginDiagnose, Receive
<1>3. ASSUME NEW w \in Worker, Finish(w) PROVE AssigneeHasOpenRow'
  <2>1. CASE CommitCreate(w) \/ CommitReopen(w)
    BY <1>1, <2>1 DEF CommitCreate, CommitReopen
  <2>2. CASE CommitStatus(w)
    BY <2>2, WriteStatusAssignee, AssigneeQuiet DEF CommitStatus
  <2>3. CASE CommitDiagnosis(w)
    BY <2>3, WriteStatusAssignee, AssigneeQuiet DEF CommitDiagnosis
  <2>4. CASE CommitAssign(w)
    <3> DEFINE r == req[w]
               rows == assignments[r.ticket]
    <3>1. r.ticket \in TicketId /\ r.technician \in Staff
      BY <2>4, RequestFields DEF CommitAssign
    <3>2. rows \in Seq(Assignment)
      BY <3>1 DEF TypeOK
    <3>3. /\ assignments' = [assignments EXCEPT ![r.ticket] = Reassigned(rows, r.closing, r.technician)]
          /\ tickets' = [tickets EXCEPT ![r.ticket].assignedTechnician = r.technician]
      BY <2>4 DEF CommitAssign
    <3>4. /\ assignments'[r.ticket] = Reassigned(rows, r.closing, r.technician)
          /\ \A x \in TicketId : x # r.ticket => assignments'[x] = assignments[x]
      BY <3>1, <3>3 DEF TypeOK
    <3>5. /\ DOMAIN tickets' = DOMAIN tickets
          /\ \A x \in DOMAIN tickets : x # r.ticket => tickets'[x] = tickets[x]
      BY <3>3
    <3>6. r.ticket \in DOMAIN tickets => tickets'[r.ticket].assignedTechnician = r.technician
      BY <3>3 DEF TypeOK, Ticket
    <3>7. Len(rows) + 1 \in DOMAIN assignments'[r.ticket]
          /\ assignments'[r.ticket][Len(rows) + 1] = [technician |-> r.technician, open |-> TRUE]
      BY <3>2, <3>4, ReassignedOpens
    <3>8. DOMAIN tickets \subseteq TicketId
      BY DEF TypeOK
    <3> HIDE DEF r, rows
    <3>9. QED BY <3>4, <3>5, <3>6, <3>7, <3>8 DEF AssigneeHasOpenRow
  <2>5. CASE CommitToggle(w) \/ FindOpenAssignments(w) \/ FindDiagnosis(w) \/ Abort(w)
    BY <2>5, AssigneeQuiet DEF CommitToggle, FindOpenAssignments, FindDiagnosis, Abort
  <2>6. QED BY <1>3, <2>1, <2>2, <2>3, <2>4, <2>5 DEF Finish
<1>4. CASE UNCHANGED vars
  BY <1>4, AssigneeQuiet DEF vars
<1>5. QED BY <1>2, <1>3, <1>4 DEF Next

\* The technician a ticket names always has an assignment row still open, even
\* when two assignments closed the rows they saw and not each other's.
THEOREM AssigneesAreOpen == Spec => []AssigneeHasOpenRow
<1>1. Init => AssigneeHasOpenRow
  <2>1. Init => DOMAIN tickets = {}
    BY DEF Init
  <2>2. QED BY <2>1 DEF AssigneeHasOpenRow
<1>2. QED BY <1>1, AssigneeStep, TypeCorrect, PTL DEF Spec

-----------------------------------------------------------------------------
(* The audit trail *)

\* TrailIsComplete, of one ticket.
Complete(counts, changes, jobs, findings) ==
  /\ counts["CREATE_REPAIR_TICKET"] + counts["REOPEN_TICKET"]
       + counts["UPDATE_TICKET_STATUS"] = changes
  /\ counts["ASSIGN_TECHNICIAN"] = jobs
  /\ counts["JOB_ASSIGNED"] = jobs
  /\ counts["ADD_DIAGNOSIS"] >= findings

LEMMA CompleteAtFirst ==
  ASSUME NEW counts, \A k \in SideRow : counts[k] = 0
  PROVE  Complete(counts, 0, 0, 0)
BY DEF Complete, SideRow

\* The counts of one ticket once a handler has added to its trail.
Counted(counts, kinds) == [k \in SideRow |-> IF k \in kinds THEN counts[k] + 1 ELSE counts[k]]

\* Each handler adds the kinds of rows that go with the rows it writes.
LEMMA HandlersCount ==
  ASSUME NEW counts \in [SideRow -> Nat], NEW n \in Nat, NEW m \in Nat, NEW d \in Nat,
         Complete(counts, n, m, d)
  PROVE  /\ \A action \in {"CREATE_REPAIR_TICKET", "REOPEN_TICKET"} :
              Complete(Counted(counts, {action}), n + 1, m, d)
         /\ \A more \in SUBSET {"REPAIR_COMPLETE"} :
              Complete(Counted(counts, {"UPDATE_TICKET_STATUS"} \cup more), n + 1, m, d)
         /\ Complete(Counted(counts, {"ASSIGN_TECHNICIAN", "JOB_ASSIGNED"}), n, m + 1, d)
         /\ \A e \in {d, d + 1} :
              /\ Complete(Counted(counts, {"ADD_DIAGNOSIS"}), n, m, e)
              /\ Complete(Counted(counts, {"ADD_DIAGNOSIS", "UPDATE_TICKET_STATUS"}), n + 1, m, e)
<1>1. Complete(Counted(counts, {"CREATE_REPAIR_TICKET"}), n + 1, m, d)
  BY DEF Complete, Counted, SideRow
<1>2. Complete(Counted(counts, {"REOPEN_TICKET"}), n + 1, m, d)
  BY DEF Complete, Counted, SideRow
<1>3. ASSUME NEW more \in SUBSET {"REPAIR_COMPLETE"}
      PROVE  Complete(Counted(counts, {"UPDATE_TICKET_STATUS"} \cup more), n + 1, m, d)
  BY DEF Complete, Counted, SideRow
<1>4. Complete(Counted(counts, {"ASSIGN_TECHNICIAN", "JOB_ASSIGNED"}), n, m + 1, d)
  BY DEF Complete, Counted, SideRow
<1>5. ASSUME NEW e \in {d, d + 1} PROVE Complete(Counted(counts, {"ADD_DIAGNOSIS"}), n, m, e)
  BY DEF Complete, Counted, SideRow
<1>6. ASSUME NEW e \in {d, d + 1}
      PROVE  Complete(Counted(counts, {"ADD_DIAGNOSIS", "UPDATE_TICKET_STATUS"}), n + 1, m, e)
  BY DEF Complete, Counted, SideRow
<1>7. QED BY <1>1, <1>2, <1>3, <1>4, <1>5, <1>6

\* What one handler adds to the trail of one ticket.
LEMMA TrailAdds ==
  ASSUME TypeOK, NEW t \in TicketId, NEW kinds, Trail(t, kinds)
  PROVE  /\ \A x \in TicketId : x # t => logged'[x] = logged[x]
         /\ logged'[t] = Counted(logged[t], kinds)
         /\ logged[t] \in [SideRow -> Nat]
BY DEF TypeOK, Trail, Counted

LEMMA CompleteOf ==
  TrailIsComplete <=>
    \A t \in TicketId :
      Complete(logged[t], Len(history[t]), Len(assignments[t]), Len(diagnoses[t]))
BY DEF TrailIsComplete, Complete

\* A step that writes only the rows of ticket t, and its trail with them.
LEMMA TrailOfOne ==
  ASSUME TypeOK, TrailIsComplete, NEW t \in TicketId, NEW kinds, Trail(t, kinds),
         \A x \in TicketId : x # t => /\ history'[x] = history[x]
                                     /\ assignments'[x] = assignments[x]
                                     /\ diagnoses'[x] = diagnoses[x],
         Complete(logged'[t], Len(history'[t]), Len(assignments'[t]), Len(diagnoses'[t]))
  PROVE  TrailIsComplete'
<1>1. \A x \in TicketId : x # t => logged'[x] = logged[x]
  BY TrailAdds
<1>2. \A x \in TicketId :
        Complete(logged'[x], Len(history'[x]), Len(assignments'[x]), Len(diagnoses'[x]))
  BY <1>1, CompleteOf
<1>3. QED BY <1>2 DEF TrailIsComplete, Complete

LEMMA TrailStep ==
  ASSUME TypeOK, TrailIsComplete, [Next]_vars
  PROVE  TrailIsComplete'
<1>a. ASSUME NEW t \in TicketId
      PROVE  /\ history[t] \in Seq(StatusChange) /\ assignments[t] \in Seq(Assignment)
             /\ diagnoses[t] \in Seq(Diagnosis)
             /\ Len(history[t]) \in Nat /\ Len(assignments[t]) \in Nat /\ Len(diagnoses[t]) \in Nat
             /\ Complete(logged[t], Len(history[t]), Len(assignments[t]), Len(diagnoses[t]))
  BY CompleteOf DEF TypeOK
<1>b. ASSUME NEW t \in TicketId, NEW from, NEW to, NEW by, WriteStatus(t, from, to, by)
      PROVE  /\ Len(history'[t]) = Len(history[t]) + 1
             /\ \A x \in TicketId : x # t => history'[x] = history[x]
  BY <1>a, <1>b DEF WriteStatus, TypeOK
<1>1. ASSUME NEW t \in TicketId, NEW b, NEW by, NEW action \in {"CREATE_REPAIR_TICKET", "REOPEN_TICKET"},
             OpenTicket(t, b, by, action)
      PROVE  TrailIsComplete'
  <2>1. /\ Len(history'[t]) = Len(history[t]) + 1
        /\ \A x \in TicketId : x # t => history'[x] = history[x]
        /\ UNCHANGED <<assignments, diagnoses>>
        /\ Trail(t, {action})
    BY <1>1, <1>a DEF OpenTicket, TypeOK
  <2>2. Complete(logged'[t], Len(history'[t]), Len(assignments'[t]), Len(diagnoses'[t]))
    <3>1. logged'[t] = Counted(logged[t], {action}) /\ logged[t] \in [SideRow -> Nat]
      BY <2>1, TrailAdds
    <3>2. Complete(Counted(logged[t], {action}), Len(history[t]) + 1, Len(assignments[t]), Len(diagnoses[t]))
      BY <1>a, <2>1, <3>1, HandlersCount
    <3>3. QED BY <2>1, <2>1, <3>1, <3>2
  <2>3. QED BY <2>1, <2>2, TrailOfOne
<1>2. ASSUME UNCHANGED <<history, assignments, diagnoses, logged>> PROVE TrailIsComplete'
  BY <1>2 DEF TrailIsComplete
<1>3. ASSUME NEW w \in Worker, Begin(w) PROVE TrailIsComplete'
  BY <1>2, <1>3 DEF Begin, BeginCreate, BeginToggle, BeginReopen, BeginUpdateStatus,
                    BeginDeliver, BeginAssign, BeginDiagnose, Receive
<1>4. ASSUME NEW w \in Worker, Finish(w) PROVE TrailIsComplete'
  <2> DEFINE r == req[w]
  <2>1. CASE CommitCreate(w) \/ CommitReopen(w)
    <3>1. PICK t \in TicketId, action \in {"CREATE_REPAIR_TICKET", "REOPEN_TICKET"} :
            OpenTicket(t, r.branch, r.actor, action)
      BY <2>1 DEF CommitCreate, CommitReopen
    <3>2. QED BY <1>1, <3>1
  <2>2. CASE CommitStatus(w)
    <3>1. r.ticket \in TicketId
      BY <2>2, RequestFields DEF CommitStatus
    <3>2. PICK more \in SUBSET {"REPAIR_COMPLETE"} :
            Trail(r.ticket, {"UPDATE_TICKET_STATUS"} \cup more)
      BY <2>2 DEF CommitStatus
    <3>3. /\ Len(history'[r.ticket]) = Len(history[r.ticket]) + 1
          /\ \A x \in TicketId : x # r.ticket => history'[x] = history[x]
          /\ UNCHANGED <<assignments, diagnoses>>
      BY <1>b, <2>2, <3>1 DEF CommitStatus
    <3>4. Complete(logged'[r.ticket], Len(history'[r.ticket]),
                   Len(assignments'[r.ticket]), Len(diagnoses'[r.ticket]))
      <4>1. logged'[r.ticket] = Counted(logged[r.ticket], {"UPDATE_TICKET_STATUS"} \cup more) /\ logged[r.ticket] \in [SideRow -> Nat]
        BY <3>1, <3>2, TrailAdds
      <4>2. Complete(Counted(logged[r.ticket], {"UPDATE_TICKET_STATUS"} \cup more), Len(history[r.ticket]) + 1, Len(assignments[r.ticket]), Len(diagnoses[r.ticket]))
        BY <1>a, <3>1, <3>3, <4>1, HandlersCount
      <4>3. QED BY <3>1, <3>2, <3>1, <3>3, <4>1, <4>2
    <3>5. QED BY <3>1, <3>2, <3>3, <3>4, TrailOfOne
  <2>3. CASE CommitDiagnosis(w)
    <3> DEFINE rows == diagnoses[r.ticket]
    <3>1. r.ticket \in TicketId
      BY <2>3, RequestFields DEF CommitDiagnosis
    <3>2. rows \in Seq(Diagnosis) /\ Len(rows) \in Nat
      BY <1>a, <3>1
    <3>3. /\ Len(diagnoses'[r.ticket]) \in {Len(rows), Len(rows) + 1}
          /\ \A x \in TicketId : x # r.ticket => diagnoses'[x] = diagnoses[x]
          /\ UNCHANGED assignments
      <4> DEFINE row == [technician |-> r.actor]
      <4>1. diagnoses' = [diagnoses EXCEPT ![r.ticket] =
                            IF r.existing = 0 THEN Append(rows, row) ELSE [rows EXCEPT ![r.existing] = row]]
        BY <2>3 DEF CommitDiagnosis
      <4>2. Len(Append(rows, row)) = Len(rows) + 1 /\ Len([rows EXCEPT ![r.existing] = row]) = Len(rows)
        BY <3>2
      <4> HIDE DEF row
      <4>3. QED BY <2>3, <3>1, <4>1, <4>2 DEF CommitDiagnosis, TypeOK
    <3>4. CASE Moves(r)
      <4>1. /\ WriteStatus(r.ticket, "DIAGNOSING", r.target, r.actor)
            /\ Trail(r.ticket, {"ADD_DIAGNOSIS", "UPDATE_TICKET_STATUS"})
        BY <2>3, <3>4 DEF CommitDiagnosis
      <4>2. /\ Len(history'[r.ticket]) = Len(history[r.ticket]) + 1
            /\ \A x \in TicketId : x # r.ticket => history'[x] = history[x]
        BY <1>b, <3>1, <4>1
      <4>3. Complete(logged'[r.ticket], Len(history'[r.ticket]),
                     Len(assignments'[r.ticket]), Len(diagnoses'[r.ticket]))
        <5>1. logged'[r.ticket] = Counted(logged[r.ticket], {"ADD_DIAGNOSIS", "UPDATE_TICKET_STATUS"}) /\ logged[r.ticket] \in [SideRow -> Nat]
          BY <3>1, <4>1, TrailAdds
        <5>2. Complete(Counted(logged[r.ticket], {"ADD_DIAGNOSIS", "UPDATE_TICKET_STATUS"}), Len(history[r.ticket]) + 1, Len(assignments[r.ticket]), Len(diagnoses'[r.ticket]))
          BY <1>a, <3>1, <3>3, <4>2, <5>1, HandlersCount
        <5>3. QED BY <3>1, <4>1, <3>1, <3>3, <4>2, <5>1, <5>2
      <4>4. QED BY <3>1, <3>3, <4>1, <4>2, <4>3, TrailOfOne
    <3>5. CASE ~Moves(r)
      <4>1. Trail(r.ticket, {"ADD_DIAGNOSIS"}) /\ UNCHANGED history
        BY <2>3, <3>5 DEF CommitDiagnosis
      <4>2. Complete(logged'[r.ticket], Len(history'[r.ticket]),
                     Len(assignments'[r.ticket]), Len(diagnoses'[r.ticket]))
        <5>1. logged'[r.ticket] = Counted(logged[r.ticket], {"ADD_DIAGNOSIS"}) /\ logged[r.ticket] \in [SideRow -> Nat]
          BY <3>1, <4>1, TrailAdds
        <5>2. Complete(Counted(logged[r.ticket], {"ADD_DIAGNOSIS"}), Len(history[r.ticket]), Len(assignments[r.ticket]), Len(diagnoses'[r.ticket]))
          BY <1>a, <3>1, <3>3, <4>1, <5>1, HandlersCount
        <5>3. QED BY <3>1, <4>1, <3>1, <3>3, <4>1, <5>1, <5>2
      <4>3. QED BY <3>1, <3>3, <4>1, <4>2, TrailOfOne
    <3>6. QED BY <3>4, <3>5
  <2>4. CASE CommitAssign(w)
    <3>1. r.ticket \in TicketId
      BY <2>4, RequestFields DEF CommitAssign
    <3>2. /\ assignments' = [assignments EXCEPT ![r.ticket] =
                               Reassigned(assignments[r.ticket], r.closing, r.technician)]
          /\ Trail(r.ticket, {"ASSIGN_TECHNICIAN", "JOB_ASSIGNED"})
          /\ UNCHANGED <<history, diagnoses>>
      BY <2>4 DEF CommitAssign
    <3>3. /\ Len(assignments'[r.ticket]) = Len(assignments[r.ticket]) + 1
          /\ \A x \in TicketId : x # r.ticket => assignments'[x] = assignments[x]
      BY <1>a, <3>1, <3>2, ReassignedOpens DEF TypeOK
    <3>4. Complete(logged'[r.ticket], Len(history'[r.ticket]),
                   Len(assignments'[r.ticket]), Len(diagnoses'[r.ticket]))
      <4>1. logged'[r.ticket] = Counted(logged[r.ticket], {"ASSIGN_TECHNICIAN", "JOB_ASSIGNED"}) /\ logged[r.ticket] \in [SideRow -> Nat]
        BY <3>1, <3>2, TrailAdds
      <4>2. Complete(Counted(logged[r.ticket], {"ASSIGN_TECHNICIAN", "JOB_ASSIGNED"}), Len(history[r.ticket]), Len(assignments[r.ticket]) + 1, Len(diagnoses[r.ticket]))
        BY <1>a, <3>1, <3>2, <3>3, <4>1, HandlersCount
      <4>3. QED BY <3>1, <3>2, <3>1, <3>2, <3>3, <4>1, <4>2
    <3>5. QED BY <3>1, <3>2, <3>3, <3>4, TrailOfOne
  <2>5. CASE CommitToggle(w) \/ FindOpenAssignments(w) \/ FindDiagnosis(w) \/ Abort(w)
    BY <1>2, <2>5 DEF CommitToggle, FindOpenAssignments, FindDiagnosis, Abort
  <2>6. QED BY <1>4, <2>1, <2>2, <2>3, <2>4, <2>5 DEF Finish
<1>5. CASE UNCHANGED vars
  BY <1>2, <1>5 DEF vars
<1>6. QED BY <1>3, <1>4, <1>5 DEF Next

\* Audit rows and notifications account one for one for the rows the handlers
\* write, whichever transactions overlap or are rolled back.
THEOREM TrailsAreComplete == Spec => []TrailIsComplete
<1>1. Init => TrailIsComplete
  <2>1. SUFFICES ASSUME Init, NEW t \in TicketId
        PROVE Complete(logged[t], Len(history[t]), Len(assignments[t]), Len(diagnoses[t]))
    BY CompleteOf
  <2>2. /\ history[t] = <<>> /\ assignments[t] = <<>> /\ diagnoses[t] = <<>>
        /\ \A k \in SideRow : logged[t][k] = 0
    BY <2>1 DEF Init
  <2>3. QED BY <2>2, CompleteAtFirst
<1>2. QED BY <1>1, TrailStep, TypeCorrect, PTL DEF Spec

-----------------------------------------------------------------------------
(* The stamps of the stages *)

\* StagesAreStamped, of a status and the stamps of its row.
Stamped(s, stamps) ==
  /\ s \notin {"RECEIVED", "CANCELLED"} => "diagnosisStartedAt" \in stamps
  /\ s \in {"REPAIR_IN_PROGRESS", "PARTS_REQUIRED"} => "repairStartedAt" \in stamps
  /\ s \in {"READY_FOR_COLLECTION", "DELIVERED"} => "readyAt" \in stamps
  /\ s = "DELIVERED" => "deliveredAt" \in stamps

\* The status a request has read is one whose stages its ticket has stamped:
\* stamps are never taken back, so a stale reading stays covered.
ReadingsAreStamped ==
  \A w \in Worker :
    req[w].op \in {"status", "deliver", "diagnose", "diagnoseWrite"} =>
      /\ req[w].ticket \in DOMAIN tickets
      /\ Stamped(req[w].seen, tickets[req[w].ticket].stamps)

StampsInv == TimelineInv /\ ReadingsAreStamped /\ StagesAreStamped

\* A step of the state machine from a stamped status reaches a stamped one.
LEMMA TransitionsStamp ==
  ASSUME NEW from \in TicketStatus, NEW to \in VALID_TRANSITIONS[from], NEW stamps, NEW more,
         Stamped(from, stamps), stamps \subseteq more
  PROVE  Stamped(to, more \cup StampOf(to))
BY DEF Stamped, StampOf, VALID_TRANSITIONS, TicketStatus

LEMMA StampsStage ==
  StagesAreStamped <=>
    \A t \in DOMAIN tickets :
      /\ Stamped(tickets[t].status, tickets[t].stamps)
      /\ tickets[t].status = "DELIVERED" => tickets[t].deliveredBy # Nobody
BY DEF StagesAreStamped, Stamped

\* A change the tables permit, from a reading that was stamped.
LEMMA WriteStatusStamps ==
  ASSUME TypeOK, StagesAreStamped, NEW t \in DOMAIN tickets, NEW from \in TicketStatus,
         NEW to \in VALID_TRANSITIONS[from], NEW by \in Staff, WriteStatus(t, from, to, by),
         Stamped(from, tickets[t].stamps)
  PROVE  /\ DOMAIN tickets' = DOMAIN tickets
         /\ \A x \in DOMAIN tickets : tickets[x].stamps \subseteq tickets'[x].stamps
         /\ StagesAreStamped'
<1>1. tickets' = [tickets EXCEPT ![t] = Moved(tickets[t], to, by)]
  BY DEF WriteStatus
<1>2. tickets[t] \in Ticket
  BY DEF TypeOK
<1>3. /\ tickets'[t].status = to
      /\ tickets'[t].stamps = tickets[t].stamps \cup StampOf(to)
      /\ to = "DELIVERED" => tickets'[t].deliveredBy = by
  BY <1>1, <1>2 DEF Moved, Ticket
<1>4. DOMAIN tickets' = DOMAIN tickets /\ \A x \in DOMAIN tickets : x # t => tickets'[x] = tickets[x]
  BY <1>1
<1>5. Stamped(to, tickets[t].stamps \cup StampOf(to))
  BY TransitionsStamp
<1>6. \A x \in DOMAIN tickets' :
        /\ Stamped(tickets'[x].status, tickets'[x].stamps)
        /\ tickets'[x].status = "DELIVERED" => tickets'[x].deliveredBy # Nobody
  BY <1>3, <1>4, <1>5, StampsStage, StaffAssumption
<1>7. StagesAreStamped'
  BY <1>6 DEF StagesAreStamped, Stamped
<1>8. QED BY <1>3, <1>4, <1>7

\* A request received with a stamped reading, or answered, while stamps grow.
LEMMA ReadingsStep ==
  ASSUME TypeOK, ReadingsAreStamped, NEW w \in Worker, NEW r, req' = [req EXCEPT ![w] = r],
         DOMAIN tickets \subseteq DOMAIN tickets',
         \A x \in DOMAIN tickets : tickets[x].stamps \subseteq tickets'[x].stamps,
         r.op \in {"status", "deliver", "diagnose", "diagnoseWrite"} =>
           r.ticket \in DOMAIN tickets /\ Stamped(r.seen, tickets[r.ticket].stamps)
  PROVE  ReadingsAreStamped'
<1>1. \A v \in Worker : req'[v] = IF v = w THEN r ELSE req[v]
  BY DEF TypeOK
<1>2. ASSUME NEW v \in Worker,
             req'[v].op \in {"status", "deliver", "diagnose", "diagnoseWrite"}
      PROVE  /\ req'[v].ticket \in DOMAIN tickets'
             /\ Stamped(req'[v].seen, tickets'[req'[v].ticket].stamps)
  <2>1. /\ req'[v].ticket \in DOMAIN tickets
        /\ Stamped(req'[v].seen, tickets[req'[v].ticket].stamps)
    BY <1>1, <1>2 DEF ReadingsAreStamped
  <2>2. tickets[req'[v].ticket].stamps \subseteq tickets'[req'[v].ticket].stamps
    BY <2>1
  <2>3. QED BY <2>1, <2>2 DEF Stamped
<1>3. QED BY <1>2 DEF ReadingsAreStamped

LEMMA AnswerStamps ==
  ASSUME TypeOK, ReadingsAreStamped, NEW w \in Worker, Answer(w),
         DOMAIN tickets \subseteq DOMAIN tickets',
         \A x \in DOMAIN tickets : tickets[x].stamps \subseteq tickets'[x].stamps
  PROVE  ReadingsAreStamped'
BY ReadingsStep DEF Answer, Idle

LEMMA BeginStamps ==
  ASSUME StampsInv, NEW w \in Worker, Begin(w)
  PROVE  ReadingsAreStamped' /\ StagesAreStamped'
<1>1. UNCHANGED tickets
  BY DEF Begin, BeginCreate, BeginToggle, BeginReopen, BeginUpdateStatus, BeginDeliver,
         BeginAssign, BeginDiagnose, Receive
<1>2. StagesAreStamped'
  BY <1>1 DEF StampsInv, StagesAreStamped
<1>3. TypeOK /\ ReadingsAreStamped
  BY DEF StampsInv, TimelineInv
<1>4. ASSUME NEW t \in DOMAIN tickets PROVE Stamped(tickets[t].status, tickets[t].stamps)
  BY StampsStage DEF StampsInv
<1>5. PICK u \in Staff :
        \/ \E b \in Branch : BeginCreate(w, u, b)
        \/ \E b \in Branch, isActive \in BOOLEAN : BeginToggle(w, u, b, isActive)
        \/ \E t \in TicketId :
             \/ BeginReopen(w, u, t)
             \/ \E target \in TicketStatus : BeginUpdateStatus(w, u, t, target)
             \/ BeginDeliver(w, u, t)
             \/ \E tech \in Staff : BeginAssign(w, u, t, tech)
             \/ \E f \in Feasibility : BeginDiagnose(w, u, t, f)
  BY DEF Begin
<1>6. CASE \/ \E b \in Branch : BeginCreate(w, u, b)
           \/ \E b \in Branch, isActive \in BOOLEAN : BeginToggle(w, u, b, isActive)
  BY <1>1, <1>2, <1>3, <1>6, ReadingsStep DEF BeginCreate, BeginToggle, Receive
<1>7. ASSUME NEW t \in TicketId, BeginReopen(w, u, t) PROVE ReadingsAreStamped'
  BY <1>1, <1>3, <1>7, ReadingsStep DEF BeginReopen, Receive
<1>8. ASSUME NEW t \in TicketId, NEW target, BeginUpdateStatus(w, u, t, target)
      PROVE  ReadingsAreStamped'
  BY <1>1, <1>3, <1>4, <1>8, ReadingsStep DEF BeginUpdateStatus, CanOpen, Receive
<1>9. ASSUME NEW t \in TicketId, BeginDeliver(w, u, t) PROVE ReadingsAreStamped'
  BY <1>1, <1>3, <1>4, <1>9, ReadingsStep DEF BeginDeliver, CanOpen, Receive
<1>10. ASSUME NEW t \in TicketId, NEW tech, BeginAssign(w, u, t, tech) PROVE ReadingsAreStamped'
  BY <1>1, <1>3, <1>10, ReadingsStep DEF BeginAssign, Receive
<1>11. ASSUME NEW t \in TicketId, NEW f, BeginDiagnose(w, u, t, f) PROVE ReadingsAreStamped'
  BY <1>1, <1>3, <1>4, <1>11, ReadingsStep DEF BeginDiagnose, CanOpen, Receive
<1>12. QED BY <1>2, <1>5, <1>6, <1>7, <1>8, <1>9, <1>10, <1>11

LEMMA FinishStamps ==
  ASSUME StampsInv, NEW w \in Worker, Finish(w)
  PROVE  ReadingsAreStamped' /\ StagesAreStamped'
<1> DEFINE r == req[w]
<1>a. TypeOK /\ ReadingsAreStamped /\ StagesAreStamped
  BY DEF StampsInv, TimelineInv
<1>b. r.op \in {"status", "deliver", "diagnose", "diagnoseWrite"} =>
        /\ r.actor \in Staff /\ r.seen \in TicketStatus /\ r.target \in TicketStatus
        /\ r.ticket \in DOMAIN tickets
        /\ Stamped(r.seen, tickets[r.ticket].stamps)
  BY <1>a, RequestFields DEF ReadingsAreStamped
<1>c. /\ r.op \in {"status", "deliver"} => r.target \in VALID_TRANSITIONS[r.seen]
      /\ r.op = "diagnoseWrite" => r.target \in {"UNREPAIRABLE", "WAITING_FOR_APPROVAL", "DIAGNOSING"}
  BY DEF StampsInv, TimelineInv, RequestsAreLegal
<1>d. ASSUME UNCHANGED tickets PROVE StagesAreStamped'
  BY <1>a, <1>d DEF StagesAreStamped
<1>1. CASE CommitCreate(w) \/ CommitReopen(w)
  <2>1. PICK t \in TicketId, action \in {"CREATE_REPAIR_TICKET", "REOPEN_TICKET"} :
          OpenTicket(t, r.branch, r.actor, action)
    BY <1>1 DEF CommitCreate, CommitReopen
  <2>2. /\ DOMAIN tickets' = DOMAIN tickets \cup {t}
        /\ t \notin DOMAIN tickets
        /\ tickets'[t].status = "RECEIVED"
        /\ \A x \in DOMAIN tickets : tickets'[x] = tickets[x]
    BY <2>1 DEF OpenTicket
  <2>3. StagesAreStamped'
    BY <1>a, <2>2 DEF StagesAreStamped
  <2>4. ReadingsAreStamped'
    BY <1>1, <1>a, <2>2, AnswerStamps DEF CommitCreate, CommitReopen
  <2>5. QED BY <2>3, <2>4
<1>2. CASE CommitStatus(w)
  <2>1. WriteStatus(r.ticket, r.seen, r.target, r.actor) /\ r.op \in {"status", "deliver"} /\ Answer(w)
    BY <1>2 DEF CommitStatus
  <2>2. QED BY <1>a, <1>b, <1>c, <2>1, WriteStatusStamps, AnswerStamps
<1>3. CASE CommitDiagnosis(w)
  <2>1. r.op = "diagnoseWrite" /\ Answer(w)
    BY <1>3 DEF CommitDiagnosis
  <2>2. CASE Moves(r)
    <3>1. WriteStatus(r.ticket, "DIAGNOSING", r.target, r.actor) /\ r.seen = "DIAGNOSING"
      BY <1>3, <2>2 DEF CommitDiagnosis, Moves
    <3>2. r.target \in VALID_TRANSITIONS["DIAGNOSING"] /\ "DIAGNOSING" \in TicketStatus
      BY <1>c, <2>1, <2>2, UncheckedWritesAreLegal DEF Moves, TicketStatus
    <3>3. QED BY <1>a, <1>b, <2>1, <3>1, <3>2, WriteStatusStamps, AnswerStamps
  <2>3. CASE ~Moves(r)
    <3>1. UNCHANGED tickets
      BY <1>3, <2>3 DEF CommitDiagnosis
    <3>2. QED BY <1>a, <1>d, <2>1, <3>1, AnswerStamps
  <2>4. QED BY <2>2, <2>3
<1>4. CASE CommitAssign(w)
  <2>1. tickets' = [tickets EXCEPT ![r.ticket].assignedTechnician = r.technician] /\ Answer(w)
    BY <1>4 DEF CommitAssign
  <2>2. \A x \in DOMAIN tickets : tickets[x] \in Ticket
    BY <1>a DEF TypeOK
  <2>3. DOMAIN tickets' = DOMAIN tickets /\
        \A x \in DOMAIN tickets : /\ tickets'[x].status = tickets[x].status
                                  /\ tickets'[x].stamps = tickets[x].stamps
                                  /\ tickets'[x].deliveredBy = tickets[x].deliveredBy
    BY <2>1, <2>2 DEF Ticket
  <2>4. StagesAreStamped'
    BY <1>a, <2>3 DEF StagesAreStamped
  <2>5. QED BY <1>a, <2>1, <2>3, <2>4, AnswerStamps
<1>5. CASE FindOpenAssignments(w)
  BY <1>5, <1>a, <1>d, ReadingsStep DEF FindOpenAssignments
<1>6. CASE FindDiagnosis(w)
  BY <1>6, <1>a, <1>b, <1>d, ReadingsStep DEF FindDiagnosis
<1>7. CASE CommitToggle(w) \/ Abort(w)
  BY <1>7, <1>a, <1>d, AnswerStamps DEF CommitToggle, Abort
<1>8. QED BY <1>1, <1>2, <1>3, <1>4, <1>5, <1>6, <1>7 DEF Finish

\* No request overwriting another's status brings a ticket to a stage of the
\* repair whose earlier stages were never stamped.
THEOREM StagesAlwaysStamped == Spec => []StagesAreStamped
<1>1. Init => ReadingsAreStamped /\ StagesAreStamped
  BY DEF Init, Idle, ReadingsAreStamped, StagesAreStamped
<1>2. StampsInv /\ [Next]_vars => (ReadingsAreStamped /\ StagesAreStamped)'
  <2>1. CASE UNCHANGED vars
    BY <2>1 DEF vars, StampsInv, ReadingsAreStamped, StagesAreStamped
  <2>2. CASE Next
    BY <2>2, BeginStamps, FinishStamps DEF Next
  <2>3. QED BY <2>1, <2>2
<1>3. QED BY <1>1, <1>2, TimelineInvariant, PTL DEF Spec, StampsInv

-----------------------------------------------------------------------------
(* One request at a time: the state machine *)

\* What the only request has read of a ticket still holds.
ReadingsHold ==
  \A w \in Worker : req[w].op \in Reading => tickets[req[w].ticket].status = req[w].seen

MachineInv == TimelineInv /\ ReadingsHold

\* The statuses as module TicketMachine sees them.
TicketStates == [t \in TicketId |-> IF t \in DOMAIN tickets THEN tickets[t].status ELSE "ABSENT"]

\* The only request goes on: it has read the statuses the tickets have, or nothing.
LEMMA OnlyReading ==
  ASSUME \A v, w \in Worker : v = w, TypeOK, NEW w \in Worker, NEW r,
         req' = [req EXCEPT ![w] = r],
         r.op \in Reading => tickets'[r.ticket].status = r.seen
  PROVE  ReadingsHold'
<1>1. req \in [Worker -> Request]
  BY DEF TypeOK
<1>2. req'[w] = r
  BY <1>1
<1>3. QED BY <1>2 DEF ReadingsHold

LEMMA BeginReads ==
  ASSUME \A v, w \in Worker : v = w, TypeOK, NEW w \in Worker, Begin(w)
  PROVE  ReadingsHold'
<1>1. PICK u \in Staff :
        \/ \E b \in Branch : BeginCreate(w, u, b)
        \/ \E b \in Branch, isActive \in BOOLEAN : BeginToggle(w, u, b, isActive)
        \/ \E t \in TicketId :
             \/ BeginReopen(w, u, t)
             \/ \E target \in TicketStatus : BeginUpdateStatus(w, u, t, target)
             \/ BeginDeliver(w, u, t)
             \/ \E tech \in Staff : BeginAssign(w, u, t, tech)
             \/ \E f \in Feasibility : BeginDiagnose(w, u, t, f)
  BY DEF Begin
<1>2. CASE \/ \E b \in Branch : BeginCreate(w, u, b)
           \/ \E b \in Branch, isActive \in BOOLEAN : BeginToggle(w, u, b, isActive)
  BY <1>2, OnlyReading DEF BeginCreate, BeginToggle, Receive, Reading
<1>3. ASSUME NEW t \in TicketId, BeginReopen(w, u, t) PROVE ReadingsHold'
  BY <1>3, OnlyReading DEF BeginReopen, Receive, Reading
<1>4. ASSUME NEW t \in TicketId, NEW target, BeginUpdateStatus(w, u, t, target)
      PROVE  ReadingsHold'
  BY <1>4, OnlyReading DEF BeginUpdateStatus, Receive
<1>5. ASSUME NEW t \in TicketId, BeginDeliver(w, u, t) PROVE ReadingsHold'
  BY <1>5, OnlyReading DEF BeginDeliver, Receive
<1>6. ASSUME NEW t \in TicketId, NEW tech, BeginAssign(w, u, t, tech) PROVE ReadingsHold'
  BY <1>6, OnlyReading DEF BeginAssign, Receive, Reading
<1>7. ASSUME NEW t \in TicketId, NEW f, BeginDiagnose(w, u, t, f) PROVE ReadingsHold'
  BY <1>7, OnlyReading DEF BeginDiagnose, Receive
<1>8. QED BY <1>1, <1>2, <1>3, <1>4, <1>5, <1>6, <1>7

LEMMA FinishReads ==
  ASSUME \A v, w \in Worker : v = w, TypeOK, ReadingsHold, NEW w \in Worker, Finish(w)
  PROVE  ReadingsHold'
<1>1. ASSUME Answer(w) PROVE ReadingsHold'
  <2>1. Idle.op \notin Reading
    BY DEF Idle, Reading
  <2>2. QED BY <1>1, <2>1, OnlyReading DEF Answer
<1>2. CASE FindOpenAssignments(w)
  BY <1>2, OnlyReading DEF FindOpenAssignments, Reading
<1>3. CASE FindDiagnosis(w)
  <2>1. tickets' = tickets /\ req[w].op \in Reading
    BY <1>3 DEF FindDiagnosis, Reading
  <2>2. tickets[req[w].ticket].status = req[w].seen
    BY <2>1 DEF ReadingsHold
  <2>3. PICK i : req' = [req EXCEPT ![w] =
                   [op |-> "diagnoseWrite", actor |-> req[w].actor, ticket |-> req[w].ticket,
                    seen |-> req[w].seen, target |-> req[w].target, existing |-> i]]
    BY <1>3 DEF FindDiagnosis
  <2>4. QED BY <2>1, <2>2, <2>3, OnlyReading
<1>4. QED
  BY <1>1, <1>2, <1>3 DEF Finish, CommitCreate, CommitReopen, CommitToggle, CommitStatus,
     CommitAssign, CommitDiagnosis, Abort

LEMMA SameMachine ==
  /\ Machine!TicketStatus = TicketStatus
  /\ Machine!VALID_TRANSITIONS = VALID_TRANSITIONS
  /\ \A from, to, by : Machine!Change(from, to, by) = Change(from, to, by)
  /\ \A by : Machine!Opening(by) = Opening(by)
<1>1. Machine!TicketStatus = TicketStatus
  BY DEF Machine!TicketStatus, TicketStatus
<1>2. Machine!VALID_TRANSITIONS = VALID_TRANSITIONS
  BY <1>1 DEF Machine!VALID_TRANSITIONS, VALID_TRANSITIONS
<1>3. \A from, to, by : Machine!Change(from, to, by) = Change(from, to, by)
  BY DEF Machine!Change, Change
<1>4. \A by : Machine!Opening(by) = Opening(by)
  BY <1>3 DEF Machine!Opening, Opening
<1>5. QED BY <1>1, <1>2, <1>3, <1>4

\* A change that starts at the status the ticket has is a move of the machine.
LEMMA WriteStatusMoves ==
  ASSUME TimelineInv, NEW t \in DOMAIN tickets, NEW to \in TicketStatus, NEW by \in Staff,
         to \in VALID_TRANSITIONS[tickets[t].status],
         WriteStatus(t, tickets[t].status, to, by)
  PROVE  Machine!Proceed
<1>1. t \in TicketId /\ tickets[t].status \in TicketStatus /\ DOMAIN tickets \subseteq TicketId
  BY DEF TimelineInv, TypeOK, Ticket
<1>2. /\ DOMAIN tickets' = DOMAIN tickets
      /\ tickets'[t].status = to
      /\ \A x \in DOMAIN tickets : x # t => tickets'[x] = tickets[x]
  BY <1>1, WriteStatusRows DEF TimelineInv
<1>3. TicketStates[t] = tickets[t].status /\ "ABSENT" \notin TicketStatus
  BY <1>1 DEF TicketStates, TicketStatus
<1>4. TicketStates' = [TicketStates EXCEPT ![t] = to]
  BY <1>1, <1>2 DEF TicketStates
<1>5. history' = [history EXCEPT ![t] = Append(history[t], Change(TicketStates[t], to, by))]
  BY <1>3 DEF WriteStatus
<1>6. Machine!Move(t, to, by)
  BY <1>1, <1>3, <1>4, <1>5, SameMachine DEF Machine!Move, TicketStates
<1>7. QED BY <1>1, <1>6, SameMachine DEF Machine!Proceed

LEMMA OpenTicketReceives ==
  ASSUME TimelineInv, NEW t \in TicketId, NEW b, NEW by \in Staff, NEW action,
         OpenTicket(t, b, by, action)
  PROVE  Machine!Proceed
<1>1. t \notin DOMAIN tickets
      /\ history' = [history EXCEPT ![t] = Append(history[t], Opening(by))]
  BY DEF OpenTicket
<1>2. /\ DOMAIN tickets' = DOMAIN tickets \cup {t}
      /\ tickets'[t].status = "RECEIVED"
      /\ \A x \in DOMAIN tickets : tickets'[x] = tickets[x]
  BY <1>1 DEF OpenTicket
<1>3. TicketStates[t] = "ABSENT"
  BY <1>1 DEF TicketStates
<1>4. TicketStates' = [TicketStates EXCEPT ![t] = "RECEIVED"]
  BY <1>1, <1>2 DEF TicketStates
<1>5. Machine!Receive(t, by)
  BY <1>1, <1>3, <1>4, SameMachine DEF Machine!Receive, TicketStates
<1>6. QED BY <1>5 DEF Machine!Proceed

\* When the requests come one at a time, tickets follow the state machine of the
\* workflow document: a status moves along VALID_TRANSITIONS only, and each entry
\* of a timeline starts where the one before it ended, whichever handler wrote it.
THEOREM ImplementsMachine ==
  ASSUME \A v, w \in Worker : v = w
  PROVE  Spec => FollowsMachine
<1>1. Init => ReadingsHold
  BY DEF Init, Idle, ReadingsHold, Reading
<1>2. Init => Machine!Start
  BY DEF Init, Machine!Start
<1>3. MachineInv /\ [Next]_vars => ReadingsHold'
  <2>1. CASE UNCHANGED vars
    BY <2>1 DEF vars, MachineInv, ReadingsHold
  <2>2. CASE Next
    BY <2>2, BeginReads, FinishReads DEF Next, MachineInv, TimelineInv
  <2>3. QED BY <2>1, <2>2
<1>4. MachineInv /\ [Next]_vars => [Machine!Proceed]_<<TicketStates, history>>
  <2>1. CASE UNCHANGED vars
    BY <2>1 DEF vars, TicketStates
  <2>2. ASSUME MachineInv, Next PROVE [Machine!Proceed]_<<TicketStates, history>>
    <3>1. OpensOne \/ MovesOne \/ LeavesTimeline
      BY <2>2, StepEffect DEF Next, MachineInv, TimelineInv
    <3>2. CASE OpensOne
      BY <2>2, <3>2, OpenTicketReceives DEF OpensOne, MachineInv
    <3>3. CASE MovesOne
      <4>1. PICK t \in DOMAIN tickets, from \in TicketStatus, to \in TicketStatus, by \in Staff :
              /\ to \in VALID_TRANSITIONS[from]
              /\ \E w \in Worker : HasRead(w, t, from)
              /\ WriteStatus(t, from, to, by)
        BY <3>3 DEF MovesOne
      <4>2. tickets[t].status = from
        BY <2>2, <4>1 DEF HasRead, MachineInv, ReadingsHold
      <4>3. QED BY <2>2, <4>1, <4>2, WriteStatusMoves DEF MachineInv
    <3>4. CASE LeavesTimeline
      BY <3>4 DEF LeavesTimeline, TicketStates
    <3>5. QED BY <3>1, <3>2, <3>3, <3>4
  <2>3. QED BY <2>1, <2>2
<1>5. QED
  BY <1>1, <1>2, <1>3, <1>4, TimelineInvariant, PTL
     DEF Spec, FollowsMachine, Machine!Spec, MachineInv, TicketStates
=============================================================================
