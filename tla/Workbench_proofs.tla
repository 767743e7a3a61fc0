----------------------------- MODULE Workbench_proofs -----------------------------
(***************************************************************************)
(* Proofs about the tickets page.                                          *)
(***************************************************************************)
EXTENDS Workbench, TLAPS

(***************************************************************************)
(* What the calls and the fetches look like, as far as TypeOK leaves it    *)
(* open.                                                                   *)
(***************************************************************************)
Value(m) ==
  CASE m = "assign"    -> Tech
    [] m = "diagnosis" -> Finding
    [] m = "status"    -> TicketStatus

Sent(m, states) ==
  [state: states, op: {m}, ticket: Ticket, value: Value(m), seen: TicketStatus,
   doubts: SUBSET Doubt]

Read == [state: {"read"}, ticket: Ticket, row: Row]

Call(m) ==
  {Idle} \cup Sent(m, {"asked", "done", "refused"})
    \cup IF m = "diagnosis" THEN Sent(m, {"reading"}) \cup Read ELSE {}

IsList(l) == DOMAIN l \subseteq Ticket /\ \A t \in DOMAIN l : l[t] \in Row

FetchOK ==
  \/ refetch = NoFetch
  \/ refetch = [state |-> "asked"]
  \/ refetch = [state |-> "answered", list |-> refetch.list] /\ IsList(refetch.list)

CallOK ==
  /\ call = [m \in Mutation |-> call[m]]
  /\ \A m \in Mutation : call[m] \in Call(m)

DrawerOK == dialog # "none" => shown \in [ticket: Ticket, row: Row]

Shapes == TypeOK /\ FetchOK /\ CallOK /\ DrawerOK

(***************************************************************************)
(* A status and those a ticket may still reach from it.                    *)
(***************************************************************************)
Later ==
  [s \in TicketStatus |->
    CASE s = "RECEIVED"             -> TicketStatus
      [] s = "DIAGNOSING"           -> TicketStatus \ {"RECEIVED"}
      [] s = "WAITING_FOR_APPROVAL" -> TicketStatus \ {"RECEIVED", "DIAGNOSING", "UNREPAIRABLE"}
      [] s = "APPROVED"             -> {"APPROVED", "REPAIR_IN_PROGRESS", "PARTS_REQUIRED",
                                        "READY_FOR_COLLECTION", "DELIVERED"}
      [] s \in {"REPAIR_IN_PROGRESS", "PARTS_REQUIRED"} ->
           {"REPAIR_IN_PROGRESS", "PARTS_REQUIRED", "READY_FOR_COLLECTION", "DELIVERED"}
      [] s \in {"REJECTED", "UNREPAIRABLE", "READY_FOR_COLLECTION"} ->
           {s, "READY_FOR_COLLECTION", "DELIVERED"}
      [] OTHER -> {s}]

\* Whatever the page holds of a ticket, the ticket was once.
Old(t, s) == rows[t].status \in Later[s]

ListsAreOld ==
  /\ \A t \in DOMAIN list : Old(t, list[t].status)
  /\ refetch.state = "answered" =>
       \A t \in DOMAIN refetch.list : Old(t, refetch.list[t].status)

AnswersAreOld ==
  /\ call["status"].state = "done" =>
       Old(call["status"].ticket, call["status"].value) /\ call["status"].value # "RECEIVED"
  /\ call["diagnosis"].state = "read" =>
       Old(call["diagnosis"].ticket, call["diagnosis"].row.status)

DrawerIsOld ==
  dialog # "none" /\ "stray" \notin doubts => Old(shown.ticket, shown.row.status)

FormIsOld ==
  dialog = "status" =>
    /\ form.status \in getAllowedTransitions(form.seen)
    /\ "stray" \notin doubts => Old(shown.ticket, form.seen)

RequestIsOld ==
  LET c == call["status"] IN
  c.state = "asked" =>
    /\ c.value \in getAllowedTransitions(c.seen)
    /\ "stray" \notin c.doubts => Old(c.ticket, c.seen)

Ages == ListsAreOld /\ AnswersAreOld /\ DrawerIsOld /\ FormIsOld /\ RequestIsOld

(***************************************************************************)
(* The drawer.                                                             *)
(***************************************************************************)
Trusted == dialog # "none" /\ doubts = {}

\* Answered by the server, the answer not shown yet.
Pending(m) == call[m].state \in {"done", "reading", "read"} /\ call[m].ticket = shown.ticket

UnderWay(m) == call[m].state \in {"asked", "done", "reading", "read"} /\ call[m].ticket = shown.ticket

Now == rows[shown.ticket]

TechnicianTold ==
  Trusted => Now.technician = IF Pending("assign") THEN call["assign"].value ELSE shown.row.technician

StatusTold ==
  Trusted =>
    /\ Pending("status") => Now.status = call["status"].value
    /\ ~Pending("status") /\ ~Pending("diagnosis") => Now.status = shown.row.status

\* The page may read what was diagnosed, ...
DiagnosisReadable ==
  Trusted /\ Pending("diagnosis") => Reads(rows, shown.ticket)

\* ... which was past its intake.
IntakeIsPast ==
  Trusted =>
    /\ UnderWay("diagnosis") \/ dialog = "diagnosis" => shown.row.status # "RECEIVED"
    /\ UnderWay("diagnosis") /\ call["diagnosis"].state = "read" =>
         call["diagnosis"].row.status # "RECEIVED"
    /\ UnderWay("status") /\ call["status"].value = "DIAGNOSING" => shown.row.status = "RECEIVED"
    /\ dialog = "status" /\ form.status = "DIAGNOSING" => shown.row.status = "RECEIVED"

Drawer == TechnicianTold /\ StatusTold /\ DiagnosisReadable /\ IntakeIsPast

(***************************************************************************)
(* The list.                                                               *)
(***************************************************************************)
ListOnItsWay ==
  others = 0 =>
    \/ \E m \in Mutation : call[m].state = "done"
    \/ refetch.state = "asked"
    \/ refetch.state = "answered" /\ refetch.list = Visible(rows)
    \/ refetch.state = "no" /\ list = Visible(rows)

-----------------------------------------------------------------------------
(* Shapes *)

LEMMA InitShapes == Init => Shapes
<1> SUFFICES ASSUME Init PROVE Shapes
  OBVIOUS
<1>1. Start \in [Ticket -> Row]
  BY WorkbenchAssumption DEF Row
<1>2. TypeOK
  BY <1>1, WorkbenchAssumption DEF Init, TypeOK, Visible, NewForm, Idle, NoFetch, Mutation, TicketStatus, Doubt
<1>3. FetchOK
  BY DEF Init, FetchOK
<1>4. CallOK
  BY DEF Init, CallOK, Call
<1> QED
  BY <1>2, <1>3, <1>4 DEF Shapes, DrawerOK, Init

LEMMA VisibleIsList ==
  ASSUME NEW r \in [Ticket -> Row]
  PROVE  IsList(Visible(r)) /\ DOMAIN Visible(r) \subseteq Ticket
           /\ \A t \in DOMAIN Visible(r) : Visible(r)[t] = r[t]
BY DEF IsList, Visible

\* The only values a call may take on.
LEMMA CallCases ==
  ASSUME CallOK, NEW m \in Mutation
  PROVE  /\ call[m] = Idle \/ call[m].state \in {"asked", "done", "refused", "reading", "read"}
         /\ call[m].state \in {"asked", "done", "refused", "reading"} =>
              /\ call[m] \in Sent(m, {call[m].state})
              /\ call[m].ticket \in Ticket /\ call[m].value \in Value(m) /\ call[m].op = m
              /\ call[m].doubts \subseteq Doubt /\ call[m].seen \in TicketStatus
         /\ call[m].state \in {"reading", "read"} => m = "diagnosis"
         /\ call[m].state = "read" => call[m] \in Read /\ call[m].ticket \in Ticket /\ call[m].row \in Row
         /\ call[m].state \in {"idle", "asked", "done", "refused", "reading", "read"}
<1>1. call[m] \in Call(m)
  BY DEF CallOK
<1>2. CASE call[m] = Idle
  BY <1>2 DEF Idle
<1>3. CASE call[m] \in Sent(m, {"asked", "done", "refused"})
  BY <1>3 DEF Sent
<1>4. CASE m = "diagnosis" /\ call[m] \in Sent(m, {"reading"})
  BY <1>4 DEF Sent
<1>5. CASE m = "diagnosis" /\ call[m] \in Read
  BY <1>5 DEF Read
<1> QED
  BY <1>1, <1>2, <1>3, <1>4, <1>5 DEF Call

LEMMA AllowedTyped ==
  ASSUME NEW s \in TicketStatus
  PROVE  getAllowedTransitions(s) \subseteq TicketStatus
BY DEF getAllowedTransitions, TicketStatus

LEMMA TransitionsTyped ==
  ASSUME NEW s \in TicketStatus
  PROVE  VALID_TRANSITIONS[s] \subseteq TicketStatus
BY DEF VALID_TRANSITIONS, TicketStatus

\* One call is replaced by another of its kind.
LEMMA CallReplaced ==
  ASSUME CallOK, NEW m \in Mutation, NEW c \in Call(m), call' = [call EXCEPT ![m] = c]
  PROVE  CallOK' /\ call'[m] = c /\ \A n \in Mutation \ {m} : call'[n] = call[n]
<1>1. call' = [n \in Mutation |-> IF n = m THEN c ELSE call[n]]
  BY DEF CallOK
<1>2. \A n \in Mutation : call'[n] = IF n = m THEN c ELSE call[n]
  BY <1>1
<1>3. call' = [n \in Mutation |-> call'[n]]
  BY <1>1, <1>2
<1>4. \A n \in Mutation : call'[n] \in Call(n)
  BY <1>2 DEF CallOK
<1>5. CallOK'
  BY <1>3, <1>4 DEF CallOK, Call, Sent, Read, Value
<1> QED
  BY <1>2, <1>5

\* A row is given another; the rest stay.
LEMMA RowReplaced ==
  ASSUME NEW r \in [Ticket -> Row], NEW t \in Ticket, NEW row \in Row
  PROVE  LET s == [r EXCEPT ![t] = row] IN
         s \in [Ticket -> Row] /\ s[t] = row /\ \A u \in Ticket \ {t} : s[u] = r[u]
OBVIOUS

\* What the server does with a call.
LEMMA ServeEffect ==
  ASSUME Shapes, NEW m \in Mutation, Serve(m)
  PROVE  /\ call[m] \in Sent(m, {"asked"}) /\ call[m].state = "asked"
         /\ call'[m] = [call[m] EXCEPT !.state = IF Accepts(call[m]) THEN "done" ELSE "refused"]
         /\ call'[m] \in Sent(m, {"done", "refused"})
         /\ call'[m].state = (IF Accepts(call[m]) THEN "done" ELSE "refused")
         /\ call'[m].ticket = call[m].ticket /\ call'[m].value = call[m].value
         /\ \A n \in Mutation \ {m} : call'[n] = call[n]
         /\ CallOK'
         /\ rows' \in [Ticket -> Row]
         /\ \A t \in Ticket \ {call[m].ticket} : rows'[t] = rows[t]
         /\ rows'[call[m].ticket] =
              IF Accepts(call[m]) THEN Served(rows[call[m].ticket], call[m])
                                  ELSE rows[call[m].ticket]
<1> DEFINE c == call[m]
<1> DEFINE after(state) == [c EXCEPT !.state = state]
<1>1. c.state = "asked"
  BY DEF Serve
<1>2. /\ c \in Sent(m, {"asked"}) /\ c.ticket \in Ticket /\ c.value \in Value(m) /\ c.op = m
      /\ CallOK /\ rows \in [Ticket -> Row]
  BY <1>1, CallCases DEF Shapes, TypeOK
<1>3. ASSUME NEW state \in {"done", "refused"}
      PROVE  /\ after(state) \in Sent(m, {"done", "refused"}) /\ after(state) \in Call(m)
             /\ after(state).state = state
             /\ after(state).ticket = c.ticket /\ after(state).value = c.value
  BY <1>2, <1>3 DEF Sent, Call
<1>4. Served(rows[c.ticket], c) \in Row
  <2>1. rows[c.ticket] \in Row
    BY <1>2
  <2>2. CASE m = "assign"
    BY <2>1, <2>2, <1>2 DEF Served, Row, Value
  <2>3. CASE m = "diagnosis"
    <3>1. c.value \in TicketStatus
      BY <2>3, <1>2, WorkbenchAssumption DEF Value, TicketStatus
    <3> QED
      BY <3>1, <2>1, <2>3, <1>2 DEF Served, Row
  <2>4. CASE m = "status"
    BY <2>1, <2>4, <1>2 DEF Served, Row, Value
  <2> QED
    BY <2>2, <2>3, <2>4 DEF Mutation
<1>5. CASE Accepts(c)
  <2>1. call' = [call EXCEPT ![m] = after("done")]
    BY <1>5, <1>2 DEF Serve, CallOK
  <2>2. rows' = [rows EXCEPT ![c.ticket] = Served(rows[c.ticket], c)]
    BY <1>5, <1>2 DEF Serve
  <2>3. CallOK' /\ call'[m] = after("done") /\ \A n \in Mutation \ {m} : call'[n] = call[n]
    <3> HIDE DEF after
    <3> QED
      BY <2>1, <1>2, <1>3, CallReplaced
  <2>4. /\ rows' \in [Ticket -> Row] /\ rows'[c.ticket] = Served(rows[c.ticket], c)
        /\ \A u \in Ticket \ {c.ticket} : rows'[u] = rows[u]
    <3> HIDE DEF c
    <3> QED
      BY <2>2, <1>2, <1>4, RowReplaced
  <2>5. after("done") = [call[m] EXCEPT !.state = IF Accepts(call[m]) THEN "done" ELSE "refused"]
    BY <1>5
  <2> HIDE DEF after
  <2> QED
    BY <1>1, <1>2, <1>3, <1>5, <2>3, <2>4, <2>5
<1>6. CASE ~Accepts(c)
  <2>1. call' = [call EXCEPT ![m] = after("refused")]
    BY <1>6, <1>2 DEF Serve, CallOK
  <2>2. rows' = rows
    BY <1>6 DEF Serve
  <2>3. CallOK' /\ call'[m] = after("refused") /\ \A n \in Mutation \ {m} : call'[n] = call[n]
    <3> HIDE DEF after
    <3> QED
      BY <2>1, <1>2, <1>3, CallReplaced
  <2>5. after("refused") = [call[m] EXCEPT !.state = IF Accepts(call[m]) THEN "done" ELSE "refused"]
    BY <1>6
  <2> HIDE DEF after
  <2> QED
    BY <1>1, <1>2, <1>3, <1>6, <2>2, <2>3, <2>5
<1> QED
  BY <1>5, <1>6

\* What asking does.
LEMMA AskEffect ==
  ASSUME Shapes, NEW m \in Mutation, NEW value \in Value(m), Ask(m, value)
  PROVE  /\ call[m] = Idle
         /\ call'[m] = [state |-> "asked", op |-> m, ticket |-> shown.ticket,
                        value |-> value, seen |-> form.seen, doubts |-> doubts]
         /\ call'[m].state = "asked" /\ call'[m].ticket = shown.ticket
         /\ call'[m].value = value /\ call'[m].seen = form.seen /\ call'[m].doubts = doubts
         /\ \A n \in Mutation \ {m} : call'[n] = call[n]
         /\ CallOK'
<1> DEFINE c == [state |-> "asked", op |-> m, ticket |-> shown.ticket,
                value |-> value, seen |-> form.seen, doubts |-> doubts]
<1>1. shown.ticket \in Ticket /\ form.seen \in TicketStatus /\ doubts \subseteq Doubt
  BY DEF Shapes, TypeOK, Ask, Mutation
<1>2. c \in Call(m)
  BY <1>1 DEF Call, Sent
<1>3. call' = [call EXCEPT ![m] = c] /\ call[m] = Idle /\ CallOK
  BY DEF Ask, Shapes
<1>5. /\ c.state = "asked" /\ c.ticket = shown.ticket
      /\ c.value = value /\ c.seen = form.seen /\ c.doubts = doubts
  OBVIOUS
<1> HIDE DEF c
<1>4. CallOK' /\ call'[m] = c /\ \A n \in Mutation \ {m} : call'[n] = call[n]
  BY <1>2, <1>3, CallReplaced
<1>6. c = [state |-> "asked", op |-> m, ticket |-> shown.ticket,
           value |-> value, seen |-> form.seen, doubts |-> doubts]
  BY DEF c
<1> QED
  BY <1>3, <1>4, <1>5, <1>6

\* A call that has had its answer.
LEMMA DropEffect ==
  ASSUME Shapes, NEW m \in Mutation, call' = [call EXCEPT ![m] = Idle]
  PROVE  CallOK' /\ call'[m] = Idle /\ \A n \in Mutation \ {m} : call'[n] = call[n]
BY CallReplaced DEF Shapes, Call

LEMMA DiagnosisSavedEffect ==
  ASSUME Shapes, DiagnosisSaved
  PROVE  LET d == call["diagnosis"] IN
         /\ CallOK'
         /\ d.state = "done"
         /\ call'["diagnosis"].state = "reading" /\ call'["diagnosis"].ticket = d.ticket
         /\ \A n \in {"assign", "status"} : call'[n] = call[n]
<1> DEFINE d == call["diagnosis"]
<1> DEFINE e == [d EXCEPT !.state = "reading"]
<1>1. d.state = "done" /\ "diagnosis" \in Mutation /\ CallOK
  BY DEF DiagnosisSaved, Mutation, Shapes
<1>2. d \in Sent("diagnosis", {"done"})
  BY <1>1, CallCases
<1>3. e \in Call("diagnosis") /\ e.state = "reading" /\ e.ticket = d.ticket
  BY <1>2 DEF Call, Sent
<1>4. call' = [call EXCEPT !["diagnosis"] = e]
  BY <1>1 DEF DiagnosisSaved, CallOK
<1> HIDE DEF e
<1>5. CallOK' /\ call'["diagnosis"] = e /\ \A n \in Mutation \ {"diagnosis"} : call'[n] = call[n]
  BY <1>1, <1>3, <1>4, CallReplaced
<1> QED
  BY <1>1, <1>3, <1>5 DEF Mutation

LEMMA ServeTicketEffect ==
  ASSUME Shapes, ServeTicket
  PROVE  LET d == call["diagnosis"] IN
         /\ CallOK'
         /\ d.state = "reading" /\ d.ticket \in Ticket
         /\ call'["diagnosis"] =
              IF Reads(rows, d.ticket)
              THEN [state |-> "read", ticket |-> d.ticket, row |-> rows[d.ticket]]
              ELSE Idle
         /\ \A n \in {"assign", "status"} : call'[n] = call[n]
<1> DEFINE d == call["diagnosis"]
<1> DEFINE e == IF Reads(rows, d.ticket)
               THEN [state |-> "read", ticket |-> d.ticket, row |-> rows[d.ticket]] ELSE Idle
<1>1. d.state = "reading" /\ "diagnosis" \in Mutation /\ CallOK /\ rows \in [Ticket -> Row]
  BY DEF ServeTicket, Mutation, Shapes, TypeOK
<1>2. d.ticket \in Ticket
  BY <1>1, CallCases
<1>3. e \in Call("diagnosis")
  BY <1>1, <1>2 DEF Call, Read
<1>4. call' = [call EXCEPT !["diagnosis"] = e]
  BY DEF ServeTicket
<1> HIDE DEF e
<1>5. CallOK' /\ call'["diagnosis"] = e /\ \A n \in Mutation \ {"diagnosis"} : call'[n] = call[n]
  BY <1>1, <1>3, <1>4, CallReplaced
<1> QED
  BY <1>1, <1>2, <1>5 DEF Mutation, e

LEMMA SavedEffect ==
  ASSUME Shapes, NEW m \in Mutation, Saved(m)
  PROVE  LET c == call[m] IN
         /\ m \in {"assign", "status"}
         /\ c.state = "done" /\ c.ticket \in Ticket /\ c.value \in Value(m)
         /\ dialog' = IF dialog = m THEN "drawer" ELSE dialog
         /\ dialog' # m
         /\ dialog' = "status" => form' = form
         /\ form' = form \/ form' = NewForm
         /\ dialog = "none" => shown' = shown /\ doubts' = doubts
         /\ dialog # "none" => /\ shown'.ticket = shown.ticket
                               /\ shown'.row = Patched(shown.row, m, c)
                               /\ doubts \subseteq doubts'
                               /\ "stray" \notin doubts' => c.ticket = shown.ticket
                               /\ "late" \notin doubts' => (m = "assign" => chosen = c.value)
         /\ doubts' \subseteq Doubt
         /\ CallOK' /\ call'[m] = Idle /\ \A n \in Mutation \ {m} : call'[n] = call[n]
<1> DEFINE c == call[m]
<1>1. m \in {"assign", "status"} /\ c.state = "done"
  BY DEF Saved, Mutation
<1>2. c.ticket \in Ticket /\ c.value \in Value(m)
  BY <1>1, CallCases DEF Shapes
<1>3. CallOK' /\ call'[m] = Idle /\ \A n \in Mutation \ {m} : call'[n] = call[n]
  BY DropEffect DEF Saved
<1>4. /\ dialog' = IF dialog = m THEN "drawer" ELSE dialog
      /\ dialog' # m
      /\ dialog' = "status" => form' = form
      /\ form' = form \/ form' = NewForm
  BY <1>1 DEF Saved, Closing
<1>5. dialog = "none" => shown' = shown /\ doubts' = doubts
  BY DEF Saved
<1>6. ASSUME dialog # "none"
      PROVE  /\ shown'.ticket = shown.ticket
             /\ shown'.row = Patched(shown.row, m, c)
             /\ doubts \subseteq doubts'
             /\ "stray" \notin doubts' => c.ticket = shown.ticket
             /\ "late" \notin doubts' => (m = "assign" => chosen = c.value)
             /\ doubts' \subseteq doubts \cup Doubt
  <2>1. shown' = [shown EXCEPT !.row = Patched(shown.row, m, c)]
    BY <1>6 DEF Saved
  <2>2. shown \in [ticket: Ticket, row: Row]
    BY <1>6 DEF Shapes, DrawerOK
  <2>3. doubts' = doubts \cup Unless(c.ticket = shown.ticket, "stray")
                       \cup Unless(m = "assign" => chosen = c.value, "late")
    BY <1>6 DEF Saved
  <2>4. shown'.ticket = shown.ticket /\ shown'.row = Patched(shown.row, m, c)
    <3> DEFINE p == Patched(shown.row, m, c)
    <3>1. shown' = [shown EXCEPT !.row = p]
      BY <2>1
    <3> HIDE DEF p
    <3>2. shown'.ticket = shown.ticket /\ shown'.row = p
      BY <3>1, <2>2
    <3> QED
      BY <3>2 DEF p
  <2> QED
    BY <2>3, <2>4 DEF Unless, Doubt
<1>7. doubts' \subseteq Doubt
  BY <1>5, <1>6 DEF Shapes, TypeOK
<1> QED
  BY <1>1, <1>2, <1>3, <1>4, <1>5, <1>6, <1>7

LEMMA DiagnosisReadEffect ==
  ASSUME Shapes, DiagnosisRead
  PROVE  LET d == call["diagnosis"] IN
         /\ d.state = "read" /\ d \in Read
         /\ dialog = "none" => shown' = shown /\ doubts' = doubts
         /\ DrawerOK'
         /\ dialog # "none" => /\ shown'.ticket = d.ticket /\ shown'.row = d.row
                               /\ doubts \subseteq doubts'
                               /\ "stray" \notin doubts' => d.ticket = shown.ticket
                               /\ "late" \notin doubts' => d.row = rows[d.ticket]
         /\ doubts' \subseteq Doubt
         /\ CallOK' /\ call'["diagnosis"] = Idle /\ \A n \in {"assign", "status"} : call'[n] = call[n]
<1> DEFINE d == call["diagnosis"]
<1>1. d.state = "read" /\ "diagnosis" \in Mutation
  BY DEF DiagnosisRead, Mutation
<1>2. d \in Read
  BY <1>1, CallCases DEF Shapes
<1>3. CallOK' /\ call'["diagnosis"] = Idle /\ \A n \in Mutation \ {"diagnosis"} : call'[n] = call[n]
  BY <1>1, DropEffect DEF DiagnosisRead
<1>4. dialog = "none" => shown' = shown /\ doubts' = doubts
  BY DEF DiagnosisRead
<1>5. ASSUME dialog # "none"
      PROVE  /\ shown' = [ticket |-> d.ticket, row |-> d.row]
             /\ doubts' = doubts \cup Unless(d.ticket = shown.ticket, "stray")
                                \cup Unless(d.row = rows[d.ticket], "late")
  BY <1>5 DEF DiagnosisRead
<1>6. doubts' \subseteq Doubt
  BY <1>4, <1>5 DEF Shapes, TypeOK, Unless, Doubt
<1>7. dialog # "none" => /\ shown' \in [ticket: Ticket, row: Row]
                         /\ shown'.ticket = d.ticket /\ shown'.row = d.row
  BY <1>2, <1>5 DEF Read
<1>8. DrawerOK'
  BY <1>4, <1>7 DEF Shapes, DrawerOK, DiagnosisRead
<1>9. dialog # "none" => /\ doubts \subseteq doubts'
                         /\ "stray" \notin doubts' => d.ticket = shown.ticket
                         /\ "late" \notin doubts' => d.row = rows[d.ticket]
  BY <1>5 DEF Unless
<1> QED
  BY <1>1, <1>2, <1>3, <1>4, <1>6, <1>7, <1>8, <1>9 DEF Mutation

\* The same, while the drawer is open.
LEMMA SavedInDrawer ==
  ASSUME Shapes, NEW m \in Mutation, Saved(m), dialog # "none"
  PROVE  /\ shown'.ticket = shown.ticket
         /\ shown'.row = Patched(shown.row, m, call[m])
         /\ doubts \subseteq doubts'
         /\ "stray" \notin doubts' => call[m].ticket = shown.ticket
         /\ "late" \notin doubts' => (m = "assign" => chosen = call[m].value)
<1>1. shown'.ticket = shown.ticket /\ shown'.row = Patched(shown.row, m, call[m])
  BY SavedEffect
<1>2. doubts \subseteq doubts'
  BY SavedEffect
<1>3. "stray" \notin doubts' => call[m].ticket = shown.ticket
  BY SavedEffect
<1>4. "late" \notin doubts' => (m = "assign" => chosen = call[m].value)
  BY SavedEffect
<1> QED
  BY <1>1, <1>2, <1>3, <1>4

LEMMA DiagnosisReadInDrawer ==
  ASSUME Shapes, DiagnosisRead, dialog # "none"
  PROVE  LET d == call["diagnosis"] IN
         /\ shown'.ticket = d.ticket /\ shown'.row = d.row
         /\ doubts \subseteq doubts'
         /\ "stray" \notin doubts' => d.ticket = shown.ticket
         /\ "late" \notin doubts' => d.row = rows[d.ticket]
<1> DEFINE d == call["diagnosis"]
<1>1. shown'.ticket = d.ticket /\ shown'.row = d.row
  BY DiagnosisReadEffect
<1>2. doubts \subseteq doubts'
  BY DiagnosisReadEffect
<1>3. "stray" \notin doubts' => d.ticket = shown.ticket
  BY DiagnosisReadEffect
<1>4. "late" \notin doubts' => d.row = rows[d.ticket]
  BY DiagnosisReadEffect
<1> QED
  BY <1>1, <1>2, <1>3, <1>4

LEMMA OtherEffect ==
  ASSUME Shapes, NEW t \in Ticket, NEW row \in Row, Other(t, row)
  PROVE  /\ rows' \in [Ticket -> Row] /\ rows'[t] = row
         /\ \A u \in Ticket \ {t} : rows'[u] = rows[u]
         /\ \/ row.status \in VALID_TRANSITIONS[rows[t].status] /\ row.technician = rows[t].technician
            \/ row.status = rows[t].status
         /\ others' # 0
         /\ doubts \subseteq doubts' /\ doubts' \subseteq Doubt
         /\ "late" \notin doubts' => shown.ticket # t
<1>1. rows \in [Ticket -> Row] /\ others \in 0..MaxOthers /\ MaxOthers \in Nat
  BY WorkbenchAssumption DEF Shapes, TypeOK
<1>2. /\ rows' \in [Ticket -> Row] /\ rows'[t] = row
      /\ \A u \in Ticket \ {t} : rows'[u] = rows[u]
  BY <1>1, RowReplaced DEF Other
<1>3. others' # 0
  BY <1>1 DEF Other
<1>4. /\ doubts \subseteq doubts' /\ doubts' \subseteq Doubt
      /\ "late" \notin doubts' => shown.ticket # t
  BY DEF Other, Unless, Shapes, TypeOK, Doubt
<1> QED
  BY <1>2, <1>3, <1>4 DEF Other

LEMMA ShapesStep ==
  ASSUME Shapes, [Next]_vars
  PROVE  Shapes'
<1> USE DEF Shapes
<1>1. ASSUME NEW t \in Ticket, OpenDrawer(t) PROVE Shapes'
  BY <1>1 DEF OpenDrawer, TypeOK, FetchOK, CallOK, DrawerOK, IsList, Unless, Doubt, Call, Sent, Read, Value
<1>2. CASE CloseDrawer
  BY <1>2 DEF CloseDrawer, TypeOK, FetchOK, CallOK, DrawerOK, IsList, Call, Sent, Read, Value
<1>3. CASE Cancel
  BY <1>3 DEF Cancel, TypeOK, FetchOK, CallOK, DrawerOK, IsList, Call, Sent, Read, Value, NewForm, TicketStatus, Mutation
<1>4. ASSUME NEW target \in TicketStatus, Press(target) PROVE Shapes'
  <2>1. shown.row.status \in TicketStatus
    BY <1>4 DEF Press, TypeOK, Row
  <2> QED
    BY <1>4, <2>1 DEF Press, TypeOK, FetchOK, CallOK, DrawerOK, IsList, Call, Sent, Read, Value, Mutation
<1>5. CASE PressAssign
  BY <1>5 DEF PressAssign, TypeOK, FetchOK, CallOK, DrawerOK, IsList, Call, Sent, Read, Value, Mutation
<1>6. ASSUME NEW tech \in Tech, Choose(tech) PROVE Shapes'
  BY <1>6 DEF Choose, TypeOK, FetchOK, CallOK, DrawerOK, IsList, Call, Sent, Read, Value, Mutation
<1>7. ASSUME NEW m \in Mutation, NEW value \in Value(m), Ask(m, value) PROVE Shapes'
  <2>1. CallOK' /\ \A n \in Mutation : call'[n].state \in {"idle", "asked", "done", "refused", "reading", "read"}
    <3>1. CallOK'
      BY <1>7, AskEffect
    <3>2. call'[m].state = "asked" /\ \A n \in Mutation \ {m} : call'[n] = call[n]
      BY <1>7, AskEffect
    <3> QED
      BY <3>1, <3>2 DEF TypeOK
  <2>2. asked' \in 0..MaxCalls
    BY <1>7, WorkbenchAssumption DEF Ask, TypeOK
  <2> QED
    BY <1>7, <2>1, <2>2 DEF Ask, TypeOK, FetchOK, DrawerOK, IsList
<1>8. CASE ConfirmAssign
  <2>1. Ask("assign", chosen) /\ chosen \in Value("assign") /\ "assign" \in Mutation
    BY <1>8 DEF ConfirmAssign, Value, TypeOK, Mutation
  <2> QED
    BY <2>1, <1>7
<1>9. CASE ConfirmDiagnosis
  <2>1. PICK finding \in Finding : Ask("diagnosis", finding)
    BY <1>9 DEF ConfirmDiagnosis
  <2>2. finding \in Value("diagnosis") /\ "diagnosis" \in Mutation
    BY DEF Value, Mutation
  <2> QED
    BY <2>1, <2>2, <1>7
<1>10. CASE ConfirmStatus
  <2>1. Ask("status", form.status) /\ form.status \in Value("status") /\ "status" \in Mutation
    BY <1>10 DEF ConfirmStatus, Value, TypeOK, Mutation
  <2> QED
    BY <2>1, <1>7
<1>11. ASSUME NEW m \in Mutation, Serve(m) PROVE Shapes'
  <2>1. /\ CallOK' /\ rows' \in [Ticket -> Row] /\ call'[m] \in Sent(m, {"done", "refused"})
        /\ \A n \in Mutation \ {m} : call'[n] = call[n]
    BY <1>11, ServeEffect
  <2>2. \A n \in Mutation : call'[n].state \in {"idle", "asked", "done", "refused", "reading", "read"}
    BY <2>1 DEF TypeOK, Sent
  <2>3. UNCHANGED <<role, list, refetch, shown, dialog, form, chosen, asked, others, doubts>>
    BY <1>11 DEF Serve
  <2> QED
    BY <2>1, <2>2, <2>3 DEF TypeOK, FetchOK, DrawerOK, IsList
<1>12. ASSUME NEW t \in Ticket, NEW row \in Row, Other(t, row) PROVE Shapes'
  <2>1. rows' \in [Ticket -> Row] /\ doubts' \subseteq Doubt
    BY <1>12, OtherEffect
  <2>2. others' \in 0..MaxOthers
    BY <1>12, WorkbenchAssumption DEF Other, TypeOK
  <2>3. UNCHANGED <<role, list, refetch, shown, dialog, form, chosen, call, asked>>
    BY <1>12 DEF Other
  <2> QED
    BY <2>1, <2>2, <2>3 DEF TypeOK, FetchOK, CallOK, DrawerOK, IsList, Call, Sent, Read, Value
<1>13. CASE ServeList
  <2>1. refetch' = [state |-> "answered", list |-> Visible(rows)] /\ IsList(Visible(rows))
    BY <1>13, VisibleIsList DEF ServeList, TypeOK
  <2>2. FetchOK' /\ refetch'.state = "answered"
    BY <2>1 DEF FetchOK, IsList
  <2>3. UNCHANGED <<role, rows, list, shown, dialog, form, chosen, call, asked, others, doubts>>
    BY <1>13 DEF ServeList
  <2> QED
    BY <2>2, <2>3 DEF TypeOK, CallOK, DrawerOK, Call, Sent, Read, Value
<1>14. CASE ShowList
  <2>1. list' = refetch.list /\ IsList(refetch.list) /\ refetch' = NoFetch
    BY <1>14 DEF ShowList, FetchOK, NoFetch
  <2>2. UNCHANGED <<role, rows, shown, dialog, form, chosen, call, asked, others, doubts>>
    BY <1>14 DEF ShowList
  <2> QED
    BY <2>1, <2>2 DEF TypeOK, FetchOK, NoFetch, CallOK, DrawerOK, IsList, Call, Sent, Read, Value
<1>15. ASSUME NEW m \in Mutation, Saved(m) PROVE Shapes'
  <2> DEFINE c == call[m]
  <2>1. /\ CallOK' /\ call'[m] = Idle /\ \A n \in Mutation \ {m} : call'[n] = call[n]
        /\ doubts' \subseteq Doubt
        /\ dialog' = IF dialog = m THEN "drawer" ELSE dialog
        /\ form' = form \/ form' = NewForm
        /\ dialog = "none" => shown' = shown
        /\ m \in {"assign", "status"} /\ c.value \in Value(m)
    BY <1>15, SavedEffect
  <2>2. \A n \in Mutation : call'[n].state \in {"idle", "asked", "done", "refused", "reading", "read"}
    BY <2>1 DEF TypeOK, Idle
  <2>3. UNCHANGED <<role, rows, list, chosen, asked, others>> /\ refetch' = [state |-> "asked"]
    BY <1>15 DEF Saved, Invalidate
  <2>4. form' \in [status: TicketStatus, seen: TicketStatus]
    BY <2>1 DEF TypeOK, NewForm, TicketStatus
  <2>5. ASSUME dialog # "none" PROVE shown' \in [ticket: Ticket, row: Row]
    <3>1. shown' = [shown EXCEPT !.row = Patched(shown.row, m, c)]
      BY <1>15, <2>5 DEF Saved
    <3>2. shown \in [ticket: Ticket, row: Row]
      BY <2>5 DEF DrawerOK
    <3>3. Patched(shown.row, m, c) \in Row
      BY <3>2, <2>1 DEF Patched, Row, Value, TypeOK
    <3> QED
      BY <3>1, <3>2, <3>3
  <2>6. dialog' # "none" => dialog # "none"
    BY <2>1
  <2> QED
    BY <2>1, <2>2, <2>3, <2>4, <2>5, <2>6 DEF TypeOK, FetchOK, DrawerOK, Mutation
<1>16. CASE DiagnosisSaved
  <2>1. /\ CallOK' /\ call'["diagnosis"].state = "reading"
        /\ \A n \in {"assign", "status"} : call'[n] = call[n]
    BY <1>16, DiagnosisSavedEffect
  <2>2. \A n \in Mutation : call'[n].state \in {"idle", "asked", "done", "refused", "reading", "read"}
    BY <2>1 DEF TypeOK, Mutation
  <2>3. /\ UNCHANGED <<role, rows, list, shown, form, chosen, asked, others, doubts>>
        /\ refetch' = [state |-> "asked"]
        /\ dialog' = IF dialog = "diagnosis" THEN "drawer" ELSE dialog
    BY <1>16 DEF DiagnosisSaved, Invalidate, Closing
  <2> QED
    BY <2>1, <2>2, <2>3 DEF TypeOK, FetchOK, DrawerOK, Mutation
<1>17. CASE ServeTicket
  <2>1. /\ CallOK' /\ call'["diagnosis"].state \in {"read", "idle"}
        /\ \A n \in {"assign", "status"} : call'[n] = call[n]
    BY <1>17, ServeTicketEffect DEF Idle
  <2>2. \A n \in Mutation : call'[n].state \in {"idle", "asked", "done", "refused", "reading", "read"}
    BY <2>1 DEF TypeOK, Mutation
  <2>3. UNCHANGED <<role, rows, list, refetch, shown, dialog, form, chosen, asked, others, doubts>>
    BY <1>17 DEF ServeTicket
  <2> QED
    BY <2>1, <2>2, <2>3 DEF TypeOK, FetchOK, DrawerOK, IsList
<1>18. CASE DiagnosisRead
  <2>1. /\ CallOK' /\ call'["diagnosis"] = Idle /\ \A n \in {"assign", "status"} : call'[n] = call[n]
        /\ doubts' \subseteq Doubt
        /\ dialog = "none" => shown' = shown
        /\ DrawerOK'
    BY <1>18, DiagnosisReadEffect
  <2>2. \A n \in Mutation : call'[n].state \in {"idle", "asked", "done", "refused", "reading", "read"}
    BY <2>1 DEF TypeOK, Mutation, Idle
  <2>3. UNCHANGED <<role, rows, list, refetch, dialog, form, chosen, asked, others>>
    BY <1>18 DEF DiagnosisRead
  <2>4. dialog # "none" => shown'.ticket \in Ticket /\ shown'.row \in Row
    BY <2>1, <2>3 DEF DrawerOK
  <2> QED
    BY <2>1, <2>2, <2>3, <2>4 DEF TypeOK, FetchOK, IsList
<1>19. ASSUME NEW m \in Mutation, Refused(m) PROVE Shapes'
  <2>1. CallOK' /\ call'[m] = Idle /\ \A n \in Mutation \ {m} : call'[n] = call[n]
    BY <1>19, DropEffect DEF Refused
  <2>2. UNCHANGED <<role, rows, list, refetch, shown, dialog, form, chosen, asked, others, doubts>>
    BY <1>19 DEF Refused
  <2> QED
    BY <2>1, <2>2 DEF TypeOK, FetchOK, DrawerOK, IsList, Idle
<1>20. CASE UNCHANGED vars
  BY <1>20 DEF vars, TypeOK, FetchOK, CallOK, DrawerOK, IsList, Call, Sent, Read, Value
<1> QED
  BY <1>1, <1>2, <1>3, <1>4, <1>5, <1>6, <1>8, <1>9, <1>10, <1>11, <1>12, <1>13, <1>14, <1>15,
     <1>16, <1>17, <1>18, <1>19, <1>20 DEF Next

-----------------------------------------------------------------------------
(* Who changes what *)

\* A call is asked, served, shown and dropped, each by the steps named for it.
LEMMA CallSteps ==
  ASSUME Shapes, [Next]_vars, NEW m \in Mutation
  PROVE  \/ call'[m] = call[m]
         \/ call'[m] = Idle
         \/ \E value \in Value(m) :
              /\ Ask(m, value)
              /\ m = "status" => value = form.status
              /\ m = "assign" => value = chosen
         \/ Serve(m)
         \/ m = "diagnosis" /\ (DiagnosisSaved \/ ServeTicket)
<1> DEFINE Goal ==
      \/ call'[m] = call[m]
      \/ call'[m] = Idle
      \/ \E value \in Value(m) :
           /\ Ask(m, value)
           /\ m = "status" => value = form.status
           /\ m = "assign" => value = chosen
      \/ Serve(m)
      \/ m = "diagnosis" /\ (DiagnosisSaved \/ ServeTicket)
<1> SUFFICES Goal
  OBVIOUS
<1>1. ASSUME NEW n \in Mutation, NEW value \in Value(n), Ask(n, value),
             n = "status" => value = form.status, n = "assign" => value = chosen
      PROVE  Goal
  <2>1. n # m => call'[m] = call[m]
    BY <1>1, AskEffect
  <2>2. n = m => Goal
    BY <1>1
  <2> QED
    BY <2>1, <2>2
<1>2. CASE ConfirmAssign
  <2>1. Ask("assign", chosen) /\ chosen \in Value("assign") /\ "assign" \in Mutation
    BY <1>2 DEF ConfirmAssign, Value, Shapes, TypeOK, Mutation
  <2> HIDE DEF Goal
  <2> QED
    BY <2>1, <1>1
<1>3. CASE ConfirmDiagnosis
  <2>1. PICK finding \in Finding : Ask("diagnosis", finding)
    BY <1>3 DEF ConfirmDiagnosis
  <2>2. finding \in Value("diagnosis") /\ "diagnosis" \in Mutation
    BY DEF Value, Mutation
  <2> HIDE DEF Goal
  <2> QED
    BY <2>1, <2>2, <1>1
<1>4. CASE ConfirmStatus
  <2>1. Ask("status", form.status) /\ form.status \in Value("status") /\ "status" \in Mutation
    BY <1>4 DEF ConfirmStatus, Value, Shapes, TypeOK, Mutation
  <2> HIDE DEF Goal
  <2> QED
    BY <2>1, <1>1
<1>5. ASSUME NEW n \in Mutation, Serve(n) PROVE Goal
  <2>1. n # m => call'[m] = call[m]
    BY <1>5, ServeEffect
  <2> QED
    BY <1>5, <2>1
<1>6. ASSUME NEW n \in Mutation, Saved(n) PROVE Goal
  <2>1. call'[n] = Idle /\ \A x \in Mutation \ {n} : call'[x] = call[x]
    BY <1>6, SavedEffect
  <2> QED
    BY <2>1
<1>7. ASSUME NEW n \in Mutation, Refused(n) PROVE Goal
  <2>1. call'[n] = Idle /\ \A x \in Mutation \ {n} : call'[x] = call[x]
    BY <1>7, DropEffect DEF Refused
  <2> QED
    BY <2>1
<1>8. CASE DiagnosisSaved
  BY <1>8, DiagnosisSavedEffect DEF Mutation
<1>9. CASE ServeTicket
  BY <1>9, ServeTicketEffect DEF Mutation
<1>10. CASE DiagnosisRead
  <2>1. call'["diagnosis"] = Idle /\ \A n \in {"assign", "status"} : call'[n] = call[n]
    BY <1>10, DiagnosisReadEffect
  <2> QED
    BY <2>1 DEF Mutation
<1>11. ASSUME UNCHANGED call PROVE Goal
  BY <1>11
<1> HIDE DEF Goal
<1>12. CASE \E t \in Ticket : OpenDrawer(t)
  BY <1>12, <1>11 DEF OpenDrawer
<1>13. CASE CloseDrawer \/ Cancel \/ (\E target \in TicketStatus : Press(target)) \/ PressAssign
  BY <1>13, <1>11 DEF CloseDrawer, Cancel, Press, PressAssign
<1>14. CASE (\E tech \in Tech : Choose(tech)) \/ (\E t \in Ticket, row \in Row : Other(t, row))
  BY <1>14, <1>11 DEF Choose, Other
<1>15. CASE ServeList \/ ShowList \/ UNCHANGED vars
  BY <1>15, <1>11 DEF ServeList, ShowList, vars
<1> QED
  BY <1>2, <1>3, <1>4, <1>5, <1>6, <1>7, <1>8, <1>9, <1>10, <1>12, <1>13, <1>14, <1>15 DEF Next

\* The server's rows change by an accepted call or by somebody else.
LEMMA RowSteps ==
  ASSUME [Next]_vars
  PROVE  \/ UNCHANGED rows
         \/ \E m \in Mutation : Serve(m)
         \/ \E t \in Ticket, row \in Row : Other(t, row)
BY DEF Next, vars, OpenDrawer, CloseDrawer, Cancel, Press, PressAssign, Choose, ConfirmAssign,
       ConfirmDiagnosis, ConfirmStatus, Ask, ServeList, ShowList, Saved, DiagnosisSaved,
       ServeTicket, DiagnosisRead, Refused

\* The copy of the drawer changes by a card, by an answer, or it goes.
LEMMA DrawerSteps ==
  ASSUME Shapes, [Next]_vars
  PROVE  \/ dialog' = "none"
         \/ \E t \in Ticket : OpenDrawer(t)
         \/ \E m \in Mutation : Saved(m)
         \/ DiagnosisRead
         \/ UNCHANGED shown /\ dialog # "none" /\ doubts \subseteq doubts'
<1> DEFINE Goal ==
         \/ dialog' = "none"
         \/ \E t \in Ticket : OpenDrawer(t)
         \/ \E m \in Mutation : Saved(m)
         \/ DiagnosisRead
         \/ UNCHANGED shown /\ dialog # "none" /\ doubts \subseteq doubts'
<1> SUFFICES Goal
  OBVIOUS
<1>1. ASSUME UNCHANGED <<shown, dialog, doubts>> PROVE Goal
  BY <1>1
<1>2. ASSUME UNCHANGED <<shown, doubts>>, dialog \in Mutation \cup {"drawer"} PROVE Goal
  BY <1>2 DEF Mutation
<1>3. CASE (\E t \in Ticket : OpenDrawer(t)) \/ (\E m \in Mutation : Saved(m)) \/ DiagnosisRead
  BY <1>3
<1>4. CASE CloseDrawer
  BY <1>4 DEF CloseDrawer
<1>5. ASSUME NEW t \in Ticket, NEW row \in Row, Other(t, row) PROVE Goal
  <2>1. UNCHANGED <<shown, dialog>> /\ doubts \subseteq doubts'
    BY <1>5, OtherEffect DEF Other
  <2> QED
    BY <2>1
<1>6. CASE DiagnosisSaved
  <2>1. UNCHANGED <<shown, doubts>> /\ (dialog' = dialog \/ dialog = "diagnosis")
    BY <1>6 DEF DiagnosisSaved, Closing
  <2> QED
    BY <2>1
<1> HIDE DEF Goal
<1>7. CASE Cancel \/ (\E target \in TicketStatus : Press(target)) \/ PressAssign
  BY <1>7, <1>2 DEF Cancel, Press, PressAssign, Mutation
<1>8. CASE (\E tech \in Tech : Choose(tech)) \/ ConfirmAssign \/ ConfirmDiagnosis \/ ConfirmStatus
  BY <1>8, <1>1 DEF Choose, ConfirmAssign, ConfirmDiagnosis, ConfirmStatus, Ask
<1>9. CASE (\E m \in Mutation : Serve(m)) \/ ServeList \/ ShowList \/ ServeTicket
  BY <1>9, <1>1 DEF Serve, ServeList, ShowList, ServeTicket
<1>10. CASE (\E m \in Mutation : Refused(m)) \/ UNCHANGED vars
  BY <1>10, <1>1 DEF Refused, vars
<1> QED
  BY <1>3, <1>4, <1>5, <1>6, <1>7, <1>8, <1>9, <1>10 DEF Next

\* The form is filled by a button, and kept while its dialog is open.
LEMMA FormSteps ==
  ASSUME Shapes, [Next]_vars, dialog' = "status"
  PROVE  \/ \E target \in TicketStatus : Press(target)
         \/ dialog = "status" /\ UNCHANGED form
<1> DEFINE Goal ==
         \/ \E target \in TicketStatus : Press(target)
         \/ dialog = "status" /\ UNCHANGED form
<1> SUFFICES Goal
  OBVIOUS
<1>1. ASSUME UNCHANGED <<dialog, form>> PROVE Goal
  BY <1>1
<1>2. CASE \E target \in TicketStatus : Press(target)
  BY <1>2
<1>3. ASSUME NEW m \in Mutation, Saved(m) PROVE Goal
  <2>1. dialog = "status" /\ UNCHANGED form
    <3>1. dialog' = IF dialog = m THEN "drawer" ELSE dialog
      BY <1>3, SavedEffect
    <3>2. dialog' = "status" => form' = form
      BY <1>3, SavedEffect
    <3> QED
      BY <3>1, <3>2
  <2> QED
    BY <2>1
<1>4. CASE DiagnosisSaved
  BY <1>4 DEF DiagnosisSaved, Closing
<1>5. CASE (\E t \in Ticket : OpenDrawer(t)) \/ CloseDrawer \/ Cancel \/ PressAssign
  BY <1>5 DEF OpenDrawer, CloseDrawer, Cancel, PressAssign
<1> HIDE DEF Goal
<1>6. CASE (\E tech \in Tech : Choose(tech)) \/ ConfirmAssign \/ ConfirmDiagnosis \/ ConfirmStatus
  BY <1>6, <1>1 DEF Choose, ConfirmAssign, ConfirmDiagnosis, ConfirmStatus, Ask
<1>7. CASE (\E m \in Mutation : Serve(m)) \/ (\E t \in Ticket, row \in Row : Other(t, row))
  BY <1>7, <1>1 DEF Serve, Other
<1>8. CASE ServeList \/ ShowList \/ ServeTicket \/ DiagnosisRead
  BY <1>8, <1>1 DEF ServeList, ShowList, ServeTicket, DiagnosisRead
<1>9. CASE (\E m \in Mutation : Refused(m)) \/ UNCHANGED vars
  BY <1>9, <1>1 DEF Refused, vars
<1> QED
  BY <1>2, <1>3, <1>4, <1>5, <1>6, <1>7, <1>8, <1>9 DEF Next

LEMMA ListSteps ==
  ASSUME [Next]_vars
  PROVE  \/ UNCHANGED <<list, refetch>>
         \/ ShowList
         \/ ServeList
         \/ UNCHANGED list /\ refetch' = [state |-> "asked"]
<1> DEFINE Goal ==
         \/ UNCHANGED <<list, refetch>>
         \/ ShowList
         \/ ServeList
         \/ UNCHANGED list /\ refetch' = [state |-> "asked"]
<1> SUFFICES Goal
  OBVIOUS
<1>1. ASSUME UNCHANGED <<list, refetch>> PROVE Goal
  BY <1>1
<1>2. ASSUME UNCHANGED list, refetch' = [state |-> "asked"] PROVE Goal
  BY <1>2
<1>3. CASE ShowList \/ ServeList
  BY <1>3
<1> HIDE DEF Goal
<1>4. CASE (\E t \in Ticket : OpenDrawer(t)) \/ CloseDrawer \/ Cancel \/ PressAssign
  BY <1>4, <1>1 DEF OpenDrawer, CloseDrawer, Cancel, PressAssign
<1>5. CASE (\E target \in TicketStatus : Press(target)) \/ (\E tech \in Tech : Choose(tech))
  BY <1>5, <1>1 DEF Press, Choose
<1>6. CASE ConfirmAssign \/ ConfirmDiagnosis \/ ConfirmStatus
  BY <1>6, <1>1 DEF ConfirmAssign, ConfirmDiagnosis, ConfirmStatus, Ask
<1>7. CASE (\E m \in Mutation : Serve(m)) \/ (\E t \in Ticket, row \in Row : Other(t, row))
  BY <1>7, <1>1 DEF Serve, Other
<1>8. CASE (\E m \in Mutation : Saved(m)) \/ DiagnosisSaved
  BY <1>8, <1>2 DEF Saved, DiagnosisSaved, Invalidate
<1>9. CASE ServeTicket \/ DiagnosisRead
  BY <1>9, <1>1 DEF ServeTicket, DiagnosisRead
<1>10. CASE (\E m \in Mutation : Refused(m)) \/ UNCHANGED vars
  BY <1>10, <1>1 DEF Refused, vars
<1> QED
  BY <1>3, <1>4, <1>5, <1>6, <1>7, <1>8, <1>9, <1>10 DEF Next

-----------------------------------------------------------------------------
(* What the page holds, a ticket was once *)

LEMMA LaterReflexive == ASSUME NEW s \in TicketStatus PROVE s \in Later[s]
BY DEF Later, TicketStatus

LEMMA LaterTyped == ASSUME NEW s \in TicketStatus PROVE Later[s] \subseteq TicketStatus
BY DEF Later, TicketStatus

LEMMA LaterTransitive ==
  ASSUME NEW s \in TicketStatus, NEW u \in Later[s], NEW v \in Later[u]
  PROVE  v \in Later[s]
<1>1. CASE s = "RECEIVED"
  BY <1>1, LaterTyped DEF Later, TicketStatus
<1>2. CASE s = "DIAGNOSING"
  BY <1>2 DEF Later, TicketStatus
<1>3. CASE s = "WAITING_FOR_APPROVAL"
  BY <1>3 DEF Later, TicketStatus
<1>4. CASE s = "APPROVED"
  BY <1>4 DEF Later, TicketStatus
<1>5. CASE s \in {"REPAIR_IN_PROGRESS", "PARTS_REQUIRED"}
  BY <1>5 DEF Later, TicketStatus
<1>6. CASE s \in {"REJECTED", "UNREPAIRABLE", "READY_FOR_COLLECTION"}
  BY <1>6 DEF Later, TicketStatus
<1>7. CASE s \in {"DELIVERED", "CANCELLED"}
  BY <1>7 DEF Later, TicketStatus
<1> QED
  BY <1>1, <1>2, <1>3, <1>4, <1>5, <1>6, <1>7 DEF TicketStatus

LEMMA TransitionsAreLater ==
  ASSUME NEW s \in TicketStatus, NEW u \in VALID_TRANSITIONS[s]
  PROVE  u \in Later[s] /\ u # "RECEIVED"
BY DEF VALID_TRANSITIONS, Later, TicketStatus

\* Whatever a request makes of a row, its status only moves on.
LEMMA ServedIsLater ==
  ASSUME Shapes, NEW m \in Mutation, Serve(m), Accepts(call[m])
  PROVE  LET row == rows[call[m].ticket] IN
         /\ Served(row, call[m]).status \in Later[row.status]
         /\ m = "status" => Served(row, call[m]).status = call[m].value /\ call[m].value # "RECEIVED"
<1> DEFINE c == call[m]
<1> DEFINE row == rows[c.ticket]
<1>1. c.ticket \in Ticket /\ c.value \in Value(m) /\ c.op = m
  <2>1. c.state = "asked"
    BY DEF Serve
  <2> QED
    BY <2>1, CallCases DEF Shapes
<1>2. row \in Row /\ row.status \in TicketStatus
  BY <1>1 DEF Shapes, TypeOK, Row
<1>3. CASE m = "assign"
  BY <1>1, <1>2, <1>3, LaterReflexive DEF Served, Row
<1>4. CASE m = "diagnosis"
  <2>1. row.status = "DIAGNOSING" => c.value \in Later[row.status]
    BY <1>1, <1>4, WorkbenchAssumption DEF Value, Later, TicketStatus
  <2> QED
    BY <1>1, <1>2, <1>4, <2>1, LaterReflexive DEF Served, Row
<1>5. CASE m = "status"
  <2>1. c.value \in VALID_TRANSITIONS[row.status]
    BY <1>1, <1>5 DEF Accepts
  <2>2. c.value \in Later[row.status] /\ c.value # "RECEIVED"
    BY <2>1, <1>2, TransitionsAreLater
  <2> QED
    BY <1>1, <1>2, <1>5, <2>2 DEF Served, Row
<1> QED
  BY <1>3, <1>4, <1>5 DEF Mutation

\* No step takes a ticket back.
LEMMA RowsMoveOn ==
  ASSUME Shapes, [Next]_vars, NEW t \in Ticket
  PROVE  rows'[t].status \in Later[rows[t].status]
<1>1. rows[t].status \in TicketStatus
  BY DEF Shapes, TypeOK, Row
<1>2. CASE UNCHANGED rows
  BY <1>1, <1>2, LaterReflexive
<1>3. ASSUME NEW m \in Mutation, Serve(m) PROVE rows'[t].status \in Later[rows[t].status]
  <2>1. CASE t = call[m].ticket /\ Accepts(call[m])
    <3>1. rows'[t] = Served(rows[t], call[m])
      BY <1>3, <2>1, ServeEffect
    <3> QED
      BY <1>3, <2>1, <3>1, ServedIsLater
  <2>2. CASE ~(t = call[m].ticket /\ Accepts(call[m]))
    <3>1. rows'[t] = rows[t]
      BY <1>3, <2>2, ServeEffect
    <3> QED
      BY <1>1, <3>1, LaterReflexive
  <2> QED
    BY <2>1, <2>2
<1>4. ASSUME NEW u \in Ticket, NEW row \in Row, Other(u, row)
      PROVE  rows'[t].status \in Later[rows[t].status]
  <2>1. CASE t = u
    <3>1. rows'[t] = row
      BY <1>4, <2>1, OtherEffect
    <3>2. row.status \in VALID_TRANSITIONS[rows[t].status] \/ row.status = rows[t].status
      BY <1>4, <2>1, OtherEffect
    <3> QED
      BY <1>1, <3>1, <3>2, LaterReflexive, TransitionsAreLater
  <2>2. CASE t # u
    <3>1. rows'[t] = rows[t]
      BY <1>4, <2>2, OtherEffect
    <3> QED
      BY <1>1, <3>1, LaterReflexive
  <2> QED
    BY <2>1, <2>2
<1> QED
  BY <1>2, <1>3, <1>4, RowSteps

LEMMA OldStaysOld ==
  ASSUME Shapes, [Next]_vars, NEW t \in Ticket, NEW s \in TicketStatus, Old(t, s)
  PROVE  rows'[t].status \in Later[s]
BY RowsMoveOn, LaterTransitive DEF Old

LEMMA NowIsOld ==
  ASSUME Shapes, [Next]_vars, NEW t \in Ticket
  PROVE  /\ Old(t, rows[t].status)
         /\ rows'[t].status \in Later[rows[t].status] /\ rows[t].status \in TicketStatus
<1>1. rows[t].status \in TicketStatus
  BY DEF Shapes, TypeOK, Row
<1> QED
  BY <1>1, RowsMoveOn, LaterReflexive DEF Old

LEMMA InitAges == Init => Ages
<1> SUFFICES ASSUME Init PROVE Ages
  OBVIOUS
<1>1. rows \in [Ticket -> Row]
  BY WorkbenchAssumption DEF Init, Row
<1>2. \A t \in DOMAIN list : Old(t, list[t].status)
  BY <1>1, LaterReflexive, VisibleIsList DEF Init, Old, Row
<1> QED
  BY <1>2 DEF Init, Ages, ListsAreOld, AnswersAreOld, DrawerIsOld, FormIsOld, RequestIsOld,
              NoFetch, Mutation, Idle

LEMMA ListsAreOldStep ==
  ASSUME Shapes, Ages, [Next]_vars
  PROVE  ListsAreOld'
<1>1. \A t \in DOMAIN list : t \in Ticket /\ list[t].status \in TicketStatus
  BY DEF Shapes, TypeOK, Row
<1>2. \A t \in DOMAIN list : rows'[t].status \in Later[list[t].status]
  BY <1>1, OldStaysOld DEF Ages, ListsAreOld
<1>3. ASSUME refetch.state = "answered"
      PROVE  /\ \A t \in DOMAIN refetch.list : t \in Ticket /\ refetch.list[t].status \in TicketStatus
             /\ \A t \in DOMAIN refetch.list : rows'[t].status \in Later[refetch.list[t].status]
  <2>1. IsList(refetch.list)
    BY <1>3 DEF Shapes, FetchOK, NoFetch
  <2>2. \A t \in DOMAIN refetch.list : t \in Ticket /\ refetch.list[t].status \in TicketStatus
    BY <2>1 DEF IsList, Row
  <2> QED
    BY <1>3, <2>2, OldStaysOld DEF Ages, ListsAreOld
<1>4. CASE UNCHANGED <<list, refetch>>
  BY <1>2, <1>3, <1>4 DEF ListsAreOld, Old
<1>5. CASE UNCHANGED list /\ refetch' = [state |-> "asked"]
  BY <1>2, <1>5 DEF ListsAreOld, Old
<1>6. CASE ShowList
  <2>1. list' = refetch.list /\ refetch' = NoFetch /\ refetch.state = "answered"
    BY <1>6 DEF ShowList
  <2> QED
    BY <2>1, <1>3 DEF ListsAreOld, Old, NoFetch
<1>7. CASE ServeList
  <2>1. UNCHANGED <<list, rows>> /\ refetch' = [state |-> "answered", list |-> Visible(rows)]
    BY <1>7 DEF ServeList
  <2>2. rows \in [Ticket -> Row]
    BY DEF Shapes, TypeOK
  <2>3. \A t \in DOMAIN Visible(rows) : rows'[t].status \in Later[Visible(rows)[t].status]
    BY <2>2, NowIsOld, VisibleIsList
  <2>4. refetch'.list = Visible(rows)
    BY <2>1
  <2> QED
    BY <2>1, <2>3, <2>4, <1>2 DEF ListsAreOld, Old
<1> QED
  BY <1>4, <1>5, <1>6, <1>7, ListSteps

LEMMA AnswersAreOldStep ==
  ASSUME Shapes, Ages, [Next]_vars
  PROVE  AnswersAreOld'
<1> DEFINE c == call["status"]
<1> DEFINE d == call["diagnosis"]
<1>1. c'.state = "done" => rows'[c'.ticket].status \in Later[c'.value] /\ c'.value # "RECEIVED"
  <2> SUFFICES ASSUME c'.state = "done"
               PROVE  rows'[c'.ticket].status \in Later[c'.value] /\ c'.value # "RECEIVED"
    OBVIOUS
  <2>1. CASE c' = c
    <3>1. c.state = "done" /\ c.ticket \in Ticket /\ c.value \in TicketStatus
      BY <2>1, CallCases DEF Shapes, Mutation, Value
    <3> QED
      BY <2>1, <3>1, OldStaysOld DEF Ages, AnswersAreOld
  <2>2. CASE c' = Idle
    BY <2>2 DEF Idle
  <2>3. ASSUME NEW value \in Value("status"), Ask("status", value) PROVE FALSE
    <3>1. c'.state = "asked"
      BY <2>3, AskEffect DEF Mutation
    <3> QED
      BY <3>1
  <2>4. CASE Serve("status")
    <3>1. /\ Accepts(c) /\ c'.ticket = c.ticket /\ c'.value = c.value
          /\ rows'[c.ticket] = Served(rows[c.ticket], c)
      BY <2>4, ServeEffect DEF Mutation
    <3>2. c.value \in TicketStatus
      <4>1. c.state = "asked"
        BY <2>4 DEF Serve
      <4> QED
        BY <4>1, CallCases DEF Shapes, Mutation, Value
    <3>3. Served(rows[c.ticket], c).status = c.value /\ c.value # "RECEIVED"
      BY <2>4, <3>1, ServedIsLater DEF Mutation
    <3> QED
      BY <3>1, <3>2, <3>3, LaterReflexive
  <2> QED
    BY <2>1, <2>2, <2>3, <2>4, CallSteps DEF Mutation
<1>2. d'.state = "read" => rows'[d'.ticket].status \in Later[d'.row.status]
  <2> SUFFICES ASSUME d'.state = "read"
               PROVE  rows'[d'.ticket].status \in Later[d'.row.status]
    OBVIOUS
  <2>1. CASE d' = d
    <3>1. d.state = "read" /\ d.ticket \in Ticket /\ d.row.status \in TicketStatus
      BY <2>1, CallCases DEF Shapes, Mutation, Row
    <3> QED
      BY <2>1, <3>1, OldStaysOld DEF Ages, AnswersAreOld
  <2>2. CASE d' = Idle
    BY <2>2 DEF Idle
  <2>3. ASSUME NEW value \in Value("diagnosis"), Ask("diagnosis", value) PROVE FALSE
    <3>1. d'.state = "asked"
      BY <2>3, AskEffect DEF Mutation
    <3> QED
      BY <3>1
  <2>4. CASE Serve("diagnosis")
    <3>1. d'.state \in {"done", "refused"}
      BY <2>4, ServeEffect DEF Mutation
    <3> QED
      BY <3>1
  <2>5. CASE DiagnosisSaved
    <3>1. d'.state = "reading"
      BY <2>5, DiagnosisSavedEffect
    <3> QED
      BY <3>1
  <2>6. CASE ServeTicket
    <3>1. d.ticket \in Ticket /\ d'.ticket = d.ticket /\ d'.row = rows[d.ticket]
      <4>1. d' = (IF Reads(rows, d.ticket)
                  THEN [state |-> "read", ticket |-> d.ticket, row |-> rows[d.ticket]]
                  ELSE Idle)
        BY <2>6 DEF ServeTicket, Shapes, CallOK, Mutation
      <4>2. d.ticket \in Ticket
        BY <2>6, ServeTicketEffect
      <4> QED
        BY <4>1, <4>2 DEF Idle
    <3> QED
      BY <3>1, NowIsOld
  <2> QED
    BY <2>1, <2>2, <2>3, <2>4, <2>5, <2>6, CallSteps DEF Mutation
<1> QED
  BY <1>1, <1>2 DEF AnswersAreOld, Old

LEMMA DrawerIsOldStep ==
  ASSUME Shapes, Ages, [Next]_vars
  PROVE  DrawerIsOld'
<1> SUFFICES ASSUME dialog' # "none", "stray" \notin doubts'
             PROVE  rows'[shown'.ticket].status \in Later[shown'.row.status]
  BY DEF DrawerIsOld, Old
<1>1. ASSUME NEW t \in Ticket, OpenDrawer(t)
      PROVE  rows'[shown'.ticket].status \in Later[shown'.row.status]
  <2>1. shown'.ticket = t /\ shown'.row = list[t] /\ t \in DOMAIN list
    BY <1>1 DEF OpenDrawer
  <2>2. list[t].status \in TicketStatus /\ Old(t, list[t].status)
    BY <2>1 DEF Shapes, TypeOK, Row, Ages, ListsAreOld
  <2> QED
    BY <2>1, <2>2, OldStaysOld
<1>2. ASSUME NEW m \in Mutation, Saved(m)
      PROVE  rows'[shown'.ticket].status \in Later[shown'.row.status]
  <2> DEFINE c == call[m]
  <2>1. dialog # "none"
    BY <1>2, SavedEffect
  <2>2. /\ m \in {"assign", "status"} /\ c.state = "done"
        /\ shown'.ticket = shown.ticket /\ shown'.row = Patched(shown.row, m, c)
        /\ "stray" \notin doubts /\ c.ticket = shown.ticket /\ c.value \in Value(m)
    <3>1. m \in {"assign", "status"} /\ c.state = "done" /\ c.value \in Value(m)
      BY <1>2, SavedEffect
    <3>2. /\ shown'.ticket = shown.ticket /\ shown'.row = Patched(shown.row, m, c)
          /\ doubts \subseteq doubts' /\ ("stray" \notin doubts' => c.ticket = shown.ticket)
      BY <1>2, <2>1, SavedInDrawer
    <3> QED
      BY <3>1, <3>2
  <2>3. shown.row \in Row /\ shown.ticket \in Ticket /\ shown.row.status \in TicketStatus
    BY <2>1 DEF Shapes, TypeOK, Row
  <2>4. CASE m = "assign"
    <3>1. shown'.row.status = shown.row.status
      BY <2>2, <2>3, <2>4 DEF Patched, Row
    <3>2. Old(shown.ticket, shown.row.status)
      BY <2>1, <2>2 DEF Ages, DrawerIsOld
    <3> QED
      BY <2>2, <2>3, <3>1, <3>2, OldStaysOld
  <2>5. CASE m = "status"
    <3>1. shown'.row.status = c.value
      BY <2>2, <2>3, <2>5 DEF Patched, Row
    <3>2. Old(shown.ticket, c.value)
      BY <2>2, <2>5 DEF Ages, AnswersAreOld
    <3> QED
      BY <2>2, <2>3, <2>5, <3>1, <3>2, OldStaysOld DEF Value
  <2> QED
    BY <2>2, <2>4, <2>5
<1>3. CASE DiagnosisRead
  <2> DEFINE d == call["diagnosis"]
  <2>1. dialog # "none"
    BY <1>3 DEF DiagnosisRead
  <2>2. d.state = "read" /\ d \in Read /\ shown'.ticket = d.ticket /\ shown'.row = d.row
    <3>1. d.state = "read" /\ d \in Read
      BY <1>3, DiagnosisReadEffect
    <3>2. shown'.ticket = d.ticket /\ shown'.row = d.row
      BY <1>3, <2>1, DiagnosisReadInDrawer
    <3> QED
      BY <3>1, <3>2
  <2>3. d.ticket \in Ticket /\ d.row.status \in TicketStatus
    BY <2>2 DEF Read, Row
  <2>4. Old(d.ticket, d.row.status)
    BY <2>2 DEF Ages, AnswersAreOld
  <2> QED
    BY <2>2, <2>3, <2>4, OldStaysOld
<1>4. CASE UNCHANGED shown /\ dialog # "none" /\ doubts \subseteq doubts'
  <2>1. shown.ticket \in Ticket /\ shown.row.status \in TicketStatus
    BY <1>4 DEF Shapes, TypeOK, Row
  <2>2. Old(shown.ticket, shown.row.status)
    BY <1>4 DEF Ages, DrawerIsOld
  <2> QED
    BY <1>4, <2>1, <2>2, OldStaysOld
<1> QED
  BY <1>1, <1>2, <1>3, <1>4, DrawerSteps

LEMMA FormIsOldStep ==
  ASSUME Shapes, Ages, [Next]_vars
  PROVE  FormIsOld'
<1> SUFFICES ASSUME dialog' = "status"
             PROVE  /\ form'.status \in getAllowedTransitions(form'.seen)
                    /\ "stray" \notin doubts' => rows'[shown'.ticket].status \in Later[form'.seen]
  BY DEF FormIsOld, Old, getAllowedTransitions
<1>1. ASSUME NEW target \in TicketStatus, Press(target)
      PROVE  /\ form'.status \in getAllowedTransitions(form'.seen)
             /\ "stray" \notin doubts' => rows'[shown'.ticket].status \in Later[form'.seen]
  <2>1. /\ form' = [status |-> target, seen |-> shown.row.status]
        /\ target \in getAllowedTransitions(shown.row.status)
        /\ UNCHANGED <<shown, doubts, rows>> /\ dialog # "none"
    BY <1>1 DEF Press
  <2>2. form'.status = target /\ form'.seen = shown.row.status
    BY <2>1
  <2>3. "stray" \notin doubts => Old(shown.ticket, shown.row.status)
    BY <2>1 DEF Ages, DrawerIsOld
  <2> QED
    BY <2>1, <2>2, <2>3 DEF Old
<1>2. ASSUME dialog = "status", UNCHANGED form
      PROVE  /\ form'.status \in getAllowedTransitions(form'.seen)
             /\ "stray" \notin doubts' => rows'[shown'.ticket].status \in Later[form'.seen]
  <2>1. form'.status \in getAllowedTransitions(form'.seen)
    BY <1>2 DEF Ages, FormIsOld
  <2> SUFFICES ASSUME "stray" \notin doubts'
               PROVE  rows'[shown'.ticket].status \in Later[form.seen]
    BY <1>2, <2>1
  <2>2. form.seen \in TicketStatus /\ shown.ticket \in Ticket
    BY <1>2 DEF Shapes, TypeOK
  <2>3. shown'.ticket = shown.ticket /\ doubts \subseteq doubts'
    <3>1. ~\E t \in Ticket : OpenDrawer(t)
      BY <1>2 DEF OpenDrawer
    <3>2. ASSUME NEW m \in Mutation, Saved(m)
          PROVE  shown'.ticket = shown.ticket /\ doubts \subseteq doubts'
      BY <1>2, <3>2, SavedInDrawer
    <3>3. CASE DiagnosisRead
      <4>1. /\ shown'.ticket = call["diagnosis"].ticket /\ doubts \subseteq doubts'
            /\ ("stray" \notin doubts' => call["diagnosis"].ticket = shown.ticket)
        BY <1>2, <3>3, DiagnosisReadInDrawer
      <4> QED
        BY <4>1
    <3> QED
      BY <3>1, <3>2, <3>3, DrawerSteps
  <2>4. Old(shown.ticket, form.seen)
    BY <1>2, <2>3 DEF Ages, FormIsOld
  <2> QED
    BY <2>2, <2>3, <2>4, OldStaysOld
<1> QED
  BY <1>1, <1>2, FormSteps

LEMMA RequestIsOldStep ==
  ASSUME Shapes, Ages, [Next]_vars
  PROVE  RequestIsOld'
<1> DEFINE c == call["status"]
<1> SUFFICES ASSUME c'.state = "asked"
             PROVE  /\ c'.value \in getAllowedTransitions(c'.seen)
                    /\ "stray" \notin c'.doubts => rows'[c'.ticket].status \in Later[c'.seen]
  BY DEF RequestIsOld, Old, getAllowedTransitions
<1>1. CASE c' = c
  <2>1. c.state = "asked" /\ c.ticket \in Ticket /\ c.seen \in TicketStatus
    BY <1>1, CallCases DEF Shapes, Mutation
  <2> QED
    BY <1>1, <2>1, OldStaysOld DEF Ages, RequestIsOld
<1>2. CASE c' = Idle
  BY <1>2 DEF Idle
<1>3. CASE Ask("status", form.status)
  <2>1. form.status \in Value("status")
    BY DEF Shapes, TypeOK, Value
  <2>2. /\ c'.ticket = shown.ticket /\ c'.value = form.status
        /\ c'.seen = form.seen /\ c'.doubts = doubts
    BY <1>3, <2>1, AskEffect DEF Mutation
  <2>3. dialog = "status" /\ UNCHANGED rows
    BY <1>3 DEF Ask
  <2> QED
    BY <2>2, <2>3 DEF Ages, FormIsOld, Old
<1>4. CASE Serve("status")
  <2>1. c'.state \in {"done", "refused"}
    BY <1>4, ServeEffect DEF Mutation
  <2> QED
    BY <2>1
<1>5. \/ c' = c \/ c' = Idle \/ Serve("status")
      \/ Ask("status", form.status)
  BY CallSteps DEF Mutation
<1> QED
  BY <1>1, <1>2, <1>3, <1>4, <1>5

LEMMA AgesStep ==
  ASSUME Shapes, Ages, [Next]_vars
  PROVE  Ages'
BY ListsAreOldStep, AnswersAreOldStep, DrawerIsOldStep, FormIsOldStep, RequestIsOldStep DEF Ages

-----------------------------------------------------------------------------
(* The drawer, while it is trusted *)

LEMMA InitDrawer == Init => Drawer
BY DEF Init, Drawer, TechnicianTold, StatusTold, DiagnosisReadable, IntakeIsPast, Trusted

\* A step that touches none of it.
LEMMA DrawerQuiet ==
  ASSUME Shapes, Drawer, UNCHANGED <<role, rows, shown, call, doubts, form>>,
         dialog' = dialog \/ dialog' \in {"none", "assign"}, dialog' # "none" => dialog # "none"
  PROVE  Drawer'
BY DEF Drawer, TechnicianTold, StatusTold, DiagnosisReadable, IntakeIsPast, Trusted, Pending,
       UnderWay, Now, Reads

LEMMA DrawerCancel ==
  ASSUME Shapes, Drawer, Cancel
  PROVE  Drawer'
<1>1. /\ UNCHANGED <<role, rows, shown, call, doubts>>
      /\ dialog' = "drawer" /\ dialog # "none"
  BY DEF Cancel, Mutation
<1> QED
  BY <1>1 DEF Drawer, TechnicianTold, StatusTold, DiagnosisReadable, IntakeIsPast, Trusted,
              Pending, UnderWay, Now, Reads

LEMMA DrawerOpened ==
  ASSUME Shapes, NEW t \in Ticket, OpenDrawer(t)
  PROVE  Drawer'
<1> SUFFICES ASSUME Trusted' PROVE Drawer'
  BY DEF Drawer, TechnicianTold, StatusTold, DiagnosisReadable, IntakeIsPast
<1>1. list[t] = rows[t] /\ \A m \in Mutation : ~About(t, m)
  BY DEF OpenDrawer, Trusted, Unless
<1>2. shown'.ticket = t /\ shown'.row = list[t] /\ dialog' = "drawer" /\ UNCHANGED <<rows, call>>
  BY DEF OpenDrawer
<1>3. \A m \in Mutation : ~UnderWay(m)' /\ ~Pending(m)'
  <2>1. \A m \in Mutation :
          call[m].ticket = t => call'[m].state \notin {"asked", "done", "reading", "read"}
    BY <1>1, <1>2 DEF About
  <2> QED
    BY <2>1, <1>2 DEF UnderWay, Pending
<1>4. Now' = shown'.row
  BY <1>1, <1>2 DEF Now
<1> QED
  BY <1>2, <1>3, <1>4 DEF Drawer, TechnicianTold, StatusTold, DiagnosisReadable, IntakeIsPast, Mutation

LEMMA DrawerPressed ==
  ASSUME Shapes, Drawer, NEW target \in TicketStatus, Press(target)
  PROVE  Drawer'
<1> SUFFICES ASSUME Trusted' PROVE Drawer'
  BY DEF Drawer, TechnicianTold, StatusTold, DiagnosisReadable, IntakeIsPast
<1>1. /\ UNCHANGED <<role, rows, shown, call, doubts>> /\ dialog = "drawer"
      /\ target \in getAllowedTransitions(shown.row.status)
      /\ \/ OpensDiagnosis(shown.row, target) /\ dialog' = "diagnosis"
         \/ /\ ~OpensDiagnosis(shown.row, target) /\ dialog' = "status"
            /\ form'.status = target
  BY DEF Press
<1>2. Trusted
  BY <1>1 DEF Trusted
<1>3. TechnicianTold' /\ StatusTold' /\ DiagnosisReadable'
  BY <1>1, <1>2 DEF Drawer, TechnicianTold, StatusTold, DiagnosisReadable, Pending, Now, Reads
<1>4. shown.row.status \in TicketStatus
  BY <1>1 DEF Shapes, TypeOK, Row
<1>5. OpensDiagnosis(shown.row, target) => shown.row.status # "RECEIVED"
  BY <1>1 DEF OpensDiagnosis, getAllowedTransitions
<1>6. ~OpensDiagnosis(shown.row, target) /\ target = "DIAGNOSING" => shown.row.status = "RECEIVED"
  BY <1>1, <1>4 DEF OpensDiagnosis, getAllowedTransitions, TicketStatus
<1>7. IntakeIsPast'
  BY <1>1, <1>2, <1>5, <1>6 DEF Drawer, IntakeIsPast, UnderWay
<1> QED
  BY <1>3, <1>7 DEF Drawer

LEMMA DrawerAsked ==
  ASSUME Shapes, Drawer, NEW m \in Mutation, NEW value \in Value(m), Ask(m, value),
         m = "status" => value = form.status
  PROVE  Drawer'
<1> SUFFICES ASSUME Trusted' PROVE Drawer'
  BY DEF Drawer, TechnicianTold, StatusTold, DiagnosisReadable, IntakeIsPast
<1>1. UNCHANGED <<role, rows, shown, dialog, doubts, form>> /\ dialog = m
  BY DEF Ask
<1>2. Trusted
  BY <1>1 DEF Trusted
<1>3. /\ call[m] = Idle /\ call'[m].state = "asked" /\ call'[m].value = value
      /\ \A n \in Mutation \ {m} : call'[n] = call[n]
  BY AskEffect
<1>4. \A n \in Mutation : Pending(n)' <=> Pending(n)
  BY <1>1, <1>3 DEF Pending, Idle
<1>5. \A n \in Mutation \ {m} : (UnderWay(n)' <=> UnderWay(n)) /\ call'[n] = call[n]
  BY <1>1, <1>3 DEF UnderWay
<1>6. TechnicianTold' /\ StatusTold' /\ DiagnosisReadable'
  <2>1. \A n \in Mutation : Pending(n) => call'[n] = call[n]
    BY <1>3 DEF Pending, Idle
  <2> QED
    BY <2>1, <1>1, <1>2, <1>4
       DEF Drawer, TechnicianTold, StatusTold, DiagnosisReadable, Now, Reads, Mutation
<1>7. IntakeIsPast'
  <2>1. CASE m = "assign"
    BY <2>1, <1>1, <1>2, <1>5 DEF Drawer, IntakeIsPast, Mutation
  <2>2. CASE m = "status"
    BY <2>2, <1>1, <1>2, <1>3, <1>5 DEF Drawer, IntakeIsPast, Mutation
  <2>3. CASE m = "diagnosis"
    BY <2>3, <1>1, <1>2, <1>3, <1>5 DEF Drawer, IntakeIsPast, Mutation
  <2> QED
    BY <2>1, <2>2, <2>3 DEF Mutation
<1> QED
  BY <1>6, <1>7 DEF Drawer

LEMMA DrawerServed ==
  ASSUME Shapes, Drawer, NEW m \in Mutation, Serve(m)
  PROVE  Drawer'
<1> SUFFICES ASSUME Trusted' PROVE Drawer'
  BY DEF Drawer, TechnicianTold, StatusTold, DiagnosisReadable, IntakeIsPast
<1> DEFINE c == call[m]
<1> DEFINE Here == Accepts(c) /\ c.ticket = shown.ticket
<1>1. UNCHANGED <<role, shown, dialog, doubts, form>>
  BY DEF Serve
<1>2. Trusted /\ shown.ticket \in Ticket /\ rows \in [Ticket -> Row]
  BY <1>1 DEF Trusted, Shapes, TypeOK
<1>3. /\ c.state = "asked" /\ call'[m].state = (IF Accepts(c) THEN "done" ELSE "refused")
      /\ call'[m].ticket = c.ticket /\ call'[m].value = c.value
      /\ \A n \in Mutation \ {m} : call'[n] = call[n]
  BY ServeEffect
<1>4. c.op = m /\ c.value \in Value(m)
  BY <1>3, CallCases DEF Shapes
<1>5. \A n \in Mutation \ {m} : (Pending(n)' <=> Pending(n)) /\ (UnderWay(n)' <=> UnderWay(n))
  BY <1>1, <1>3 DEF Pending, UnderWay
<1>6. ~Pending(m) /\ (Pending(m)' <=> Here)
  BY <1>1, <1>3 DEF Pending
<1>7. UnderWay(m)' => UnderWay(m)
  BY <1>1, <1>3 DEF UnderWay
<1>8. \A n \in Mutation : call'[n].value = call[n].value
  BY <1>3
<1>9. IntakeIsPast'
  <2>1. UnderWay("diagnosis")' => UnderWay("diagnosis")
    BY <1>5, <1>7 DEF Mutation
  <2>2. call'["diagnosis"].state = "read" => call'["diagnosis"] = call["diagnosis"]
    BY <1>3 DEF Mutation
  <2>3. UnderWay("status")' => UnderWay("status")
    BY <1>5, <1>7 DEF Mutation
  <2>4. call'["status"].value = call["status"].value
    BY <1>8 DEF Mutation
  <2> QED
    BY <2>1, <2>2, <2>3, <2>4, <1>1, <1>2 DEF Drawer, IntakeIsPast
<1>10. CASE ~Here
  <2>1. Now' = Now
    <3>1. CASE shown.ticket = c.ticket
      <4>1. ~Accepts(c)
        BY <1>10, <3>1
      <4>2. rows'[c.ticket] = rows[c.ticket]
        BY <4>1, ServeEffect
      <4> QED
        BY <4>2, <3>1, <1>1 DEF Now
    <3>2. CASE shown.ticket # c.ticket
      <4>1. rows'[shown.ticket] = rows[shown.ticket]
        BY <1>2, <3>2, ServeEffect
      <4> QED
        BY <4>1, <1>1 DEF Now
    <3> QED
      BY <3>1, <3>2
  <2>2. \A n \in Mutation : Pending(n)' <=> Pending(n)
    BY <1>5, <1>6, <1>10
  <2>3. rows'[shown.ticket] = rows[shown.ticket]
    BY <2>1, <1>1 DEF Now
  <2>4. TechnicianTold' /\ StatusTold' /\ DiagnosisReadable'
    BY <2>1, <2>2, <2>3, <1>1, <1>2, <1>8
       DEF Drawer, TechnicianTold, StatusTold, DiagnosisReadable, Reads, Mutation
  <2> QED
    BY <2>4, <1>9 DEF Drawer
<1>11. CASE Here
  <2>1. Now' = Served(Now, c) /\ Now \in Row /\ Reads(rows, shown.ticket)
    <3>1. rows'[c.ticket] = Served(rows[c.ticket], c)
      BY <1>11, ServeEffect
    <3> QED
      BY <3>1, <1>1, <1>2, <1>11 DEF Now, Accepts
  <2>2. rows'[shown.ticket] = Now'
    BY <1>1 DEF Now
  <2>3. CASE m = "assign"
    <3>1. Now'.technician = c.value /\ Now'.status = Now.status
      BY <2>1, <2>3, <1>4 DEF Served, Row
    <3>2. role # "TECHNICIAN"
      BY <2>3, <1>4, <1>11 DEF Accepts
    <3> QED
      BY <2>3, <3>1, <3>2, <1>1, <1>2, <1>5, <1>6, <1>8, <1>9, <1>11
         DEF Drawer, TechnicianTold, StatusTold, DiagnosisReadable, Reads, Mutation
  <2>4. CASE m = "status"
    <3>1. Now'.status = c.value /\ Now'.technician = Now.technician
      BY <2>1, <2>4, <1>4 DEF Served, Row
    <3>2. Reads(rows, shown.ticket)'
      BY <2>1, <2>2, <3>1, <1>1 DEF Reads, Now
    <3> QED
      BY <2>4, <3>1, <3>2, <1>1, <1>2, <1>5, <1>6, <1>8, <1>9, <1>11
         DEF Drawer, TechnicianTold, StatusTold, DiagnosisReadable, Mutation
  <2>5. CASE m = "diagnosis"
    <3>1. /\ Now'.technician = Now.technician
          /\ Now.status # "DIAGNOSING" => Now'.status = Now.status
      BY <2>1, <2>5, <1>4 DEF Served, Row
    <3>2. Reads(rows, shown.ticket)'
      BY <2>1, <2>2, <3>1, <1>1 DEF Reads, Now
    <3>3. ASSUME Pending("status") PROVE Now'.status = call["status"].value
      <4>1. Now.status = call["status"].value
        BY <1>2, <3>3 DEF Drawer, StatusTold
      <4>2. UnderWay("status") /\ UnderWay("diagnosis")
        BY <3>3, <2>5, <1>3, <1>11 DEF Pending, UnderWay
      <4>3. call["status"].value # "DIAGNOSING"
        BY <4>2, <1>2 DEF Drawer, IntakeIsPast
      <4> QED
        BY <4>1, <4>3, <3>1
    <3> QED
      BY <2>5, <3>1, <3>2, <3>3, <1>1, <1>2, <1>5, <1>6, <1>8, <1>9, <1>11
         DEF Drawer, TechnicianTold, StatusTold, DiagnosisReadable, Mutation
  <2> QED
    BY <2>3, <2>4, <2>5 DEF Mutation
<1> QED
  BY <1>10, <1>11

LEMMA DrawerOthers ==
  ASSUME Shapes, Drawer, NEW t \in Ticket, NEW row \in Row, Other(t, row)
  PROVE  Drawer'
<1> SUFFICES ASSUME Trusted' PROVE Drawer'
  BY DEF Drawer, TechnicianTold, StatusTold, DiagnosisReadable, IntakeIsPast
<1>1. UNCHANGED <<role, shown, dialog, form, call>>
  BY DEF Other
<1>2. /\ doubts \subseteq doubts' /\ ("late" \notin doubts' => shown.ticket # t)
      /\ \A u \in Ticket \ {t} : rows'[u] = rows[u]
  BY OtherEffect
<1>3. Trusted /\ shown.ticket \in Ticket /\ shown.ticket # t /\ doubts' = doubts
  BY <1>1, <1>2 DEF Trusted, Shapes, TypeOK
<1>4. rows'[shown.ticket] = rows[shown.ticket]
  BY <1>2, <1>3
<1> QED
  BY <1>1, <1>3, <1>4 DEF Drawer, TechnicianTold, StatusTold, DiagnosisReadable, IntakeIsPast,
                          Pending, UnderWay, Now, Reads

LEMMA DrawerSaved ==
  ASSUME Shapes, Ages, Drawer, NEW m \in Mutation, Saved(m)
  PROVE  Drawer'
<1> SUFFICES ASSUME Trusted' PROVE Drawer'
  BY DEF Drawer, TechnicianTold, StatusTold, DiagnosisReadable, IntakeIsPast
<1> DEFINE c == call[m]
<1>1. /\ m \in {"assign", "status"} /\ c.state = "done" /\ c.value \in Value(m)
      /\ dialog' = (IF dialog = m THEN "drawer" ELSE dialog) /\ dialog' # m
      /\ (dialog' = "status" => form' = form)
  BY SavedEffect
<1>2. call'[m] = Idle /\ \A n \in Mutation \ {m} : call'[n] = call[n]
  BY SavedEffect
<1>3. UNCHANGED <<role, rows>>
  BY DEF Saved
<1>4. dialog # "none"
  BY <1>1 DEF Trusted
<1>5. /\ shown'.ticket = shown.ticket /\ shown'.row = Patched(shown.row, m, c)
      /\ doubts = {} /\ c.ticket = shown.ticket /\ (m = "assign" => chosen = c.value)
  BY <1>4, SavedInDrawer DEF Trusted
<1>6. Trusted /\ shown.row \in Row /\ Pending(m)
  BY <1>1, <1>4, <1>5 DEF Trusted, Pending, Shapes, TypeOK
<1>7. ~Pending(m)' /\ ~UnderWay(m)'
  BY <1>2 DEF Pending, UnderWay, Idle
<1>8. \A n \in Mutation \ {m} : (Pending(n)' <=> Pending(n)) /\ (UnderWay(n)' <=> UnderWay(n))
  BY <1>2, <1>5 DEF Pending, UnderWay
<1>9. Now' = Now
  BY <1>3, <1>5 DEF Now
<1>10. DiagnosisReadable'
  BY <1>1, <1>3, <1>5, <1>6, <1>8 DEF Drawer, DiagnosisReadable, Reads, Mutation
<1>11. CASE m = "assign"
  <2>1. shown'.row.technician = c.value /\ shown'.row.status = shown.row.status
    BY <1>5, <1>6, <1>11 DEF Patched, Row
  <2>2. TechnicianTold'
    BY <2>1, <1>6, <1>7, <1>9, <1>11 DEF Drawer, TechnicianTold
  <2>3. StatusTold'
    BY <2>1, <1>2, <1>6, <1>8, <1>9, <1>11 DEF Drawer, StatusTold, Mutation
  <2>4. IntakeIsPast'
    <3>1. \/ dialog' = "diagnosis" /\ dialog = "diagnosis"
          \/ dialog' = "status" /\ dialog = "status" /\ form' = form
          \/ dialog' \notin {"diagnosis", "status"}
      BY <1>1, <1>11
    <3> QED
      BY <3>1, <2>1, <1>2, <1>6, <1>8, <1>11 DEF Drawer, IntakeIsPast, Mutation
  <2> QED
    BY <2>2, <2>3, <2>4, <1>10 DEF Drawer
<1>12. CASE m = "status"
  <2>1. shown'.row.status = c.value /\ shown'.row.technician = shown.row.technician
    BY <1>5, <1>6, <1>12 DEF Patched, Row
  <2>2. TechnicianTold'
    BY <2>1, <1>2, <1>6, <1>8, <1>9, <1>12 DEF Drawer, TechnicianTold, Mutation
  <2>3. StatusTold'
    BY <2>1, <1>6, <1>7, <1>9, <1>12 DEF Drawer, StatusTold
  <2>4. c.value # "RECEIVED"
    BY <1>1, <1>12 DEF Ages, AnswersAreOld
  <2>5. call'["diagnosis"] = call["diagnosis"] /\ (UnderWay("diagnosis")' <=> UnderWay("diagnosis"))
    BY <1>2, <1>8, <1>12 DEF Mutation
  <2>6. IntakeIsPast'
    BY <2>1, <2>4, <2>5, <1>1, <1>6, <1>7, <1>12 DEF Drawer, IntakeIsPast
  <2> QED
    BY <2>2, <2>3, <2>6, <1>10 DEF Drawer
<1> QED
  BY <1>1, <1>11, <1>12

LEMMA DrawerDiagnosisSaved ==
  ASSUME Shapes, Drawer, DiagnosisSaved
  PROVE  Drawer'
<1> SUFFICES ASSUME Trusted' PROVE Drawer'
  BY DEF Drawer, TechnicianTold, StatusTold, DiagnosisReadable, IntakeIsPast
<1>1. /\ call["diagnosis"].state = "done" /\ call'["diagnosis"].state = "reading"
      /\ call'["diagnosis"].ticket = call["diagnosis"].ticket
      /\ call'["assign"] = call["assign"] /\ call'["status"] = call["status"]
  BY DiagnosisSavedEffect
<1>2. /\ UNCHANGED <<role, rows, shown, form, doubts>>
      /\ dialog' = IF dialog = "diagnosis" THEN "drawer" ELSE dialog
  BY DEF DiagnosisSaved, Closing
<1>3. Trusted
  BY <1>2 DEF Trusted
<1>4. \A n \in Mutation : (Pending(n)' <=> Pending(n)) /\ (UnderWay(n)' <=> UnderWay(n))
  BY <1>1, <1>2 DEF Pending, UnderWay, Mutation
<1>5. TechnicianTold' /\ StatusTold' /\ DiagnosisReadable'
  BY <1>1, <1>2, <1>3, <1>4 DEF Drawer, TechnicianTold, StatusTold, DiagnosisReadable, Now, Reads, Mutation
<1>6. IntakeIsPast'
  BY <1>1, <1>2, <1>3, <1>4 DEF Drawer, IntakeIsPast, Mutation
<1> QED
  BY <1>5, <1>6 DEF Drawer

LEMMA DrawerTicketServed ==
  ASSUME Shapes, Ages, Drawer, ServeTicket
  PROVE  Drawer'
<1> SUFFICES ASSUME Trusted' PROVE Drawer'
  BY DEF Drawer, TechnicianTold, StatusTold, DiagnosisReadable, IntakeIsPast
<1> DEFINE d == call["diagnosis"]
<1>1. /\ d.state = "reading"
      /\ call'["assign"] = call["assign"] /\ call'["status"] = call["status"]
  BY ServeTicketEffect
<1>2. UNCHANGED <<role, rows, shown, form, doubts, dialog>>
  BY DEF ServeTicket
<1>3. Trusted
  BY <1>2 DEF Trusted
<1>4. \/ Reads(rows, d.ticket) /\ d'.state = "read" /\ d'.ticket = d.ticket /\ d'.row = rows[d.ticket]
      \/ ~Reads(rows, d.ticket) /\ d' = Idle
  <2>1. d' = (IF Reads(rows, d.ticket)
              THEN [state |-> "read", ticket |-> d.ticket, row |-> rows[d.ticket]]
              ELSE Idle)
    BY DEF ServeTicket, Shapes, CallOK, Mutation
  <2> QED
    BY <2>1
<1>5. Pending("diagnosis") => Reads(rows, d.ticket)
  BY <1>3 DEF Drawer, DiagnosisReadable, Pending
<1>6. \A n \in Mutation : (Pending(n)' <=> Pending(n)) /\ (UnderWay(n)' <=> UnderWay(n))
  <2>1. Pending("diagnosis")' <=> Pending("diagnosis")
    BY <1>1, <1>2, <1>4, <1>5 DEF Pending, Idle
  <2>2. UnderWay("diagnosis")' <=> UnderWay("diagnosis")
    BY <1>1, <1>2, <1>4, <1>5 DEF UnderWay, Pending, Idle
  <2> QED
    BY <2>1, <2>2, <1>1, <1>2 DEF Pending, UnderWay, Mutation
<1>7. TechnicianTold' /\ StatusTold' /\ DiagnosisReadable'
  BY <1>1, <1>2, <1>3, <1>6 DEF Drawer, TechnicianTold, StatusTold, DiagnosisReadable, Now, Reads, Mutation
<1>8. ASSUME UnderWay("diagnosis")', d'.state = "read" PROVE d'.row.status # "RECEIVED"
  <2>1. UnderWay("diagnosis") /\ d.ticket = shown.ticket /\ d'.row = rows[d.ticket]
    BY <1>4, <1>6, <1>8 DEF UnderWay, Mutation, Idle
  <2>2. shown.row.status # "RECEIVED" /\ shown.row.status \in TicketStatus
    BY <2>1, <1>3 DEF Drawer, IntakeIsPast, Trusted, Shapes, TypeOK, Row
  <2>3. rows[shown.ticket].status \in Later[shown.row.status]
    BY <1>3 DEF Ages, DrawerIsOld, Old, Trusted
  <2>4. "RECEIVED" \notin Later[shown.row.status]
    BY <2>2 DEF Later, TicketStatus
  <2> QED
    BY <2>1, <2>3, <2>4
<1>9. IntakeIsPast'
  BY <1>1, <1>2, <1>3, <1>6, <1>8 DEF Drawer, IntakeIsPast, Mutation
<1> QED
  BY <1>7, <1>9 DEF Drawer

LEMMA DrawerDiagnosisRead ==
  ASSUME Shapes, Drawer, DiagnosisRead
  PROVE  Drawer'
<1> SUFFICES ASSUME Trusted' PROVE Drawer'
  BY DEF Drawer, TechnicianTold, StatusTold, DiagnosisReadable, IntakeIsPast
<1> DEFINE d == call["diagnosis"]
<1>1. UNCHANGED <<role, rows, dialog, form>> /\ d.state = "read"
  BY DEF DiagnosisRead
<1>2. dialog # "none"
  BY <1>1 DEF Trusted
<1>3. call'["diagnosis"] = Idle /\ call'["assign"] = call["assign"] /\ call'["status"] = call["status"]
  BY DiagnosisReadEffect
<1>4. /\ shown'.ticket = shown.ticket /\ d.ticket = shown.ticket
      /\ shown'.row = d.row /\ d.row = rows[shown.ticket] /\ doubts = {}
  BY <1>2, DiagnosisReadInDrawer DEF Trusted
<1>5. Trusted /\ UnderWay("diagnosis") /\ Now' = Now /\ shown'.row = Now
  BY <1>1, <1>2, <1>4 DEF Trusted, UnderWay, Now
<1>6. ~Pending("diagnosis")' /\ ~UnderWay("diagnosis")'
  BY <1>3 DEF Pending, UnderWay, Idle
<1>7. \A n \in {"assign", "status"} : (Pending(n)' <=> Pending(n)) /\ (UnderWay(n)' <=> UnderWay(n))
  BY <1>3, <1>4 DEF Pending, UnderWay
<1>8. TechnicianTold' /\ StatusTold' /\ DiagnosisReadable'
  BY <1>3, <1>5, <1>6, <1>7 DEF Drawer, TechnicianTold, StatusTold, DiagnosisReadable
<1>9. /\ shown.row.status # "RECEIVED" /\ d.row.status # "RECEIVED"
      /\ (UnderWay("status") => call["status"].value # "DIAGNOSING")
      /\ (dialog = "status" => form.status # "DIAGNOSING")
  BY <1>1, <1>5 DEF Drawer, IntakeIsPast
<1>10. IntakeIsPast'
  BY <1>1, <1>3, <1>4, <1>6, <1>7, <1>9 DEF IntakeIsPast
<1> QED
  BY <1>8, <1>10 DEF Drawer

LEMMA DrawerRefused ==
  ASSUME Shapes, Drawer, NEW m \in Mutation, Refused(m)
  PROVE  Drawer'
<1>1. UNCHANGED <<role, rows, shown, form, doubts, dialog>> /\ call[m].state = "refused"
  BY DEF Refused
<1>2. call'[m] = Idle /\ \A n \in Mutation \ {m} : call'[n] = call[n]
  BY DropEffect DEF Refused
<1>3. \A n \in Mutation : (Pending(n)' <=> Pending(n)) /\ (UnderWay(n)' <=> UnderWay(n))
  BY <1>1, <1>2 DEF Pending, UnderWay, Idle
<1>4. \A n \in Mutation : UnderWay(n) \/ Pending(n) => call'[n] = call[n]
  BY <1>1, <1>2 DEF Pending, UnderWay
<1> QED
  BY <1>1, <1>3, <1>4 DEF Drawer, TechnicianTold, StatusTold, DiagnosisReadable, IntakeIsPast,
                          Trusted, Now, Reads, Mutation

LEMMA DrawerStep ==
  ASSUME Shapes, Ages, Drawer, [Next]_vars
  PROVE  Drawer'
<1>1. ASSUME NEW t \in Ticket, OpenDrawer(t) PROVE Drawer'
  BY <1>1, DrawerOpened
<1>2. CASE CloseDrawer
  <2>1. ~Trusted'
    BY <1>2 DEF CloseDrawer, Trusted
  <2> QED
    BY <2>1 DEF Drawer, TechnicianTold, StatusTold, DiagnosisReadable, IntakeIsPast
<1>3. CASE Cancel
  BY <1>3, DrawerCancel
<1>4. ASSUME NEW target \in TicketStatus, Press(target) PROVE Drawer'
  BY <1>4, DrawerPressed
<1>5. CASE PressAssign
  <2>1. /\ UNCHANGED <<role, rows, shown, call, doubts, form>>
        /\ dialog' = "assign" /\ dialog # "none"
    BY <1>5 DEF PressAssign
  <2> QED
    BY <2>1, DrawerQuiet
<1>6. CASE (\E tech \in Tech : Choose(tech)) \/ ServeList \/ ShowList \/ UNCHANGED vars
  <2>1. UNCHANGED <<role, rows, shown, call, doubts, form, dialog>>
    BY <1>6 DEF Choose, ServeList, ShowList, vars
  <2> QED
    BY <2>1, DrawerQuiet
<1>7. CASE ConfirmAssign
  <2>1. Ask("assign", chosen) /\ chosen \in Value("assign") /\ "assign" \in Mutation
    BY <1>7 DEF ConfirmAssign, Value, Shapes, TypeOK, Mutation
  <2> QED
    BY <2>1, DrawerAsked
<1>8. CASE ConfirmDiagnosis
  <2>1. PICK finding \in Finding : Ask("diagnosis", finding)
    BY <1>8 DEF ConfirmDiagnosis
  <2>2. finding \in Value("diagnosis") /\ "diagnosis" \in Mutation
    BY DEF Value, Mutation
  <2> QED
    BY <2>1, <2>2, DrawerAsked
<1>9. CASE ConfirmStatus
  <2>1. Ask("status", form.status) /\ form.status \in Value("status") /\ "status" \in Mutation
    BY <1>9 DEF ConfirmStatus, Value, Shapes, TypeOK, Mutation
  <2> QED
    BY <2>1, DrawerAsked
<1>10. ASSUME NEW m \in Mutation, Serve(m) PROVE Drawer'
  BY <1>10, DrawerServed
<1>11. ASSUME NEW t \in Ticket, NEW row \in Row, Other(t, row) PROVE Drawer'
  BY <1>11, DrawerOthers
<1>12. ASSUME NEW m \in Mutation, Saved(m) PROVE Drawer'
  BY <1>12, DrawerSaved
<1>13. CASE DiagnosisSaved \/ ServeTicket \/ DiagnosisRead
  BY <1>13, DrawerDiagnosisSaved, DrawerTicketServed, DrawerDiagnosisRead
<1>14. ASSUME NEW m \in Mutation, Refused(m) PROVE Drawer'
  BY <1>14, DrawerRefused
<1> QED
  BY <1>1, <1>2, <1>3, <1>4, <1>5, <1>6, <1>7, <1>8, <1>9, <1>10, <1>11, <1>12, <1>13, <1>14 DEF Next

-----------------------------------------------------------------------------
(* The list, while nobody else works *)

LEMMA InitListOnItsWay == Init => ListOnItsWay
BY DEF Init, ListOnItsWay, NoFetch

LEMMA ListOnItsWayStep ==
  ASSUME Shapes, ListOnItsWay, [Next]_vars
  PROVE  ListOnItsWay'
<1> SUFFICES ASSUME others' = 0
             PROVE  \/ \E m \in Mutation : call'[m].state = "done"
                    \/ refetch'.state = "asked"
                    \/ refetch'.state = "answered" /\ refetch'.list = Visible(rows)'
                    \/ refetch'.state = "no" /\ list' = Visible(rows)'
  BY DEF ListOnItsWay
<1> DEFINE Goal ==
      \/ \E m \in Mutation : call'[m].state = "done"
      \/ refetch'.state = "asked"
      \/ refetch'.state = "answered" /\ refetch'.list = Visible(rows)'
      \/ refetch'.state = "no" /\ list' = Visible(rows)'
<1> SUFFICES Goal
  OBVIOUS
<1>1. ASSUME refetch' = [state |-> "asked"] PROVE Goal
  BY <1>1
<1>2. ASSUME NEW m \in Mutation, Saved(m) PROVE Goal
  BY <1>1, <1>2 DEF Saved, Invalidate
<1>3. CASE DiagnosisSaved
  BY <1>1, <1>3 DEF DiagnosisSaved, Invalidate
<1>4. ASSUME NEW t \in Ticket, NEW row \in Row, Other(t, row) PROVE Goal
  BY <1>4, OtherEffect
<1>5. ASSUME NEW m \in Mutation, Serve(m), Accepts(call[m]) PROVE Goal
  <2>1. call'[m].state = "done"
    BY <1>5, ServeEffect
  <2> QED
    BY <2>1
<1>6. ASSUME UNCHANGED <<role, rows, others>>,
             \A m \in Mutation : call[m].state = "done" => call'[m].state = "done"
      PROVE  Goal
  <2>1. Visible(rows)' = Visible(rows)
    BY <1>6 DEF Visible, Reads
  <2>2. \/ \E m \in Mutation : call[m].state = "done"
        \/ refetch.state = "asked"
        \/ refetch.state = "answered" /\ refetch.list = Visible(rows)
        \/ refetch.state = "no" /\ list = Visible(rows)
    BY <1>6 DEF ListOnItsWay
  <2>3. CASE \E m \in Mutation : call[m].state = "done"
    BY <2>3, <1>6
  <2>4. CASE UNCHANGED <<list, refetch>> /\ ~\E m \in Mutation : call[m].state = "done"
    BY <2>1, <2>2, <2>4
  <2>5. CASE ShowList /\ ~\E m \in Mutation : call[m].state = "done"
    <3>1. refetch.state = "answered" /\ list' = refetch.list /\ refetch' = NoFetch
      BY <2>5 DEF ShowList
    <3>2. list' = Visible(rows)' /\ refetch'.state = "no"
      BY <2>1, <2>2, <2>5, <3>1 DEF NoFetch
    <3> QED
      BY <3>2
  <2>6. CASE ServeList
    <3>1. refetch' = [state |-> "answered", list |-> Visible(rows)]
      BY <2>6 DEF ServeList
    <3>2. refetch'.state = "answered" /\ refetch'.list = Visible(rows)
      BY <3>1
    <3> QED
      BY <2>1, <3>2
  <2>7. CASE UNCHANGED list /\ refetch' = [state |-> "asked"]
    BY <1>1, <2>7
  <2> QED
    BY <2>3, <2>4, <2>5, <2>6, <2>7, ListSteps
<1> HIDE DEF Goal
<1>7. ASSUME NEW m \in Mutation, Serve(m), ~Accepts(call[m]) PROVE Goal
  <2>1. UNCHANGED <<role, rows, others>> /\ call[m].state = "asked"
    BY <1>7 DEF Serve
  <2>2. \A n \in Mutation \ {m} : call'[n] = call[n]
    BY <1>7, ServeEffect
  <2> QED
    BY <2>1, <2>2, <1>6
<1>8. ASSUME UNCHANGED <<role, rows, others, call>> PROVE Goal
  BY <1>6, <1>8
<1>9. CASE (\E t \in Ticket : OpenDrawer(t)) \/ CloseDrawer \/ Cancel \/ PressAssign
  BY <1>8, <1>9 DEF OpenDrawer, CloseDrawer, Cancel, PressAssign
<1>10. CASE (\E target \in TicketStatus : Press(target)) \/ (\E tech \in Tech : Choose(tech))
  BY <1>8, <1>10 DEF Press, Choose
<1>11. ASSUME NEW m \in Mutation, NEW value \in Value(m), Ask(m, value) PROVE Goal
  <2>1. call[m] = Idle /\ \A n \in Mutation \ {m} : call'[n] = call[n]
    BY <1>11, AskEffect
  <2>2. UNCHANGED <<role, rows, others>>
    BY <1>11 DEF Ask
  <2> QED
    BY <2>1, <2>2, <1>6 DEF Idle
<1>12. CASE ConfirmAssign
  <2>1. Ask("assign", chosen) /\ chosen \in Value("assign") /\ "assign" \in Mutation
    BY <1>12 DEF ConfirmAssign, Value, Shapes, TypeOK, Mutation
  <2> QED
    BY <2>1, <1>11
<1>13. CASE ConfirmDiagnosis
  <2>1. PICK finding \in Finding : Ask("diagnosis", finding)
    BY <1>13 DEF ConfirmDiagnosis
  <2>2. finding \in Value("diagnosis") /\ "diagnosis" \in Mutation
    BY DEF Value, Mutation
  <2> QED
    BY <2>1, <2>2, <1>11
<1>14. CASE ConfirmStatus
  <2>1. Ask("status", form.status) /\ form.status \in Value("status") /\ "status" \in Mutation
    BY <1>14 DEF ConfirmStatus, Value, Shapes, TypeOK, Mutation
  <2> QED
    BY <2>1, <1>11
<1>15. CASE ServeList \/ ShowList \/ UNCHANGED vars
  BY <1>8, <1>15 DEF ServeList, ShowList, vars
<1>16. CASE ServeTicket
  <2>1. UNCHANGED <<role, rows, others>>
    BY <1>16 DEF ServeTicket
  <2>2. /\ call["diagnosis"].state = "reading"
        /\ call'["assign"] = call["assign"] /\ call'["status"] = call["status"]
    BY <1>16, ServeTicketEffect
  <2> QED
    BY <2>1, <2>2, <1>6 DEF Mutation
<1>17. CASE DiagnosisRead
  <2>1. UNCHANGED <<role, rows, others>> /\ call["diagnosis"].state = "read"
    BY <1>17 DEF DiagnosisRead
  <2>2. call'["assign"] = call["assign"] /\ call'["status"] = call["status"]
    BY <1>17, DiagnosisReadEffect
  <2> QED
    BY <2>1, <2>2, <1>6 DEF Mutation
<1>18. ASSUME NEW m \in Mutation, Refused(m) PROVE Goal
  <2>1. UNCHANGED <<role, rows, others>> /\ call[m].state = "refused"
    BY <1>18 DEF Refused
  <2>2. \A n \in Mutation \ {m} : call'[n] = call[n]
    BY <1>18, DropEffect DEF Refused
  <2> QED
    BY <2>1, <2>2, <1>6
<1> QED
  BY <1>2, <1>3, <1>4, <1>5, <1>7, <1>9, <1>10, <1>12, <1>13, <1>14, <1>15, <1>16, <1>17, <1>18 DEF Next

-----------------------------------------------------------------------------
(* What the invariants say *)

\* The only moves the two tables have in common that start elsewhere than a user,
\* whose copy is merely old, was told.
LEMMA TablesAgree ==
  ASSUME NEW seen \in TicketStatus, NEW now \in Later[seen],
         NEW target \in getAllowedTransitions(seen), target \in VALID_TRANSITIONS[now] \ {"DELIVERED"}
  PROVE  now = seen \/ target \in {"CANCELLED", "REPAIR_IN_PROGRESS", "PARTS_REQUIRED"}
<1>1. CASE seen = "RECEIVED"
  BY <1>1 DEF getAllowedTransitions, VALID_TRANSITIONS, Later, TicketStatus
<1>2. CASE seen = "DIAGNOSING"
  BY <1>2 DEF getAllowedTransitions, VALID_TRANSITIONS, Later, TicketStatus
<1>3. CASE seen = "WAITING_FOR_APPROVAL"
  BY <1>3 DEF getAllowedTransitions, VALID_TRANSITIONS, Later, TicketStatus
<1>4. CASE seen = "APPROVED"
  BY <1>4 DEF getAllowedTransitions, VALID_TRANSITIONS, Later, TicketStatus
<1>5. CASE seen = "REPAIR_IN_PROGRESS"
  BY <1>5 DEF getAllowedTransitions, VALID_TRANSITIONS, Later, TicketStatus
<1>6. CASE seen = "PARTS_REQUIRED"
  BY <1>6 DEF getAllowedTransitions, VALID_TRANSITIONS, Later, TicketStatus
<1>7. CASE seen \in {"READY_FOR_COLLECTION", "REJECTED", "UNREPAIRABLE"}
  BY <1>7 DEF getAllowedTransitions, VALID_TRANSITIONS, Later, TicketStatus
<1>8. CASE seen \in {"DELIVERED", "CANCELLED"}
  BY <1>8 DEF getAllowedTransitions
<1> QED
  BY <1>1, <1>2, <1>3, <1>4, <1>5, <1>6, <1>7, <1>8 DEF TicketStatus

LEMMA DrawerTells == Shapes /\ Drawer => DrawerTellsTruth
<1> SUFFICES ASSUME Shapes, Drawer, dialog # "none", doubts = {},
                    \A m \in Mutation :
                      call[m].state \in {"done", "reading", "read"} => call[m].ticket # shown.ticket
             PROVE  shown.row = rows[shown.ticket]
  BY DEF DrawerTellsTruth
<1>1. Trusted /\ \A m \in Mutation : ~Pending(m)
  BY DEF Trusted, Pending
<1>2. Now.technician = shown.row.technician /\ Now.status = shown.row.status
  BY <1>1 DEF Drawer, TechnicianTold, StatusTold, Mutation
<1>3. shown.row \in Row /\ Now \in Row
  BY DEF Shapes, TypeOK, Now
<1>4. \A a, b \in Row : a.status = b.status /\ a.technician = b.technician => a = b
  BY DEF Row
<1>5. shown.row = Now
  BY <1>2, <1>3, <1>4
<1> QED
  BY <1>5 DEF Now

LEMMA ListFollows == Shapes /\ ListOnItsWay => ListFollowsOwnWork
<1> SUFFICES ASSUME Shapes, ListOnItsWay, others = 0, refetch = NoFetch,
                    \A m \in Mutation : call[m] = Idle
             PROVE  list = Visible(rows)
  BY DEF ListFollowsOwnWork
<1>1. refetch.state = "no" /\ \A m \in Mutation : call[m].state # "done"
  BY DEF NoFetch, Idle
<1> QED
  BY <1>1 DEF ListOnItsWay

LEMMA FewStaleMoves ==
  ASSUME Shapes, Ages, [Next]_vars,
         call["status"].state = "asked", call'["status"].state = "done"
  PROVE  LET c == call["status"] IN
         \/ rows[c.ticket].status = c.seen
         \/ c.value \in {"CANCELLED", "REPAIR_IN_PROGRESS", "PARTS_REQUIRED"}
         \/ "stray" \in c.doubts
<1> DEFINE c == call["status"]
<1>1. Serve("status")
  <2>1. c' # c /\ c' # Idle /\ c # Idle
    BY DEF Idle
  <2>2. ~\E value \in Value("status") : Ask("status", value)
    BY <2>1, AskEffect DEF Mutation
  <2> QED
    BY <2>1, <2>2, CallSteps DEF Mutation
<1>2. Accepts(c)
  <2>1. c'.state = (IF Accepts(c) THEN "done" ELSE "refused")
    BY <1>1, ServeEffect DEF Mutation
  <2> QED
    BY <2>1
<1>3. c.op = "status" /\ c.seen \in TicketStatus /\ c.ticket \in Ticket
  BY CallCases DEF Shapes, Mutation
<1>4. c.value \in VALID_TRANSITIONS[rows[c.ticket].status] \ {"DELIVERED"}
  BY <1>2, <1>3 DEF Accepts
<1>5. /\ c.value \in getAllowedTransitions(c.seen)
      /\ "stray" \notin c.doubts => rows[c.ticket].status \in Later[c.seen]
  BY DEF Ages, RequestIsOld, Old
<1> QED
  BY <1>3, <1>4, <1>5, TablesAgree

-----------------------------------------------------------------------------
(* Theorems *)

\* Every state of the page has its type: rows, list, drawer, form, and the calls
\* and fetches under way.
THEOREM WorkbenchTypeCorrect == Spec => []TypeOK
<1>1. Init => Shapes
  BY InitShapes
<1>2. Shapes /\ [Next]_vars => Shapes'
  BY ShapesStep
<1>3. Shapes => TypeOK
  BY DEF Shapes
<1> QED
  BY <1>1, <1>2, <1>3, PTL DEF Spec

\* Whatever the page holds of a ticket - the list, the drawer, the status a form
\* was opened on, an answer under way - the ticket was once, and only moved on
\* since (selectedTicket, statusForm, ticketsData of tickets/page.tsx), unless an
\* answer for another ticket was written into the drawer.
THEOREM PageIsOnlyLate == Spec => [](Shapes /\ Ages)
<1>1. Init => Shapes /\ Ages
  BY InitShapes, InitAges
<1>2. Shapes /\ Ages /\ [Next]_vars => Shapes' /\ Ages'
  BY ShapesStep, AgesStep
<1> QED
  BY <1>1, <1>2, PTL DEF Spec

\* Once its own requests are answered the drawer shows the row as the server has
\* it, unless there was a reason to doubt it (setSelectedTicket in the onSuccess
\* handlers of tickets/page.tsx).
THEOREM DrawerIsTrue == Spec => []DrawerTellsTruth
<1>1. Init => Drawer
  BY InitDrawer
<1>2. Shapes /\ Ages /\ Drawer /\ [Next]_vars => Drawer'
  BY DrawerStep
<1>3. Shapes /\ Drawer => DrawerTellsTruth
  BY DrawerTells
<1> QED
  BY <1>1, <1>2, <1>3, PageIsOnlyLate, PTL DEF Spec

\* While nobody else works, the list is what the server has whenever nothing is
\* under way (invalidateQueries(['tickets']) after each mutation).
THEOREM ListIsCurrent == Spec => []ListFollowsOwnWork
<1>1. Init => ListOnItsWay
  BY InitListOnItsWay
<1>2. Shapes /\ ListOnItsWay /\ [Next]_vars => ListOnItsWay'
  BY ListOnItsWayStep
<1>3. Shapes /\ ListOnItsWay => ListFollowsOwnWork
  BY ListFollows
<1> QED
  BY <1>1, <1>2, <1>3, PageIsOnlyLate, PTL DEF Spec

\* A change asked for on an outdated copy is accepted only where the drawer said
\* the ticket was, or it cancels the ticket, takes its repair up or calls for
\* parts: the page's table of transitions against the server's.
THEOREM StaleMovesStayFew == Spec => StaleMovesAreFew
<1>1. Shapes /\ Ages /\ [Next]_vars =>
        (call["status"].state = "asked" /\ call'["status"].state = "done" =>
           LET c == call["status"] IN
           \/ rows[c.ticket].status = c.seen
           \/ c.value \in {"CANCELLED", "REPAIR_IN_PROGRESS", "PARTS_REQUIRED"}
           \/ "stray" \in c.doubts)
  BY FewStaleMoves
<1> QED
  BY <1>1, PageIsOnlyLate, PTL DEF Spec, StaleMovesAreFew
=============================================================================
