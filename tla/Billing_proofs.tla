---------------------------- MODULE Billing_proofs ----------------------------
(***************************************************************************)
(* The three services together, in two parts.                              *)
(*                                                                         *)
(* First the estimates service with the ticket service, for every set of   *)
(* tickets, users and overlapping requests; nothing here mentions invoices *)
(* or uses the assumptions of Billing.  The steps of the ticket service    *)
(* are taken from RepairTickets_proofs (StepEffect).                       *)
(*                                                                         *)
(* Then all three.  Of each of the two parts, the composition is shown to  *)
(* be one of its behaviours, so that what was proved of the part holds of  *)
(* the whole; and, for requests one at a time, that nobody is billed for   *)
(* work not agreed to.                                                     *)
(***************************************************************************)
EXTENDS Billing, RepairTickets_proofs, FiniteSetTheorems

-----------------------------------------------------------------------------
(* Estimates and tickets *)

\* A call of the service names an estimate that exists, whose ticket exists:
\* neither is ever deleted.
CallsAreKnown ==
  /\ \A w \in Worker :
       /\ call[w].op \in {"send", "cancel", "decide"} => call[w].estimate \in DOMAIN estimates
       /\ call[w].op = "draft" => call[w].ticket \in DOMAIN tickets
  /\ \A e \in DOMAIN estimates : estimates[e].ticket \in DOMAIN tickets

\* The inductive invariant: both services' rows, and what their requests in
\* flight may still write.
EstimatesInv ==
  /\ EstimatesTypeOK
  /\ RequestsAreLegal
  /\ CallsAreKnown
  /\ UnopenedIsEmpty
  /\ TimelineEndsAtStatus
  /\ LinkAgrees

\* What a request of the ticket service, or none, leaves of the other's rows.
LEMMA CallFields ==
  ASSUME EstimatesTypeOK, NEW w \in Worker
  PROVE  /\ call[w].op = "draft" =>
              /\ call[w].actor \in Staff
              /\ call[w].ticket \in TicketId
              /\ call[w].subtotal \in Subtotals
         /\ call[w].op = "send" => call[w].actor \in Staff /\ call[w].seen \in TicketStatus
         /\ call[w].op = "decide" => call[w].verdict \in Verdict /\ call[w].link \in Nat
<1>1. call[w] \in Call
  BY DEF EstimatesTypeOK
<1>2. QED BY <1>1 DEF Call

-----------------------------------------------------------------------------
(* The timelines, under both services *)

\* Steps of the ticket service.
LEMMA TicketStepRows ==
  ASSUME EstimatesInv, NEW w \in Worker, TicketStep(w)
  PROVE  /\ TypeOK' /\ RequestsAreLegal'
         /\ UnopenedIsEmpty' /\ TimelineEndsAtStatus'
         /\ DOMAIN tickets \subseteq DOMAIN tickets'
<1>a. /\ TypeOK /\ RequestsAreLegal
      /\ UnopenedIsEmpty /\ TimelineEndsAtStatus
  BY DEF EstimatesInv, EstimatesTypeOK
<1>1. TypeOK' /\ RequestsAreLegal' /\ (OpensOne \/ MovesOne \/ LeavesTimeline)
  BY <1>a, StepEffect DEF TicketStep
<1>2. CASE OpensOne
  <2>1. PICK t \in TicketId, b \in Branch, by \in Staff,
             action \in {"CREATE_REPAIR_TICKET", "REOPEN_TICKET"} : OpenTicket(t, b, by, action)
    BY <1>2 DEF OpensOne
  <2>2. /\ UnopenedIsEmpty' /\ TimelineEndsAtStatus'
        /\ DOMAIN tickets \subseteq DOMAIN tickets'
    BY <1>a, <2>1, OpenTicketRows
  <2>3. QED BY <1>1, <2>2
<1>3. CASE MovesOne
  <2>1. PICK t \in DOMAIN tickets, from \in TicketStatus, to \in TicketStatus, by \in Staff :
          to \in VALID_TRANSITIONS[from] /\ WriteStatus(t, from, to, by)
    BY <1>3 DEF MovesOne
  <2>2. UnopenedIsEmpty' /\ TimelineEndsAtStatus'
    BY <1>a, <2>1, WriteStatusEnds
  <2>3. DOMAIN tickets' = DOMAIN tickets
    BY <2>1 DEF WriteStatus
  <2>4. QED BY <1>1, <2>2, <2>3
<1>4. CASE LeavesTimeline
  BY <1>a, <1>1, <1>4 DEF LeavesTimeline, UnopenedIsEmpty, TimelineEndsAtStatus
<1>5. QED BY <1>1, <1>2, <1>3, <1>4

\* Steps of the estimates service that move a ticket on.
LEMMA MoveByEstimate ==
  ASSUME EstimatesInv, TicketSideKept, NEW e \in DOMAIN estimates, NEW from \in TicketStatus,
         NEW to \in TicketStatus, NEW by \in Staff,
         to \in VALID_TRANSITIONS[from],
         WriteStatus(estimates[e].ticket, from, to, by)
  PROVE  /\ TypeOK' /\ RequestsAreLegal'
         /\ UnopenedIsEmpty' /\ TimelineEndsAtStatus'
         /\ DOMAIN tickets' = DOMAIN tickets
<1> DEFINE t == estimates[e].ticket
<1>1. t \in DOMAIN tickets
  BY DEF EstimatesInv, CallsAreKnown
<1>2. TypeOK /\ t \in TicketId
  BY <1>1 DEF EstimatesInv, EstimatesTypeOK, TypeOK
<1>3. UnopenedIsEmpty' /\ TimelineEndsAtStatus'
  BY <1>1, <1>2, WriteStatusEnds DEF EstimatesInv
<1>4. /\ DOMAIN tickets' = DOMAIN tickets
      /\ tickets' \in [DOMAIN tickets -> Ticket]
      /\ history' \in [TicketId -> Seq(StatusChange)]
  BY <1>2, WriteStatusType
<1>5. TypeOK'
  BY <1>2, <1>4 DEF TypeOK, TicketSideKept
<1>6. RequestsAreLegal'
  BY <1>4 DEF EstimatesInv, RequestsAreLegal, TicketSideKept
<1>7. QED BY <1>3, <1>4, <1>5, <1>6

\* Steps of the estimates service that leave the tickets alone.
LEMMA TicketsKept ==
  ASSUME EstimatesInv, UNCHANGED <<tickets, history>>, TicketSideKept
  PROVE  /\ TypeOK' /\ RequestsAreLegal'
         /\ UnopenedIsEmpty' /\ TimelineEndsAtStatus'
         /\ DOMAIN tickets' = DOMAIN tickets
BY DEF EstimatesInv, EstimatesTypeOK, TypeOK, TicketSideKept, RequestsAreLegal, UnopenedIsEmpty,
       TimelineEndsAtStatus

-----------------------------------------------------------------------------
(* The estimates and their links *)

\* The estimate side of EstimatesInv.
EstimateSide ==
  /\ estimates \in Seq(Estimate)
  /\ DOMAIN decisions \subseteq DOMAIN estimates
  /\ decisions \in [DOMAIN decisions -> Decision]
  /\ call \in [Worker -> Call]
  /\ CallsAreKnown
  /\ LinkAgrees

LEMMA SideOfInv == EstimatesInv => EstimateSide /\ EstimatesTypeOK
BY DEF EstimatesInv, EstimatesTypeOK, EstimateSide

\* The two sides make up the invariant, after a step as before it.
LEMMA BothSides ==
  ASSUME TypeOK', RequestsAreLegal', UnopenedIsEmpty', TimelineEndsAtStatus',
         EstimateSide'
  PROVE  EstimatesInv'
BY DEF EstimatesInv, EstimatesTypeOK, EstimateSide

\* One call comes or goes; tickets are only added.
LEMMA CallStep ==
  ASSUME EstimateSide, NEW w \in Worker, NEW c \in Call, call' = [call EXCEPT ![w] = c],
         UNCHANGED <<estimates, decisions>>,
         DOMAIN tickets \subseteq DOMAIN tickets',
         c.op \in {"send", "cancel", "decide"} => c.estimate \in DOMAIN estimates,
         c.op = "draft" => c.ticket \in DOMAIN tickets
  PROVE  EstimateSide'
<1>1. call' \in [Worker -> Call] /\ \A v \in Worker : call'[v] = IF v = w THEN c ELSE call[v]
  BY DEF EstimateSide
<1>2. \A v \in Worker :
        /\ call'[v].op \in {"send", "cancel", "decide"} => call'[v].estimate \in DOMAIN estimates'
        /\ call'[v].op = "draft" => call'[v].ticket \in DOMAIN tickets'
  BY <1>1 DEF EstimateSide, CallsAreKnown
<1>3. \A e \in DOMAIN estimates' : estimates'[e].ticket \in DOMAIN tickets'
  BY DEF EstimateSide, CallsAreKnown
<1>4. CallsAreKnown'
  BY <1>2, <1>3 DEF CallsAreKnown
<1>5. LinkAgrees'
  BY DEF EstimateSide, LinkAgrees
<1>6. QED BY <1>1, <1>4, <1>5 DEF EstimateSide

LEMMA NoCallType == NoCall \in Call /\ NoCall.op = "idle"
BY DEF NoCall, Call

\* One estimate, its link and its audit row change together; the call ends.
LEMMA EstimateChange ==
  ASSUME EstimateSide, NEW w \in Worker, NEW e \in DOMAIN estimates, NEW row \in Estimate,
         call' = [call EXCEPT ![w] = NoCall],
         estimates' = [estimates EXCEPT ![e] = row],
         row.ticket = estimates[e].ticket,
         row.audited = row.status,
         DOMAIN decisions' \ {e} = DOMAIN decisions \ {e},
         \A x \in DOMAIN decisions : x # e => decisions'[x] = decisions[x],
         decisions' \in [DOMAIN decisions' -> Decision],
         e \in DOMAIN decisions' <=> row.status \in {"SENT"} \cup Verdict,
         row.status = "SENT" => decisions'[e].verdict = "PENDING",
         row.status \in Verdict => decisions'[e].verdict = row.status,
         DOMAIN tickets' = DOMAIN tickets
  PROVE  EstimateSide'
<1>1. call' \in [Worker -> Call] /\ \A v \in Worker : call'[v] = IF v = w THEN NoCall ELSE call[v]
  BY NoCallType DEF EstimateSide
<1>2. /\ estimates' \in Seq(Estimate)
      /\ DOMAIN estimates' = DOMAIN estimates
      /\ estimates'[e] = row
      /\ \A x \in DOMAIN estimates : x # e => estimates'[x] = estimates[x]
  <2>1. estimates \in [1..Len(estimates) -> Estimate] /\ Len(estimates) \in Nat
    BY DEF EstimateSide
  <2>2. estimates' \in [1..Len(estimates) -> Estimate]
    BY <2>1
  <2>3. QED BY <2>1, <2>2
<1>3. DOMAIN decisions' \subseteq DOMAIN estimates'
  BY <1>2 DEF EstimateSide
<1>4. CallsAreKnown'
  BY <1>1, <1>2, NoCallType DEF EstimateSide, CallsAreKnown
<1>5. LinkAgrees'
  BY <1>2 DEF EstimateSide, LinkAgrees
<1>6. QED BY <1>1, <1>2, <1>3, <1>4, <1>5 DEF EstimateSide

LEMMA DraftSide ==
  ASSUME EstimateSide, EstimatesTypeOK, NEW w \in Worker, CommitDraft(w)
  PROVE  EstimateSide'
<1> DEFINE c == call[w]
           row == [ticket |-> c.ticket, status |-> "DRAFT", createdBy |-> c.actor,
                   subtotal |-> c.subtotal, audited |-> "DRAFT", sendings |-> 0]
<1>1. /\ c.op = "draft"
      /\ c.actor \in Staff /\ c.ticket \in TicketId /\ c.subtotal \in Subtotals
      /\ c.ticket \in DOMAIN tickets
  BY CallFields DEF CommitDraft, EstimateSide, CallsAreKnown
<1>2. row \in Estimate /\ row.ticket = c.ticket /\ row.status = "DRAFT" /\ row.audited = "DRAFT"
  BY <1>1 DEF Estimate, EstimateStatus
<1>3. /\ estimates' = Append(estimates, row)
      /\ call' = [call EXCEPT ![w] = NoCall]
      /\ UNCHANGED <<tickets, decisions>>
  BY DEF CommitDraft, Reply
<1> HIDE DEF row
<1>4. estimates \in Seq(Estimate) /\ Len(estimates) \in Nat
  BY DEF EstimateSide
<1>5. /\ estimates' \in Seq(Estimate)
      /\ DOMAIN estimates' = DOMAIN estimates \cup {Len(estimates) + 1}
      /\ Len(estimates) + 1 \notin DOMAIN estimates
      /\ estimates'[Len(estimates) + 1] = row
      /\ \A x \in DOMAIN estimates : estimates'[x] = estimates[x]
  BY <1>2, <1>3, <1>4
<1>6. call' \in [Worker -> Call] /\ \A v \in Worker : call'[v] = IF v = w THEN NoCall ELSE call[v]
  BY <1>3, NoCallType DEF EstimateSide
<1>7. CallsAreKnown'
  BY <1>1, <1>2, <1>3, <1>5, <1>6, NoCallType DEF EstimateSide, CallsAreKnown
<1>8. LinkAgrees'
  <2>1. Len(estimates) + 1 \notin DOMAIN decisions'
    BY <1>3, <1>5 DEF EstimateSide
  <2>2. "DRAFT" \notin {"SENT"} \cup Verdict
    BY DEF Verdict
  <2>3. QED BY <1>2, <1>3, <1>5, <2>1, <2>2 DEF EstimateSide, LinkAgrees
<1>9. QED BY <1>3, <1>5, <1>6, <1>7, <1>8 DEF EstimateSide

\* The rows of an estimate that the three other handlers write.
LEMMA ChangedRows ==
  ASSUME NEW row \in Estimate, NEW status \in EstimateStatus
  PROVE  /\ Became(row, status) \in Estimate
         /\ Became(row, status).ticket = row.ticket
         /\ Became(row, status).status = status
         /\ Became(row, status).audited = status
         /\ Sent(row) \in Estimate
         /\ Sent(row).ticket = row.ticket
         /\ Sent(row).status = "SENT"
         /\ Sent(row).audited = "SENT"
<1> DEFINE new(s) == [row EXCEPT !.status = s, !.audited = s]
<1>1. ASSUME NEW s \in EstimateStatus
      PROVE  /\ new(s) \in Estimate /\ new(s).ticket = row.ticket
             /\ new(s).status = s /\ new(s).audited = s
  BY DEF Estimate
<1>2. Became(row, status) = new(status) /\ Became(row, "SENT") = new("SENT")
  BY DEF Became
<1>3. "SENT" \in EstimateStatus
  BY DEF EstimateStatus
<1> HIDE DEF new
<1>4. Sent(row) = [Became(row, "SENT") EXCEPT !.sendings = Became(row, "SENT").sendings + 1]
  BY DEF Sent
<1>5. Became(row, "SENT") \in Estimate
      /\ Became(row, "SENT").ticket = row.ticket
      /\ Became(row, "SENT").status = "SENT" /\ Became(row, "SENT").audited = "SENT"
  BY <1>1, <1>2, <1>3
<1>6. Sent(row) \in Estimate /\ Sent(row).ticket = row.ticket
      /\ Sent(row).status = "SENT" /\ Sent(row).audited = "SENT"
  BY <1>4, <1>5 DEF Estimate
<1>7. QED BY <1>1, <1>2, <1>6

LEMMA SendSide ==
  ASSUME EstimateSide, NEW w \in Worker, CommitSend(w), DOMAIN tickets' = DOMAIN tickets
  PROVE  EstimateSide'
<1> DEFINE e == call[w].estimate
           link == [id |-> estimates[e].sendings + 1, verdict |-> "PENDING", expired |-> FALSE]
<1>1. e \in DOMAIN estimates
  BY DEF CommitSend, EstimateSide, CallsAreKnown
<1>2. estimates[e] \in Estimate
  BY <1>1 DEF EstimateSide
<1>3. Sent(estimates[e]) \in Estimate
      /\ Sent(estimates[e]).ticket = estimates[e].ticket
      /\ Sent(estimates[e]).status = "SENT"
      /\ Sent(estimates[e]).audited = "SENT"
  BY <1>2, ChangedRows DEF EstimateStatus
<1>4. link \in Decision /\ link.verdict = "PENDING"
  BY <1>2 DEF Decision, Estimate
<1>5. /\ decisions' = With(e, link)
      /\ estimates' = [estimates EXCEPT ![e] = Sent(estimates[e])]
      /\ call' = [call EXCEPT ![w] = NoCall]
  BY DEF CommitSend, Reply
<1> HIDE DEF link
<1>6. /\ DOMAIN decisions' = DOMAIN decisions \cup {e}
      /\ decisions'[e] = link
      /\ \A x \in DOMAIN decisions : x # e => decisions'[x] = decisions[x]
  BY <1>5 DEF With
<1>7. decisions' \in [DOMAIN decisions' -> Decision]
  BY <1>4, <1>5 DEF With, EstimateSide
<1>8. "SENT" \notin Verdict
  BY DEF Verdict
<1> HIDE DEF e
<1>9. QED BY <1>1, <1>3, <1>4, <1>5, <1>6, <1>7, <1>8, EstimateChange

LEMMA CancelSide ==
  ASSUME EstimateSide, NEW w \in Worker, CommitCancel(w)
  PROVE  EstimateSide'
<1> DEFINE e == call[w].estimate
<1>1. e \in DOMAIN estimates
  BY DEF CommitCancel, EstimateSide, CallsAreKnown
<1>2. estimates[e] \in Estimate
  BY <1>1 DEF EstimateSide
<1>3. Became(estimates[e], "CANCELLED") \in Estimate
      /\ Became(estimates[e], "CANCELLED").ticket = estimates[e].ticket
      /\ Became(estimates[e], "CANCELLED").status = "CANCELLED"
      /\ Became(estimates[e], "CANCELLED").audited = "CANCELLED"
  BY <1>2, ChangedRows DEF EstimateStatus
<1>4. /\ decisions' = Without(e)
      /\ estimates' = [estimates EXCEPT ![e] = Became(estimates[e], "CANCELLED")]
      /\ call' = [call EXCEPT ![w] = NoCall]
      /\ DOMAIN tickets' = DOMAIN tickets
  BY DEF CommitCancel, Reply
<1>5. /\ DOMAIN decisions' = DOMAIN decisions \ {e}
      /\ \A x \in DOMAIN decisions : x # e => decisions'[x] = decisions[x]
  BY <1>4 DEF Without
<1>6. decisions' \in [DOMAIN decisions' -> Decision]
  BY <1>4 DEF Without, EstimateSide
<1>7. "CANCELLED" \notin {"SENT"} \cup Verdict
  BY DEF Verdict
<1> HIDE DEF e
<1>8. QED BY <1>1, <1>3, <1>4, <1>5, <1>6, <1>7, EstimateChange

LEMMA DecideSide ==
  ASSUME EstimateSide, EstimatesTypeOK, NEW w \in Worker, CommitDecide(w),
         DOMAIN tickets' = DOMAIN tickets
  PROVE  EstimateSide'
<1> DEFINE e == call[w].estimate
           verdict == call[w].verdict
<1>1. e \in DOMAIN estimates /\ e \in DOMAIN decisions /\ verdict \in Verdict
  BY CallFields DEF CommitDecide, LinkStands, EstimateSide, CallsAreKnown
<1>2. estimates[e] \in Estimate /\ verdict \in EstimateStatus
  BY <1>1 DEF EstimateSide, EstimateStatus
<1>3. /\ Became(estimates[e], verdict) \in Estimate
      /\ Became(estimates[e], verdict).ticket = estimates[e].ticket
      /\ Became(estimates[e], verdict).status = verdict
      /\ Became(estimates[e], verdict).audited = verdict
  BY <1>2, ChangedRows
<1>4. /\ decisions' = [decisions EXCEPT ![e].verdict = verdict]
      /\ estimates' = [estimates EXCEPT ![e] = Became(estimates[e], verdict)]
      /\ call' = [call EXCEPT ![w] = NoCall]
  BY DEF CommitDecide, Reply
<1> HIDE DEF e, verdict
<1>5. /\ DOMAIN decisions' = DOMAIN decisions
      /\ \A x \in DOMAIN decisions : x # e => decisions'[x] = decisions[x]
  BY <1>4
<1>6. decisions[e] \in Decision
  BY <1>1 DEF EstimateSide
<1>7. decisions' \in [DOMAIN decisions' -> Decision] /\ decisions'[e].verdict = verdict
  BY <1>1, <1>4, <1>5, <1>6 DEF EstimateSide, Decision
<1>8. verdict # "SENT"
  BY <1>1 DEF Verdict
<1>9. QED BY <1>1, <1>3, <1>4, <1>5, <1>7, <1>8, EstimateChange

\* The link's three days run out.
LEMMA ExpireSide ==
  ASSUME EstimateSide, NEW e, ExpireLink(e)
  PROVE  EstimateSide'
<1>1. /\ e \in DOMAIN decisions
      /\ decisions' = [decisions EXCEPT ![e].expired = TRUE]
      /\ UNCHANGED <<tickets, estimates, call>>
  BY DEF ExpireLink
<1>2. \A x \in DOMAIN decisions : decisions[x] \in Decision
  BY DEF EstimateSide
<1>3. /\ DOMAIN decisions' = DOMAIN decisions
      /\ decisions' \in [DOMAIN decisions' -> Decision]
      /\ \A x \in DOMAIN decisions : decisions'[x].verdict = decisions[x].verdict
  BY <1>1, <1>2 DEF Decision
<1>4. CallsAreKnown'
  BY <1>1 DEF EstimateSide, CallsAreKnown
<1>5. LinkAgrees'
  BY <1>1, <1>3 DEF EstimateSide, LinkAgrees
<1>6. QED BY <1>1, <1>3, <1>4, <1>5 DEF EstimateSide

-----------------------------------------------------------------------------
(* Every step of the composition *)

LEMMA BeginCallInv ==
  ASSUME EstimatesInv, NEW w \in Worker, BeginCall(w)
  PROVE  EstimatesInv'
<1>a. EstimateSide
  BY SideOfInv
<1>b. ASSUME NEW c, Take(w, c)
      PROVE  /\ UNCHANGED <<tickets, history>> /\ TicketSideKept
             /\ call' = [call EXCEPT ![w] = c]
             /\ UNCHANGED <<estimates, decisions>>
  BY <1>b DEF Take, TicketSideKept
<1>c. ASSUME NEW c \in Call, Take(w, c),
             c.op \in {"send", "cancel", "decide"} => c.estimate \in DOMAIN estimates,
             c.op = "draft" => c.ticket \in DOMAIN tickets
      PROVE  EstimatesInv'
  <2>1. EstimateSide'
    BY <1>a, <1>b, <1>c, CallStep
  <2>2. QED BY <1>b, <1>c, <2>1, TicketsKept, BothSides
<1>d. \A e \in DOMAIN estimates : /\ e \in Nat \ {0}
                                  /\ estimates[e].ticket \in DOMAIN tickets
  BY DEF EstimatesInv, EstimatesTypeOK, CallsAreKnown
<1>e. \A t \in DOMAIN tickets : t \in TicketId /\ tickets[t].status \in TicketStatus
  BY DEF EstimatesInv, EstimatesTypeOK, TypeOK, Ticket
<1>1. ASSUME NEW u \in Staff, NEW t \in TicketId, NEW s \in Subtotals, BeginDraft(w, u, t, s)
      PROVE  EstimatesInv'
  <2>1. [op |-> "draft", actor |-> u, ticket |-> t, subtotal |-> s] \in Call
    BY DEF Call
  <2>2. QED BY <1>1, <1>c, <2>1 DEF BeginDraft
<1>2. ASSUME NEW u \in Staff, NEW e \in DOMAIN estimates, BeginSend(w, u, e)
      PROVE  EstimatesInv'
  <2>1. [op |-> "send", actor |-> u, estimate |-> e,
         seen |-> tickets[estimates[e].ticket].status] \in Call
    BY <1>d, <1>e DEF Call
  <2>2. QED BY <1>2, <1>c, <2>1 DEF BeginSend
<1>3. ASSUME NEW u \in Staff, NEW e \in DOMAIN estimates, BeginCancel(w, u, e)
      PROVE  EstimatesInv'
  <2>1. [op |-> "cancel", estimate |-> e] \in Call
    BY <1>d DEF Call
  <2>2. QED BY <1>3, <1>c, <2>1 DEF BeginCancel
<1>4. ASSUME NEW e \in DOMAIN estimates, NEW verdict \in Verdict, BeginDecide(w, e, verdict)
      PROVE  EstimatesInv'
  <2>1. decisions[e] \in Decision
    BY <1>4, <1>a DEF BeginDecide, EstimateSide
  <2>2. [op |-> "decide", estimate |-> e, link |-> decisions[e].id, verdict |-> verdict] \in Call
    BY <1>d, <2>1 DEF Call, Decision
  <2>3. QED BY <1>4, <1>c, <2>2 DEF BeginDecide
<1>5. QED BY <1>1, <1>2, <1>3, <1>4 DEF BeginCall

LEMMA FinishCallInv ==
  ASSUME EstimatesInv, NEW w \in Worker, FinishCall(w)
  PROVE  EstimatesInv'
<1>a. EstimateSide /\ EstimatesTypeOK
  BY SideOfInv DEF EstimatesInv
<1>1. CASE CommitDraft(w)
  BY <1>1, <1>a, DraftSide, TicketsKept, BothSides DEF CommitDraft
<1>2. CASE CommitSend(w)
  <2> DEFINE e == call[w].estimate
  <2>1. /\ call[w].op = "send" /\ TicketSideKept
        /\ Announce(estimates[e].ticket, call[w])
    BY <1>2 DEF CommitSend
  <2>2. e \in DOMAIN estimates /\ call[w].actor \in Staff
    BY <1>a, <2>1, CallFields DEF EstimateSide, CallsAreKnown
  <2>3. /\ "DIAGNOSING" \in TicketStatus /\ "WAITING_FOR_APPROVAL" \in TicketStatus
        /\ "WAITING_FOR_APPROVAL" \in VALID_TRANSITIONS["DIAGNOSING"]
    BY UncheckedWritesAreLegal DEF TicketStatus
  <2>4. CASE WriteStatus(estimates[e].ticket, "DIAGNOSING", "WAITING_FOR_APPROVAL", call[w].actor)
    <3>1. /\ TypeOK' /\ RequestsAreLegal'
          /\ UnopenedIsEmpty' /\ TimelineEndsAtStatus'
          /\ DOMAIN tickets' = DOMAIN tickets
      BY <2>1, <2>2, <2>3, <2>4, MoveByEstimate
    <3>2. QED BY <1>2, <1>a, <3>1, SendSide, BothSides
  <2>5. CASE UNCHANGED <<tickets, history>>
    BY <1>2, <1>a, <2>1, <2>5, TicketsKept, SendSide, BothSides
  <2>6. QED BY <2>1, <2>4, <2>5 DEF Announce
<1>3. CASE CommitCancel(w)
  BY <1>3, <1>a, CancelSide, TicketsKept, BothSides DEF CommitCancel
<1>4. CASE CommitDecide(w)
  <2> DEFINE e == call[w].estimate
  <2>1. /\ call[w].op = "decide" /\ TicketSideKept
        /\ WriteStatus(estimates[e].ticket, "WAITING_FOR_APPROVAL", call[w].verdict,
                       estimates[e].createdBy)
    BY <1>4 DEF CommitDecide, PassOn
  <2>2. e \in DOMAIN estimates /\ call[w].verdict \in Verdict
    BY <1>a, <2>1, CallFields DEF EstimateSide, CallsAreKnown
  <2>3. estimates[e].createdBy \in Staff
    <3>1. estimates[e] \in Estimate
      BY <1>a, <2>2 DEF EstimateSide
    <3>2. QED BY <3>1 DEF Estimate
  <2>4. /\ Verdict \subseteq TicketStatus /\ "WAITING_FOR_APPROVAL" \in TicketStatus
        /\ Verdict \subseteq VALID_TRANSITIONS["WAITING_FOR_APPROVAL"]
    BY DEF Verdict, TicketStatus, VALID_TRANSITIONS
  <2>5. /\ TypeOK' /\ RequestsAreLegal'
        /\ UnopenedIsEmpty' /\ TimelineEndsAtStatus'
        /\ DOMAIN tickets' = DOMAIN tickets
    BY <2>1, <2>2, <2>3, <2>4, MoveByEstimate
  <2>6. QED BY <1>4, <1>a, <2>5, DecideSide, BothSides
<1>5. CASE Withdraw(w)
  <2>1. /\ call' = [call EXCEPT ![w] = NoCall]
        /\ UNCHANGED <<tickets, history>> /\ UNCHANGED <<estimates, decisions>> /\ TicketSideKept
    BY <1>5 DEF Withdraw, Reply
  <2>2. EstimateSide'
    BY <1>a, <2>1, NoCallType, CallStep
  <2>3. QED BY <2>1, <2>2, TicketsKept, BothSides
<1>6. QED BY <1>1, <1>2, <1>3, <1>4, <1>5 DEF FinishCall

LEMMA EstimatesStep ==
  ASSUME EstimatesInv, [EstimatesNext]_allVars
  PROVE  EstimatesInv'
<1>1. ASSUME NEW w \in Worker, TicketStep(w) PROVE EstimatesInv'
  <2>1. EstimateSide /\ UNCHANGED <<estimates, decisions, call>>
    BY <1>1, SideOfInv DEF TicketStep, estimateVars
  <2>2. DOMAIN tickets \subseteq DOMAIN tickets'
    BY <1>1, TicketStepRows
  <2>3. CallsAreKnown' /\ LinkAgrees'
    BY <2>1, <2>2 DEF EstimateSide, CallsAreKnown, LinkAgrees
  <2>4. EstimateSide'
    BY <2>1, <2>3 DEF EstimateSide
  <2>5. QED BY <1>1, <2>4, TicketStepRows, BothSides
<1>2. ASSUME NEW e, ExpireLink(e) PROVE EstimatesInv'
  BY <1>2, ExpireSide, SideOfInv, TicketsKept, BothSides DEF ExpireLink
<1>3. CASE UNCHANGED allVars
  BY <1>3 DEF allVars, EstimatesInv, EstimatesTypeOK, TypeOK, RequestsAreLegal, CallsAreKnown,
     UnopenedIsEmpty, TimelineEndsAtStatus, LinkAgrees
<1>4. QED BY <1>1, <1>2, <1>3, BeginCallInv, FinishCallInv DEF EstimatesNext

LEMMA EstimatesInitInv == EstimatesInit => EstimatesInv
<1> SUFFICES ASSUME EstimatesInit PROVE EstimatesInv
  OBVIOUS
<1>1. TimelineInv
  BY InitTimeline DEF EstimatesInit
<1>3. DOMAIN estimates = {} /\ DOMAIN decisions = {} /\ estimates \in Seq(Estimate)
  BY DEF EstimatesInit
<1>4. decisions \in [DOMAIN decisions -> Decision]
  BY <1>3 DEF EstimatesInit
<1>5. call \in [Worker -> Call] /\ \A w \in Worker : call[w].op = "idle"
  BY NoCallType DEF EstimatesInit
<1>6. EstimateSide
  BY <1>3, <1>4, <1>5 DEF EstimateSide, CallsAreKnown, LinkAgrees
<1>7. QED BY <1>1, <1>6 DEF TimelineInv, EstimatesInv, EstimatesTypeOK, EstimateSide

LEMMA EstimatesInvariant == EstimatesSpec => []EstimatesInv
BY EstimatesInitInv, EstimatesStep, PTL DEF EstimatesSpec

\* A link exists exactly while its estimate is out with the customer or decided,
\* and shows the verdict the estimate has, whichever of sending, cancelling and
\* deciding overlap.
THEOREM LinksAlwaysAgree == EstimatesSpec => []LinkAgrees
<1>1. EstimatesInv => LinkAgrees
  BY DEF EstimatesInv
<1>2. QED BY <1>1, EstimatesInvariant, PTL

\* Both services together keep the newest entry of a timeline at the ticket's
\* status, although each overwrites the status from a reading of its own.
THEOREM TimelinesEndAtStatus == EstimatesSpec => []TimelineEndsAtStatus
<1>1. EstimatesInv => TimelineEndsAtStatus
  BY DEF EstimatesInv
<1>2. QED BY <1>1, EstimatesInvariant, PTL

\* The rows and the requests of both services keep their types.
THEOREM EstimatesTypeCorrect == EstimatesSpec => []EstimatesTypeOK
<1>1. EstimatesInv => EstimatesTypeOK
  BY DEF EstimatesInv
<1>2. QED BY <1>1, EstimatesInvariant, PTL

-----------------------------------------------------------------------------
(* One request at a time: what an estimate promises the customer *)

\* The checks a call made are still good when it writes, if no other call came
\* between.
CallsAreFresh ==
  \A w \in Worker :
    LET c == call[w] IN
    /\ c.op = "send" => estimates[c.estimate].status = "DRAFT"
    /\ c.op = "cancel" => estimates[c.estimate].status \in {"DRAFT", "SENT"}
    /\ c.op = "decide" => estimates[c.estimate].status = "SENT"

QuoteInv == EstimatesInv /\ CallsAreFresh

LEMMA OnlyWorker ==
  ASSUME \A v, w \in Worker : v = w, EstimatesTypeOK, NEW w \in Worker, NEW c,
         call' = [call EXCEPT ![w] = c],
         c.op = "send" => estimates'[c.estimate].status = "DRAFT",
         c.op = "cancel" => estimates'[c.estimate].status \in {"DRAFT", "SENT"},
         c.op = "decide" => estimates'[c.estimate].status = "SENT"
  PROVE  CallsAreFresh'
<1>1. \A v \in Worker : call'[v] = c
  BY DEF EstimatesTypeOK
<1>2. QED BY <1>1 DEF CallsAreFresh

\* An open link of an undecided estimate belongs to one that was sent.
LEMMA BeginCallFresh ==
  ASSUME \A v, w \in Worker : v = w, QuoteInv, NEW w \in Worker, BeginCall(w)
  PROVE  CallsAreFresh' /\ UNCHANGED estimates
<1>a. EstimatesTypeOK /\ LinkAgrees
  BY DEF QuoteInv, EstimatesInv
<1>b. \A e \in DOMAIN estimates : estimates[e].status \in EstimateStatus
  <2>1. \A e \in DOMAIN estimates : estimates[e] \in Estimate
    BY <1>a DEF EstimatesTypeOK
  <2>2. QED BY <2>1 DEF Estimate
<1>1. ASSUME NEW u, NEW t, NEW s, BeginDraft(w, u, t, s) PROVE CallsAreFresh' /\ UNCHANGED estimates
  BY <1>1, <1>a, OnlyWorker DEF BeginDraft, Take
<1>2. ASSUME NEW u, NEW e \in DOMAIN estimates, BeginSend(w, u, e)
      PROVE  CallsAreFresh' /\ UNCHANGED estimates
  BY <1>2, <1>a, OnlyWorker DEF BeginSend, Sendable, Take
<1>3. ASSUME NEW u, NEW e \in DOMAIN estimates, BeginCancel(w, u, e)
      PROVE  CallsAreFresh' /\ UNCHANGED estimates
  <2>1. estimates[e].status \in {"DRAFT", "SENT"}
    BY <1>3, <1>b DEF BeginCancel, EstimateStatus, Verdict
  <2>2. QED BY <1>3, <1>a, <2>1, OnlyWorker DEF BeginCancel, Take
<1>4. ASSUME NEW e \in DOMAIN estimates, NEW verdict, BeginDecide(w, e, verdict)
      PROVE  CallsAreFresh' /\ UNCHANGED estimates
  <2>1. e \in DOMAIN decisions /\ estimates[e].status \notin Verdict
    BY <1>4 DEF BeginDecide, Undecided
  <2>2. estimates[e].status = "SENT"
    BY <1>a, <2>1 DEF LinkAgrees
  <2>3. QED BY <1>4, <1>a, <2>2, OnlyWorker DEF BeginDecide, Take
<1>5. QED BY <1>1, <1>2, <1>3, <1>4 DEF BeginCall

\* A call that moves one estimate on.
LEMMA StatusMoves ==
  ASSUME EstimatesTypeOK, NEW e \in DOMAIN estimates, NEW row,
         estimates' = [estimates EXCEPT ![e] = row],
         row.status \in Promise!Onward[estimates[e].status],
         estimates[e].status \in DOMAIN Promise!Onward,
         row.status \in DOMAIN Promise!Onward
  PROVE  Promise!Deal
<1>1. estimates \in Seq(Estimate)
  BY DEF EstimatesTypeOK
<1>2. DOMAIN estimates' = DOMAIN estimates
      /\ \A x \in DOMAIN estimates : estimates'[x] = IF x = e THEN row ELSE estimates[x]
  BY <1>1
<1>3. [x \in DOMAIN estimates' |-> estimates'[x].status]
        = [[x \in DOMAIN estimates |-> estimates[x].status] EXCEPT ![e] = row.status]
  BY <1>2
<1>4. Promise!Advance(e, row.status)
  BY <1>3 DEF Promise!Advance, Statuses
<1>5. e \in DOMAIN [x \in DOMAIN estimates |-> estimates[x].status]
  OBVIOUS
<1>6. QED BY <1>4, <1>5 DEF Promise!Deal, Statuses

LEMMA OnwardTable ==
  /\ DOMAIN Promise!Onward = {"DRAFT", "SENT", "APPROVED", "REJECTED", "CANCELLED"}
  /\ "SENT" \in Promise!Onward["DRAFT"]
  /\ "CANCELLED" \in Promise!Onward["DRAFT"] /\ "CANCELLED" \in Promise!Onward["SENT"]
  /\ Verdict \subseteq Promise!Onward["SENT"]
BY DEF Promise!Onward, Verdict

LEMMA FinishCallDeals ==
  ASSUME \A v, w \in Worker : v = w, QuoteInv, NEW w \in Worker, FinishCall(w)
  PROVE  CallsAreFresh' /\ (Promise!Deal \/ UNCHANGED estimates)
<1> DEFINE e == call[w].estimate
<1>a. EstimatesTypeOK /\ CallsAreKnown
  BY DEF QuoteInv, EstimatesInv
<1>b. \A x \in DOMAIN estimates : estimates[x] \in Estimate
  BY <1>a DEF EstimatesTypeOK
<1>c. CallsAreFresh'
  <2>1. call' = [call EXCEPT ![w] = NoCall]
    BY DEF FinishCall, CommitDraft, CommitSend, CommitCancel, CommitDecide, Withdraw, Reply
  <2>2. QED BY <1>a, <2>1, NoCallType, OnlyWorker
<1>1. CASE CommitDraft(w)
  <2> DEFINE row == [ticket |-> call[w].ticket, status |-> "DRAFT", createdBy |-> call[w].actor,
                     subtotal |-> call[w].subtotal, audited |-> "DRAFT", sendings |-> 0]
             ss == [x \in DOMAIN estimates |-> estimates[x].status]
  <2>1. estimates' = Append(estimates, row)
    BY <1>1 DEF CommitDraft
  <2>2. estimates \in Seq(Estimate) /\ Len(estimates) \in Nat
    BY <1>a DEF EstimatesTypeOK
  <2>3. row.status = "DRAFT"
    OBVIOUS
  <2> HIDE DEF row
  <2>4. /\ DOMAIN estimates' = 1..(Len(estimates) + 1)
        /\ \A x \in 1..(Len(estimates) + 1) :
             estimates'[x] = IF x \in 1..Len(estimates) THEN estimates[x] ELSE row
    BY <2>1, <2>2
  <2>5. ss \in Seq({ss[x] : x \in 1..Len(estimates)}) /\ Len(ss) = Len(estimates)
    BY <2>2
  <2>6. [x \in DOMAIN estimates' |-> estimates'[x].status] = Append(ss, "DRAFT")
    BY <2>2, <2>3, <2>4, <2>5
  <2>7. Promise!Draft
    BY <2>6 DEF Promise!Draft, Statuses
  <2>8. QED BY <1>c, <2>7 DEF Promise!Deal
<1>2. CASE CommitSend(w)
  <2>1. e \in DOMAIN estimates /\ estimates[e].status = "DRAFT"
    BY <1>2, <1>a DEF CommitSend, CallsAreKnown, QuoteInv, CallsAreFresh
  <2>2. estimates' = [estimates EXCEPT ![e] = Sent(estimates[e])] /\ Sent(estimates[e]).status = "SENT"
    BY <1>2, <1>b, <2>1, ChangedRows DEF CommitSend, EstimateStatus
  <2>3. QED BY <1>a, <1>c, <2>1, <2>2, OnwardTable, StatusMoves
<1>3. CASE CommitCancel(w)
  <2>1. e \in DOMAIN estimates /\ estimates[e].status \in {"DRAFT", "SENT"}
    BY <1>3, <1>a DEF CommitCancel, CallsAreKnown, QuoteInv, CallsAreFresh
  <2>2. /\ estimates' = [estimates EXCEPT ![e] = Became(estimates[e], "CANCELLED")]
        /\ Became(estimates[e], "CANCELLED").status = "CANCELLED"
    BY <1>3, <1>b, <2>1, ChangedRows DEF CommitCancel, EstimateStatus
  <2>3. /\ "CANCELLED" \in Promise!Onward[estimates[e].status]
        /\ estimates[e].status \in DOMAIN Promise!Onward
        /\ "CANCELLED" \in DOMAIN Promise!Onward
    BY <2>1, OnwardTable
  <2>4. QED BY <1>a, <1>c, <2>1, <2>2, <2>3, StatusMoves
<1>4. CASE CommitDecide(w)
  <2>1. e \in DOMAIN estimates /\ estimates[e].status = "SENT" /\ call[w].verdict \in Verdict
    BY <1>4, <1>a, CallFields DEF CommitDecide, CallsAreKnown, QuoteInv, CallsAreFresh
  <2>2. /\ estimates' = [estimates EXCEPT ![e] = Became(estimates[e], call[w].verdict)]
        /\ Became(estimates[e], call[w].verdict).status = call[w].verdict
    <3>1. estimates[e] \in Estimate /\ call[w].verdict \in EstimateStatus
      BY <1>b, <2>1 DEF EstimateStatus
    <3>2. QED BY <1>4, <3>1, ChangedRows DEF CommitDecide
  <2>3. call[w].verdict \in DOMAIN Promise!Onward
    BY <2>1, OnwardTable DEF Verdict
  <2>4. QED BY <1>a, <1>c, <2>1, <2>2, <2>3, OnwardTable, StatusMoves
<1>5. CASE Withdraw(w)
  BY <1>5, <1>c DEF Withdraw
<1>6. QED BY <1>1, <1>2, <1>3, <1>4, <1>5 DEF FinishCall

LEMMA QuoteStep ==
  ASSUME \A v, w \in Worker : v = w, QuoteInv, [EstimatesNext]_allVars
  PROVE  QuoteInv' /\ (Promise!Deal \/ UNCHANGED estimates)
<1>1. EstimatesInv'
  BY EstimatesStep DEF QuoteInv
<1>2. CASE UNCHANGED <<estimates, call>>
  BY <1>1, <1>2 DEF QuoteInv, CallsAreFresh
<1>3. ASSUME NEW w \in Worker, BeginCall(w) \/ FinishCall(w)
      PROVE  QuoteInv' /\ (Promise!Deal \/ UNCHANGED estimates)
  BY <1>1, <1>3, BeginCallFresh, FinishCallDeals DEF QuoteInv
<1>4. QED
  BY <1>2, <1>3 DEF EstimatesNext, TicketStep, estimateVars, ExpireLink, allVars

\* When the requests come one at a time, estimates keep what Quote promises: sent
\* once, then decided once or withdrawn, and the decision stands.
THEOREM ImplementsQuote ==
  ASSUME \A v, w \in Worker : v = w
  PROVE  EstimatesSpec => KeepsQuote
<1>1. EstimatesInit => QuoteInv /\ Promise!NoQuotes
  <2>1. EstimatesInit => estimates = <<>> /\ \A w \in Worker : call[w].op = "idle"
    BY NoCallType DEF EstimatesInit
  <2>2. EstimatesInit => CallsAreFresh
    BY <2>1 DEF CallsAreFresh
  <2>3. EstimatesInit => [x \in DOMAIN estimates |-> estimates[x].status] = <<>>
    BY <2>1
  <2>4. QED BY <2>2, <2>3, EstimatesInitInv DEF QuoteInv, Promise!NoQuotes, Statuses
<1>2. QuoteInv /\ [EstimatesNext]_allVars
        => QuoteInv' /\ [Promise!Deal]_Statuses
  BY QuoteStep DEF Statuses
<1>3. QED BY <1>1, <1>2, PTL DEF EstimatesSpec, KeepsQuote, Promise!Spec

-----------------------------------------------------------------------------
(* Estimates, tickets and invoices *)


\* What createFromTicket finds, ticket by ticket: the environment of Invoices.
Approvals == [t \in TicketId |-> {estimates[e].subtotal : e \in ApprovedOf(t)}]

\* The theorems about Invoices, for the tickets and requests of this module.
Books == INSTANCE Invoices_proofs WITH
  approved <- [t \in TicketId |-> {estimates[e].subtotal : e \in ApprovedOf(t)}],
  req      <- bill,
  Scope    <- [u \in Staff |-> TicketId]

-----------------------------------------------------------------------------
(* The estimates and the tickets of the whole *)

LEMMA ShopStep ==
  ASSUME [BillingNext]_shopVars
  PROVE  [EstimatesNext]_allVars
<1>1. CASE UNCHANGED shopVars
  BY <1>1 DEF shopVars, allVars
<1>2. ASSUME NEW w \in Worker, RepairStep(w) PROVE EstimatesNext
  BY <1>2 DEF RepairStep, EstimatesNext
<1>3. ASSUME NEW w \in Worker, BillStep(w) PROVE UNCHANGED allVars
  BY <1>3 DEF BillStep
<1>4. ASSUME NEW e \in DOMAIN estimates, Lapse(e) PROVE EstimatesNext
  BY <1>4 DEF Lapse, EstimatesNext
<1>5. QED BY <1>1, <1>2, <1>3, <1>4 DEF BillingNext

\* Billing only reads estimates and tickets: what was proved of the two services
\* alone holds with InvoicesService beside them.
THEOREM BillingIsEstimates == BillingSpec => EstimatesSpec
<1>1. BillingInit => EstimatesInit
  BY DEF BillingInit
<1>2. QED BY <1>1, ShopStep, PTL DEF BillingSpec, EstimatesSpec

\* In particular, one request at a time, a sent estimate is decided once.
THEOREM BillingKeepsQuote ==
  ASSUME \A v, w \in Worker : v = w
  PROVE  BillingSpec => KeepsQuote
BY BillingIsEstimates, ImplementsQuote, PTL

LEMMA ShopInvariant == BillingSpec => []EstimatesInv
BY BillingIsEstimates, EstimatesInvariant, PTL

-----------------------------------------------------------------------------
(* What a step does to the estimates and the timelines *)

LEMMA KeptColumns ==
  ASSUME NEW row \in Estimate, NEW status \in EstimateStatus
  PROVE  /\ Became(row, status).subtotal = row.subtotal
         /\ Became(row, status).createdBy = row.createdBy
         /\ Sent(row).subtotal = row.subtotal
         /\ Sent(row).createdBy = row.createdBy
<1> DEFINE new(s) == [row EXCEPT !.status = s, !.audited = s]
<1>1. ASSUME NEW s \in EstimateStatus
      PROVE  /\ new(s) \in Estimate /\ new(s).subtotal = row.subtotal
             /\ new(s).createdBy = row.createdBy
  BY <1>1 DEF Estimate
<1>2. "SENT" \in EstimateStatus
  BY DEF EstimateStatus
<1>3. /\ new("SENT") \in Estimate /\ new("SENT").subtotal = row.subtotal
      /\ new("SENT").createdBy = row.createdBy
  BY <1>1, <1>2
<1> DEFINE sent == new("SENT")
<1> HIDE DEF sent
<1>4. /\ [sent EXCEPT !.sendings = @ + 1].subtotal = sent.subtotal
      /\ [sent EXCEPT !.sendings = @ + 1].createdBy = sent.createdBy
  BY <1>3 DEF Estimate, sent
<1>5. QED BY <1>1, <1>3, <1>4 DEF Became, Sent, sent

DraftsOne ==
  \E row \in Estimate : row.status = "DRAFT" /\ estimates' = Append(estimates, row)

\* A timeline with the entry of an approval.
Tells(timeline, by) ==
  \E k \in DOMAIN timeline : timeline[k] = Change("WAITING_FOR_APPROVAL", "APPROVED", by)

\* The step adds the entry of a verdict.
NewlyTold(t, verdict, by) ==
  \E k \in DOMAIN history'[t] :
    /\ k \notin DOMAIN history[t]
    /\ history'[t][k] = Change("WAITING_FOR_APPROVAL", verdict, by)

ChangesOne ==
  \E e \in DOMAIN estimates, row \in Estimate :
    /\ estimates' = [estimates EXCEPT ![e] = row]
    /\ row.ticket = estimates[e].ticket
    /\ row.subtotal = estimates[e].subtotal
    /\ row.createdBy = estimates[e].createdBy
    /\ row.status \in Verdict => NewlyTold(row.ticket, row.status, row.createdBy)

LEMMA ChangedOne ==
  ASSUME NEW e \in DOMAIN estimates, NEW row \in Estimate,
         estimates' = [estimates EXCEPT ![e] = row],
         row.ticket = estimates[e].ticket,
         row.subtotal = estimates[e].subtotal,
         row.createdBy = estimates[e].createdBy,
         row.status \notin Verdict
  PROVE  ChangesOne
BY DEF ChangesOne

LEMMA FinishCallEffect ==
  ASSUME EstimatesInv, NEW w \in Worker, FinishCall(w)
  PROVE  estimates' = estimates \/ DraftsOne \/ ChangesOne
<1> DEFINE e == call[w].estimate
<1>a. EstimatesTypeOK /\ CallsAreKnown /\ TypeOK
  BY DEF EstimatesInv, EstimatesTypeOK
<1>b. \A x \in DOMAIN estimates : estimates[x] \in Estimate
  BY <1>a DEF EstimatesTypeOK
<1>1. CASE CommitDraft(w)
  <2> DEFINE row == [ticket |-> call[w].ticket, status |-> "DRAFT", createdBy |-> call[w].actor,
                     subtotal |-> call[w].subtotal, audited |-> "DRAFT", sendings |-> 0]
  <2>1. estimates' = Append(estimates, row) /\ call[w].op = "draft"
    BY <1>1 DEF CommitDraft
  <2>2. row \in Estimate /\ row.status = "DRAFT"
    BY <1>a, <2>1, CallFields DEF Estimate, EstimateStatus
  <2> HIDE DEF row
  <2>3. QED BY <2>1, <2>2 DEF DraftsOne
<1>2. CASE CommitSend(w)
  <2>1. e \in DOMAIN estimates /\ estimates[e] \in Estimate
    BY <1>2, <1>a, <1>b DEF CommitSend, CallsAreKnown
  <2>2. estimates' = [estimates EXCEPT ![e] = Sent(estimates[e])]
    BY <1>2 DEF CommitSend
  <2>3. /\ Sent(estimates[e]) \in Estimate
        /\ Sent(estimates[e]).ticket = estimates[e].ticket
        /\ Sent(estimates[e]).subtotal = estimates[e].subtotal
        /\ Sent(estimates[e]).createdBy = estimates[e].createdBy
        /\ Sent(estimates[e]).status = "SENT"
    BY <2>1, ChangedRows, KeptColumns DEF EstimateStatus
  <2>4. Sent(estimates[e]).status \notin Verdict
    BY <2>3 DEF Verdict
  <2>5. QED BY <2>1, <2>2, <2>3, <2>4, ChangedOne
<1>3. CASE CommitCancel(w)
  <2>1. e \in DOMAIN estimates /\ estimates[e] \in Estimate /\ "CANCELLED" \in EstimateStatus
    BY <1>3, <1>a, <1>b DEF CommitCancel, CallsAreKnown, EstimateStatus
  <2> DEFINE row == Became(estimates[e], "CANCELLED")
  <2>2. estimates' = [estimates EXCEPT ![e] = row]
    BY <1>3 DEF CommitCancel
  <2>3. /\ row \in Estimate
        /\ row.ticket = estimates[e].ticket
        /\ row.subtotal = estimates[e].subtotal
        /\ row.createdBy = estimates[e].createdBy
        /\ row.status = "CANCELLED"
    BY <2>1, ChangedRows, KeptColumns
  <2>4. row.status \notin Verdict
    BY <2>3 DEF Verdict
  <2> HIDE DEF row
  <2>5. QED BY <2>1, <2>2, <2>3, <2>4, ChangedOne
<1>4. CASE CommitDecide(w)
  <2> DEFINE verdict == call[w].verdict
             row == Became(estimates[e], verdict)
             t == estimates[e].ticket
             by == estimates[e].createdBy
  <2>1. /\ e \in DOMAIN estimates /\ estimates[e] \in Estimate
        /\ verdict \in Verdict /\ verdict \in EstimateStatus /\ verdict \in TicketStatus
    BY <1>4, <1>a, <1>b, CallFields
       DEF CommitDecide, CallsAreKnown, Verdict, EstimateStatus, TicketStatus
  <2>2. estimates' = [estimates EXCEPT ![e] = row]
    BY <1>4 DEF CommitDecide
  <2>3. /\ row \in Estimate
        /\ row.ticket = t
        /\ row.subtotal = estimates[e].subtotal
        /\ row.createdBy = by
        /\ row.status = verdict
    BY <2>1, ChangedRows, KeptColumns
  <2>4. t \in DOMAIN tickets /\ by \in Staff /\ "WAITING_FOR_APPROVAL" \in TicketStatus
    BY <1>a, <2>1 DEF CallsAreKnown, Estimate, TicketStatus
  <2>5. WriteStatus(t, "WAITING_FOR_APPROVAL", verdict, by)
    BY <1>4 DEF CommitDecide, PassOn
  <2> DEFINE h == Change("WAITING_FOR_APPROVAL", verdict, by)
  <2> HIDE DEF row, t, by, verdict
  <2>6. history[t] \in Seq(StatusChange) /\ h \in StatusChange /\ history'[t] = Append(history[t], h)
    BY <1>a, <2>1, <2>4, <2>5, WriteStatusRows
  <2> HIDE DEF h
  <2>7. /\ Len(history[t]) + 1 \in DOMAIN history'[t]
        /\ Len(history[t]) + 1 \notin DOMAIN history[t]
        /\ history'[t][Len(history[t]) + 1] = h
    BY <2>6
  <2>8. NewlyTold(t, verdict, by)
    BY <2>7 DEF NewlyTold, h
  <2>9. QED BY <2>1, <2>2, <2>3, <2>8 DEF ChangesOne, t, by
<1>5. CASE Withdraw(w)
  BY <1>5 DEF Withdraw
<1>6. QED BY <1>1, <1>2, <1>3, <1>4, <1>5 DEF FinishCall

LEMMA EstimateEffect ==
  ASSUME EstimatesInv, [EstimatesNext]_allVars
  PROVE  estimates' = estimates \/ DraftsOne \/ ChangesOne
<1>1. ASSUME NEW w \in Worker, TicketStep(w) PROVE estimates' = estimates
  BY <1>1 DEF TicketStep, estimateVars
<1>2. ASSUME NEW w \in Worker, BeginCall(w) PROVE estimates' = estimates
  BY <1>2 DEF BeginCall, BeginDraft, BeginSend, BeginCancel, BeginDecide, Take
<1>3. ASSUME NEW e, ExpireLink(e) PROVE estimates' = estimates
  BY <1>3 DEF ExpireLink
<1>4. CASE UNCHANGED allVars
  BY <1>4 DEF allVars
<1>5. QED BY <1>1, <1>2, <1>3, <1>4, FinishCallEffect DEF EstimatesNext

-----------------------------------------------------------------------------
(* The invoices of the whole *)

\* A ticket's approvals change by one estimate at a time, other tickets' not at all.
LEMMA ApprovalsOf ==
  ASSUME NEW t \in TicketId, NEW v
  PROVE  v \in Approvals[t] <=> \E x \in DOMAIN estimates :
           /\ estimates[x].ticket = t
           /\ estimates[x].status = "APPROVED"
           /\ estimates[x].subtotal = v
BY DEF Approvals, ApprovedOf

LEMMA ApprovalsNext ==
  ASSUME NEW t \in TicketId, NEW v
  PROVE  v \in Approvals'[t] <=> \E x \in DOMAIN estimates' :
           /\ estimates'[x].ticket = t
           /\ estimates'[x].status = "APPROVED"
           /\ estimates'[x].subtotal = v
BY DEF Approvals, ApprovedOf

LEMMA ApprovalsSet ==
  /\ DOMAIN Approvals = TicketId /\ Approvals = [t \in TicketId |-> Approvals[t]]
  /\ DOMAIN Approvals' = TicketId /\ Approvals' = [t \in TicketId |-> Approvals'[t]]
BY DEF Approvals

LEMMA DraftApproves ==
  ASSUME EstimatesTypeOK, DraftsOne
  PROVE  Approvals' = Approvals
<1>1. PICK row \in Estimate : row.status = "DRAFT" /\ estimates' = Append(estimates, row)
  BY DEF DraftsOne
<1>2. estimates \in Seq(Estimate)
  BY DEF EstimatesTypeOK
<1> DEFINE n == Len(estimates) + 1
<1>3. /\ DOMAIN estimates' = DOMAIN estimates \cup {n} /\ n \notin DOMAIN estimates
      /\ \A x \in DOMAIN estimates : estimates'[x] = estimates[x]
      /\ estimates'[n].status = "DRAFT"
  BY <1>1, <1>2
<1> HIDE DEF n
<1>4. ASSUME NEW t \in TicketId, NEW v
      PROVE  v \in Approvals'[t] <=> v \in Approvals[t]
  BY <1>3, ApprovalsOf, ApprovalsNext
<1>5. \A t \in TicketId : Approvals'[t] = Approvals[t]
  <2>1. ASSUME NEW t \in TicketId PROVE Approvals'[t] = Approvals[t]
    <3>1. Approvals[t] = {estimates[e].subtotal : e \in ApprovedOf(t)}
      BY DEF Approvals
    <3>2. Approvals'[t] = {estimates'[e].subtotal : e \in ApprovedOf(t)'}
      BY DEF Approvals
    <3>3. QED BY <1>4, <3>1, <3>2
  <2>2. QED BY <2>1
<1>6. QED BY <1>5, ApprovalsSet

LEMMA ChangeApproves ==
  ASSUME EstimatesTypeOK, ChangesOne
  PROVE  \/ Approvals' = Approvals
         \/ \E t \in TicketId, s \in Subtotals :
              \/ s \notin Approvals[t] /\ Approvals' = [Approvals EXCEPT ![t] = @ \cup {s}]
              \/ s \in Approvals[t] /\ Approvals' = [Approvals EXCEPT ![t] = @ \ {s}]
<1>1. PICK e \in DOMAIN estimates, row \in Estimate :
        /\ estimates' = [estimates EXCEPT ![e] = row]
        /\ row.ticket = estimates[e].ticket
        /\ row.subtotal = estimates[e].subtotal
  BY DEF ChangesOne
<1>2. /\ DOMAIN estimates' = DOMAIN estimates
      /\ \A x \in DOMAIN estimates : estimates'[x] = IF x = e THEN row ELSE estimates[x]
  BY <1>1 DEF EstimatesTypeOK
<1>3. PICK t \in TicketId, s \in Subtotals : row.ticket = t /\ row.subtotal = s
  BY DEF Estimate
<1>4. \A u \in TicketId : u # t => Approvals'[u] = Approvals[u]
  <2>1. ASSUME NEW u \in TicketId, u # t PROVE Approvals'[u] = Approvals[u]
    <3>1. ASSUME NEW v PROVE v \in Approvals'[u] <=> v \in Approvals[u]
      <4>1. \A x \in DOMAIN estimates : x = e => estimates'[x].ticket # u /\ estimates[x].ticket # u
        BY <1>1, <1>2, <1>3, <2>1
      <4>2. \A x \in DOMAIN estimates :
              estimates'[x].ticket = u \/ estimates[x].ticket = u => estimates'[x] = estimates[x]
        BY <1>2, <4>1
      <4>3. QED BY <1>2, <4>2, ApprovalsOf, ApprovalsNext
    <3>2. Approvals[u] = {estimates[x].subtotal : x \in ApprovedOf(u)}
      BY DEF Approvals
    <3>3. Approvals'[u] = {estimates'[x].subtotal : x \in ApprovedOf(u)'}
      BY DEF Approvals
    <3>4. QED BY <3>1, <3>2, <3>3
  <2>2. QED BY <2>1
<1>5. \A v : v # s => (v \in Approvals'[t] <=> v \in Approvals[t])
  <2>1. ASSUME NEW v, v # s PROVE v \in Approvals'[t] <=> v \in Approvals[t]
    <3>1. \A x \in DOMAIN estimates : x = e => estimates'[x].subtotal = s /\ estimates[x].subtotal = s
      BY <1>1, <1>2, <1>3
    <3>2. \A x \in DOMAIN estimates :
            estimates'[x].subtotal = v \/ estimates[x].subtotal = v => estimates'[x] = estimates[x]
      BY <1>2, <2>1, <3>1
    <3>3. QED BY <1>2, <3>2, ApprovalsOf, ApprovalsNext
  <2>2. QED BY <2>1
<1>6. /\ Approvals[t] = {estimates[x].subtotal : x \in ApprovedOf(t)}
      /\ Approvals'[t] = {estimates'[x].subtotal : x \in ApprovedOf(t)'}
  BY DEF Approvals
<1>7. CASE s \in Approvals[t] <=> s \in Approvals'[t]
  <2>1. Approvals'[t] = Approvals[t]
    BY <1>5, <1>6, <1>7
  <2>2. \A u \in TicketId : Approvals'[u] = Approvals[u]
    BY <1>4, <2>1
  <2>3. QED BY <2>2, ApprovalsSet
<1>8. CASE s \notin Approvals[t] /\ s \in Approvals'[t]
  <2>1. Approvals'[t] = Approvals[t] \cup {s}
    BY <1>5, <1>6, <1>8
  <2>2. Approvals' = [Approvals EXCEPT ![t] = @ \cup {s}]
    BY <1>4, <2>1, ApprovalsSet
  <2>3. QED BY <1>8, <2>2
<1>9. CASE s \in Approvals[t] /\ s \notin Approvals'[t]
  <2>1. Approvals'[t] = Approvals[t] \ {s}
    BY <1>5, <1>6, <1>9
  <2>2. Approvals' = [Approvals EXCEPT ![t] = @ \ {s}]
    BY <1>4, <2>1, ApprovalsSet
  <2>3. QED BY <1>9, <2>2
<1>10. QED BY <1>7, <1>8, <1>9

\* Whatever a step does to the estimates is a step of Invoices' environment.
LEMMA EnvironmentStep ==
  ASSUME EstimatesInv, [EstimatesNext]_allVars, UNCHANGED billVars
  PROVE  [Office!Next]_(Office!vars)
<1>a. EstimatesTypeOK
  BY DEF EstimatesInv
<1>b. UNCHANGED <<invoices, received, audit, bill>>
  BY DEF billVars
<1>1. CASE Approvals' = Approvals
  BY <1>1, <1>b DEF Office!vars, Approvals
<1>2. ASSUME NEW t \in TicketId, NEW s \in Subtotals,
             s \notin Approvals[t], Approvals' = [Approvals EXCEPT ![t] = @ \cup {s}]
      PROVE  Office!Next
  <2>1. Office!Approve(t, s)
    BY <1>2, <1>b DEF Office!Approve, Approvals
  <2>2. QED BY <2>1 DEF Office!Next
<1>3. ASSUME NEW t \in TicketId, NEW s \in Subtotals,
             s \in Approvals[t], Approvals' = [Approvals EXCEPT ![t] = @ \ {s}]
      PROVE  Office!Next
  <2>1. Office!Overturn(t, s)
    BY <1>3, <1>b DEF Office!Overturn, Approvals
  <2>2. QED BY <2>1 DEF Office!Next
<1>4. CASE estimates' = estimates
  <2>1. Approvals' = Approvals
    BY <1>4 DEF Approvals, ApprovedOf
  <2>2. QED BY <1>1, <2>1
<1>5. QED BY <1>a, <1>1, <1>2, <1>3, <1>4, EstimateEffect, DraftApproves, ChangeApproves

LEMMA OfficeStep ==
  ASSUME EstimatesInv, [BillingNext]_shopVars
  PROVE  [Office!Next]_(Office!vars)
<1>1. CASE UNCHANGED billVars
  BY <1>1, ShopStep, EnvironmentStep
<1>2. ASSUME NEW w \in Worker, BillStep(w) PROVE Office!Next
  BY <1>2 DEF BillStep, Office!Next
<1>3. QED BY <1>1, <1>2 DEF BillingNext, RepairStep, Lapse, shopVars, billVars

\* What the estimates service does is what Invoices allows its environment, in
\* any overlap: one approval or one overturned approval at a time.
THEOREM BillingIsInvoices == BillingSpec => Office!Spec
<1>1. BillingInit => Office!Init
  BY DEF BillingInit
<1>2. QED BY <1>1, OfficeStep, ShopInvariant, PTL DEF BillingSpec, Office!Spec

\* The assumption of Invoices about its constants holds of those of this module.
LEMMA OfficeConstants ==
  /\ RoleOf \in [Staff -> Books!UserRole]
  /\ [u \in Staff |-> TicketId] \in [Staff -> SUBSET TicketId]
  /\ Subtotals \subseteq Nat
  /\ Discounts \subseteq Nat
  /\ Amounts \subseteq Nat \ {0}
  /\ MaxInvoices \in Nat /\ MaxAudit \in Nat
BY StaffAssumption, EstimateAssumption, OfficeAssumption DEF Books!UserRole, UserRole

\* The two instances of Invoices are one.
LEMMA SameSteps ==
  ASSUME NEW w
  PROVE  (Office!Begin(w) <=> Books!Begin(w)) /\ (Office!Finish(w) <=> Books!Finish(w))
<1>1. Office!Begin(w) <=> Books!Begin(w)
  BY DEF Office!Begin, Books!Begin, Office!BeginCreate, Books!BeginCreate,
         Office!BeginPay, Books!BeginPay, Office!BeginVoid, Books!BeginVoid,
         Office!Receive, Books!Receive, Office!Desk, Books!Desk, Office!Active,
         Books!Active, Office!MayDiscount, Books!MayDiscount, Office!Total, Books!Total,
         Office!Tax, Books!Tax, Office!CanOpen, Books!CanOpen, Office!Unscoped,
         Books!Unscoped, Office!Payable, Books!Payable, Office!Fits, Books!Fits,
         Office!Manager, Books!Manager, Office!Voidable, Books!Voidable, Office!Idle,
         Books!Idle
<1>2. Office!Finish(w) <=> Books!Finish(w)
  BY DEF Office!Finish, Books!Finish, Office!CommitCreate, Books!CommitCreate,
         Office!CommitPay, Books!CommitPay, Office!CommitVoid, Books!CommitVoid,
         Office!Paid, Books!Paid, Office!BalanceAfter, Books!BalanceAfter, Office!Voided, Books!Voided, Office!Write, Books!Write,
         Office!Answer, Books!Answer, Office!Abort, Books!Abort, Office!Idle, Books!Idle
<1>3. QED BY <1>1, <1>2

LEMMA SameOffice ==
  /\ Office!Init <=> Books!Init
  /\ [Office!Next]_(Office!vars) <=> [Books!Next]_(Books!vars)
<1>1. Office!Init <=> Books!Init
  BY DEF Office!Init, Books!Init, Office!Idle, Books!Idle
<1>2. Office!vars = Books!vars /\ Office!vars' = Books!vars'
  BY DEF Office!vars, Books!vars
<1>3. ASSUME NEW t, NEW s
      PROVE  Office!Approve(t, s) \/ Office!Overturn(t, s) <=> Books!Approve(t, s) \/ Books!Overturn(t, s)
  BY DEF Office!Approve, Books!Approve, Office!Overturn, Books!Overturn
<1>4. ASSUME NEW w
      PROVE  Office!Begin(w) \/ Office!Finish(w) <=> Books!Begin(w) \/ Books!Finish(w)
  BY SameSteps
<1>5. Office!Next <=> Books!Next
  BY <1>3, <1>4, Zenon DEF Office!Next, Books!Next
<1>6. QED BY <1>1, <1>2, <1>5

LEMMA BooksKept == BillingSpec => Books!Spec
<1>1. BillingInit => Books!Init
  BY SameOffice DEF BillingInit
<1>2. EstimatesInv /\ [BillingNext]_shopVars => [Books!Next]_(Books!vars)
  BY OfficeStep, SameOffice
<1>3. QED BY <1>1, <1>2, ShopInvariant, PTL DEF BillingSpec, Books!Spec

\* One request at a time, the invoices are a ledger although approvals come and
\* go meanwhile: one active bill per ticket, nothing taken beyond it.
THEOREM BillingKeepsLedger ==
  ASSUME \A v, w \in Worker : v = w
  PROVE  BillingSpec => KeepsLedger
<1>1. Books!Spec => Books!KeepsLedger
  BY OfficeConstants, Books!ImplementsLedger
<1>2. Books!KeepsLedger => Office!KeepsLedger
  <2>1. Books!Promise!NoBills <=> Office!Promise!NoBills
    BY DEF Books!Promise!NoBills, Office!Promise!NoBills
  <2>2. [Books!Promise!Post]_(Books!Bills) <=> [Office!Promise!Post]_(Books!Bills)
    BY DEF Books!Promise!Post, Office!Promise!Post, Books!Promise!Issue, Office!Promise!Issue,
           Books!Promise!Collect, Office!Promise!Collect, Books!Promise!Annul,
           Office!Promise!Annul, Books!Promise!Bill, Office!Promise!Bill, Books!Total, Office!Total,
           Books!Tax, Office!Tax
  <2>3. QED BY <2>1, <2>2, PTL
            DEF Books!KeepsLedger, Office!KeepsLedger, Books!Promise!Spec, Office!Promise!Spec,
                Books!Bills
<1>3. QED BY <1>1, <1>2, BooksKept, PTL DEF KeepsLedger

-----------------------------------------------------------------------------
(* One request at a time: what is billed was approved *)

\* No step takes the entry of an approval out of a timeline.
TimelinesGrow ==
  \A t \in TicketId : \A k \in DOMAIN history[t] :
    k \in DOMAIN history'[t] /\ history'[t][k] = history[t][k]

LEMMA AppendGrows ==
  ASSUME TypeOK, NEW t \in TicketId, NEW h \in StatusChange,
         history' = [history EXCEPT ![t] = Append(history[t], h)]
  PROVE  TimelinesGrow
<1>1. history \in [TicketId -> Seq(StatusChange)]
  BY DEF TypeOK
<1>2. \A k \in DOMAIN history[t] : k \in DOMAIN Append(history[t], h)
                                  /\ Append(history[t], h)[k] = history[t][k]
  BY <1>1
<1>3. \A u \in TicketId : history'[u] = IF u = t THEN Append(history[t], h) ELSE history[u]
  BY <1>1
<1>4. QED BY <1>2, <1>3 DEF TimelinesGrow

LEMMA WriteGrows ==
  ASSUME TypeOK, NEW t \in DOMAIN tickets, NEW from \in TicketStatus, NEW to \in TicketStatus,
         NEW by \in Staff, WriteStatus(t, from, to, by)
  PROVE  TimelinesGrow
<1>1. t \in TicketId /\ Change(from, to, by) \in StatusChange
  BY WriteStatusRows
<1>2. history' = [history EXCEPT ![t] = Append(history[t], Change(from, to, by))]
  BY DEF WriteStatus
<1>3. QED BY <1>1, <1>2, AppendGrows

LEMMA TimelinesOnlyGrow ==
  ASSUME EstimatesInv, [EstimatesNext]_allVars
  PROVE  TimelinesGrow
<1>a. /\ TypeOK /\ RequestsAreLegal /\ CallsAreKnown /\ EstimatesTypeOK
      /\ \A x \in DOMAIN estimates : estimates[x] \in Estimate
  BY DEF EstimatesInv, EstimatesTypeOK
<1>1. CASE history' = history
  BY <1>1 DEF TimelinesGrow
<1>2. ASSUME NEW w \in Worker, TicketStep(w) PROVE TimelinesGrow
  <2>1. OpensOne \/ MovesOne \/ LeavesTimeline
    BY <1>a, <1>2, StepEffect DEF TicketStep
  <2>2. CASE OpensOne
    <3>1. PICK t \in TicketId, b \in Branch, by \in Staff,
               action \in {"CREATE_REPAIR_TICKET", "REOPEN_TICKET"} : OpenTicket(t, b, by, action)
      BY <2>2 DEF OpensOne
    <3>2. Opening(by) \in StatusChange
      BY DEF Opening, Change, StatusChange, TicketStatus
    <3>3. history' = [history EXCEPT ![t] = Append(history[t], Opening(by))]
      BY <3>1 DEF OpenTicket
    <3>4. QED BY <1>a, <3>2, <3>3, AppendGrows
  <2>3. CASE MovesOne
    BY <1>a, <2>3, WriteGrows DEF MovesOne
  <2>4. CASE LeavesTimeline
    BY <1>1, <2>4 DEF LeavesTimeline
  <2>5. QED BY <2>1, <2>2, <2>3, <2>4
<1>3. ASSUME NEW w \in Worker, CommitSend(w) PROVE TimelinesGrow
  <2> DEFINE e == call[w].estimate
  <2>1. e \in DOMAIN estimates /\ Announce(estimates[e].ticket, call[w]) /\ call[w].actor \in Staff
    BY <1>a, <1>3, CallFields DEF CommitSend, CallsAreKnown
  <2>2. estimates[e].ticket \in DOMAIN tickets /\ {"DIAGNOSING", "WAITING_FOR_APPROVAL"} \subseteq TicketStatus
    BY <1>a, <2>1 DEF CallsAreKnown, TicketStatus
  <2>3. CASE WriteStatus(estimates[e].ticket, "DIAGNOSING", "WAITING_FOR_APPROVAL", call[w].actor)
    <3> DEFINE t == estimates[e].ticket
               by == call[w].actor
    <3>1. t \in DOMAIN tickets /\ by \in Staff /\ WriteStatus(t, "DIAGNOSING", "WAITING_FOR_APPROVAL", by)
      BY <2>1, <2>2, <2>3
    <3> HIDE DEF t, by
    <3>2. QED BY <1>a, <2>2, <3>1, WriteGrows
  <2>4. QED BY <1>1, <2>1, <2>3 DEF Announce
<1>4. ASSUME NEW w \in Worker, CommitDecide(w) PROVE TimelinesGrow
  <2> DEFINE t == estimates[call[w].estimate].ticket
             by == estimates[call[w].estimate].createdBy
             verdict == call[w].verdict
  <2>1. call[w].estimate \in DOMAIN estimates /\ verdict \in TicketStatus
    BY <1>a, <1>4, CallFields DEF CommitDecide, CallsAreKnown, Verdict, TicketStatus
  <2>2. t \in DOMAIN tickets /\ by \in Staff /\ "WAITING_FOR_APPROVAL" \in TicketStatus
    BY <1>a, <2>1 DEF CallsAreKnown, Estimate, TicketStatus
  <2>3. WriteStatus(t, "WAITING_FOR_APPROVAL", verdict, by)
    BY <1>4 DEF CommitDecide, PassOn
  <2> HIDE DEF t, by, verdict
  <2>4. QED BY <1>a, <2>1, <2>2, <2>3, WriteGrows
<1>5. ASSUME NEW w \in Worker, BeginCall(w) PROVE history' = history
  BY <1>5 DEF BeginCall, BeginDraft, BeginSend, BeginCancel, BeginDecide, Take
<1>6. ASSUME NEW w \in Worker, CommitDraft(w) \/ CommitCancel(w) \/ Withdraw(w)
      PROVE  history' = history
  BY <1>6 DEF CommitDraft, CommitCancel, Withdraw
<1>7. ASSUME NEW e, ExpireLink(e) PROVE history' = history
  BY <1>7 DEF ExpireLink
<1>8. CASE UNCHANGED allVars
  BY <1>1, <1>8 DEF allVars
<1>9. QED
  BY <1>1, <1>2, <1>3, <1>4, <1>5, <1>6, <1>7, <1>8 DEF EstimatesNext, FinishCall

\* Of one ticket, verdict and author: an estimate more at most with a new entry.
LEMMA ToldStep ==
  ASSUME EstimatesInv, [EstimatesNext]_allVars,
         NEW t \in TicketId, NEW verdict \in Verdict, NEW by \in Staff
  PROVE  \/ Decided(t, verdict, by)' \subseteq Decided(t, verdict, by)
         \/ /\ \E e : Decided(t, verdict, by)' \subseteq Decided(t, verdict, by) \cup {e}
            /\ NewlyTold(t, verdict, by)
<1>a. estimates \in Seq(Estimate)
  BY DEF EstimatesInv, EstimatesTypeOK
<1>1. CASE estimates' = estimates
  BY <1>1 DEF Decided
<1>2. CASE DraftsOne
  <2>1. PICK row \in Estimate : row.status = "DRAFT" /\ estimates' = Append(estimates, row)
    BY <1>2 DEF DraftsOne
  <2>2. \A e \in DOMAIN estimates' : \/ e \in DOMAIN estimates /\ estimates'[e] = estimates[e]
                                 \/ estimates'[e] = row
    BY <1>a, <2>1
  <2>3. QED BY <2>1, <2>2 DEF Decided, Verdict
<1>3. CASE ChangesOne
  <2>1. PICK e \in DOMAIN estimates, row \in Estimate :
          /\ estimates' = [estimates EXCEPT ![e] = row]
          /\ row.status \in Verdict => NewlyTold(row.ticket, row.status, row.createdBy)
    BY <1>3 DEF ChangesOne
  <2>2. DOMAIN estimates' = DOMAIN estimates
        /\ \A x \in DOMAIN estimates : estimates'[x] = IF x = e THEN row ELSE estimates[x]
    BY <1>a, <2>1
  <2>3. CASE row.ticket = t /\ row.status = verdict /\ row.createdBy = by
    <3>1. Decided(t, verdict, by)' \subseteq Decided(t, verdict, by) \cup {e}
      BY <2>2 DEF Decided
    <3>2. QED BY <2>1, <2>3, <3>1
  <2>4. CASE ~(row.ticket = t /\ row.status = verdict /\ row.createdBy = by)
    BY <2>2, <2>4 DEF Decided
  <2>5. QED BY <2>3, <2>4
<1>4. QED BY <1>1, <1>2, <1>3, EstimateEffect

LEMMA ToldSets ==
  ASSUME EstimatesTypeOK, NEW t \in TicketId, NEW verdict, NEW by
  PROVE  IsFiniteSet(Decided(t, verdict, by)) /\ IsFiniteSet(Told(t, verdict, by))
<1>1. estimates \in Seq(Estimate) /\ history[t] \in Seq(StatusChange)
  BY DEF EstimatesTypeOK, TypeOK
<1>2. /\ DOMAIN estimates = 1..Len(estimates) /\ Len(estimates) \in Int
      /\ DOMAIN history[t] = 1..Len(history[t]) /\ Len(history[t]) \in Int
  BY <1>1
<1> DEFINE m == Len(estimates)
           n == Len(history[t])
<1> HIDE DEF m, n
<1>b. m \in Int /\ n \in Int /\ DOMAIN estimates = 1..m /\ DOMAIN history[t] = 1..n
  BY <1>2 DEF m, n
<1>c. IsFiniteSet(1..m) /\ IsFiniteSet(1..n)
  BY <1>b, FS_Interval
<1>3. IsFiniteSet(DOMAIN estimates) /\ IsFiniteSet(DOMAIN history[t])
  BY <1>b, <1>c
<1>4. /\ Decided(t, verdict, by) \in SUBSET DOMAIN estimates
      /\ Told(t, verdict, by) \in SUBSET DOMAIN history[t]
  BY DEF Decided, Told
<1>5. QED BY <1>3, <1>4, FS_Subset

\* An element more of the one set comes with an element more of the other.
LEMMA MoreOfBoth ==
  ASSUME NEW D, NEW E, NEW T, NEW U,
         IsFiniteSet(D), IsFiniteSet(E), IsFiniteSet(T), IsFiniteSet(U),
         Cardinality(D) <= Cardinality(T), T \subseteq U,
         E \subseteq D \/ ((\E e : E \subseteq D \cup {e}) /\ \E k \in U : k \notin T)
  PROVE  Cardinality(E) <= Cardinality(U)
<1>1. /\ Cardinality(D) \in Nat /\ Cardinality(E) \in Nat
      /\ Cardinality(T) \in Nat /\ Cardinality(U) \in Nat
  BY FS_CardinalityType
<1>2. CASE E \subseteq D
  <2>1. Cardinality(E) <= Cardinality(D)
    BY <1>2, FS_Subset
  <2>2. Cardinality(T) <= Cardinality(U)
    BY FS_Subset
  <2>3. QED BY <1>1, <2>1, <2>2
<1>3. CASE (\E e : E \subseteq D \cup {e}) /\ \E k \in U : k \notin T
  <2>1. PICK e : E \subseteq D \cup {e}
    BY <1>3
  <2>2. PICK k \in U : k \notin T
    BY <1>3
  <2>3. IsFiniteSet(D \cup {e}) /\ Cardinality(D \cup {e}) <= Cardinality(D) + 1
    <3>1. /\ IsFiniteSet(D \cup {e})
          /\ Cardinality(D \cup {e}) = IF e \in D THEN Cardinality(D) ELSE Cardinality(D) + 1
      BY FS_AddElement
    <3>2. CASE e \in D
      BY <1>1, <3>1, <3>2
    <3>3. CASE e \notin D
      BY <1>1, <3>1, <3>3
    <3>4. QED BY <3>2, <3>3
  <2>4. IsFiniteSet(T \cup {k}) /\ Cardinality(T \cup {k}) = Cardinality(T) + 1
    BY <2>2, FS_AddElement
  <2>5. Cardinality(E) <= Cardinality(D \cup {e})
    BY <2>1, <2>3, FS_Subset
  <2>6. T \cup {k} \in SUBSET U
    BY <2>2
  <2>7. Cardinality(T \cup {k}) <= Cardinality(U)
    BY <2>6, FS_Subset
  <2>8. /\ Cardinality(D \cup {e}) \in Nat /\ Cardinality(T \cup {k}) \in Nat
    BY <2>3, <2>4, FS_CardinalityType
  <2>9. QED BY <1>1, <2>3, <2>4, <2>5, <2>7, <2>8
<1>4. QED BY <1>2, <1>3

LEMMA VerdictsStayTold ==
  ASSUME EstimatesInv, VerdictsAreTold, [EstimatesNext]_allVars
  PROVE  VerdictsAreTold'
<1>a. EstimatesTypeOK /\ EstimatesTypeOK' /\ TimelinesGrow
  BY EstimatesStep, TimelinesOnlyGrow DEF EstimatesInv
<1>1. SUFFICES ASSUME NEW t \in TicketId, NEW verdict \in Verdict, NEW by \in Staff
               PROVE  Cardinality(Decided(t, verdict, by)') <= Cardinality(Told(t, verdict, by)')
  BY DEF VerdictsAreTold
<1>2. /\ IsFiniteSet(Decided(t, verdict, by)) /\ IsFiniteSet(Told(t, verdict, by))
      /\ IsFiniteSet(Decided(t, verdict, by)') /\ IsFiniteSet(Told(t, verdict, by)')
  <2>1. IsFiniteSet(Decided(t, verdict, by)) /\ IsFiniteSet(Told(t, verdict, by))
    BY <1>a, ToldSets
  <2>2. (IsFiniteSet(Decided(t, verdict, by)) /\ IsFiniteSet(Told(t, verdict, by)))'
    BY <1>a, ToldSets, PTL
  <2>3. QED BY <2>1, <2>2
<1>3. Told(t, verdict, by) \subseteq Told(t, verdict, by)'
  BY <1>a DEF TimelinesGrow, Told
<1>4. NewlyTold(t, verdict, by) =>
        \E k \in Told(t, verdict, by)' : k \notin Told(t, verdict, by)
  BY DEF NewlyTold, Told
<1>5. Cardinality(Decided(t, verdict, by)) <= Cardinality(Told(t, verdict, by))
  BY DEF VerdictsAreTold
<1>6. QED BY <1>2, <1>3, <1>4, <1>5, ToldStep, MoreOfBoth

\* Whatever sendings, cancellations, decisions and changes of the ticket overlap,
\* every decided estimate has an entry of its own in its ticket's timeline that
\* tells of the verdict in its author's name.
THEOREM EveryVerdictIsTold == EstimatesSpec => []VerdictsAreTold
<1>1. EstimatesInit => VerdictsAreTold
  <2> SUFFICES ASSUME EstimatesInit, NEW t \in TicketId, NEW verdict \in Verdict, NEW by \in Staff
               PROVE  Cardinality(Decided(t, verdict, by)) <= Cardinality(Told(t, verdict, by))
    BY DEF VerdictsAreTold
  <2>1. Decided(t, verdict, by) = {}
    BY DEF EstimatesInit, Decided
  <2>2. Cardinality({}) = 0
    BY FS_EmptySet
  <2>3. Cardinality(Told(t, verdict, by)) \in Nat
    BY EstimatesInitInv, ToldSets, FS_CardinalityType DEF EstimatesInv
  <2>4. QED BY <2>1, <2>2, <2>3
<1>2. EstimatesInv /\ VerdictsAreTold /\ [EstimatesNext]_allVars => VerdictsAreTold'
  BY VerdictsStayTold
<1>3. QED BY <1>1, <1>2, EstimatesInvariant, PTL DEF EstimatesSpec

\* An estimate keeps its ticket, its sum and its author, and an approval stands.
EstimatesStand ==
  \A e \in DOMAIN estimates :
    /\ e \in DOMAIN estimates'
    /\ estimates'[e].ticket = estimates[e].ticket
    /\ estimates'[e].subtotal = estimates[e].subtotal
    /\ estimates'[e].createdBy = estimates[e].createdBy
    /\ estimates[e].status = "APPROVED" => estimates'[e].status = "APPROVED"

LEMMA DealsStand ==
  ASSUME EstimatesTypeOK, Promise!Deal, NEW e \in DOMAIN estimates, e \in DOMAIN estimates',
         estimates[e].status = "APPROVED"
  PROVE  estimates'[e].status = "APPROVED"
<1>1. estimates \in Seq(Estimate) /\ DOMAIN Statuses = DOMAIN estimates
  BY DEF EstimatesTypeOK, Statuses
<1>2. Statuses[e] = "APPROVED" /\ Statuses'[e] = estimates'[e].status
  BY DEF Statuses
<1>3. CASE Promise!Draft
  <2>1. Statuses' = Append(Statuses, "DRAFT")
    BY <1>3 DEF Promise!Draft, Statuses
  <2>2. Statuses \in Seq({Statuses[x] : x \in DOMAIN estimates})
    BY <1>1 DEF Statuses
  <2> DEFINE S == {Statuses[x] : x \in DOMAIN estimates}
             ss == Statuses
  <2>3. ss \in Seq(S) /\ e \in DOMAIN ss
    BY <1>1, <2>2
  <2> HIDE DEF S, ss
  <2>4. Append(ss, "DRAFT")[e] = ss[e]
    BY <2>3
  <2>5. QED BY <1>2, <2>1, <2>4 DEF ss
<1>4. ASSUME NEW x \in DOMAIN Statuses, NEW to \in DOMAIN Promise!Onward, Promise!Advance(x, to)
      PROVE  Statuses'[e] = "APPROVED"
  <2>1. to \in Promise!Onward[Statuses[x]] /\ Statuses' = [Statuses EXCEPT ![x] = to]
    BY <1>4 DEF Promise!Advance, Statuses
  <2>2. Promise!Onward["APPROVED"] = {}
    BY DEF Promise!Onward
  <2>3. x # e
    BY <1>2, <2>1, <2>2
  <2>4. QED BY <1>1, <1>2, <2>1, <2>3
<1>5. QED BY <1>2, <1>3, <1>4 DEF Promise!Deal, Statuses

LEMMA EstimatesStay ==
  ASSUME \A v, w \in Worker : v = w, QuoteInv, [EstimatesNext]_allVars
  PROVE  EstimatesStand
<1>a. EstimatesInv /\ EstimatesTypeOK /\ estimates \in Seq(Estimate)
  BY DEF QuoteInv, EstimatesInv, EstimatesTypeOK
<1>1. \A e \in DOMAIN estimates :
        /\ e \in DOMAIN estimates'
        /\ estimates'[e].ticket = estimates[e].ticket
        /\ estimates'[e].subtotal = estimates[e].subtotal
        /\ estimates'[e].createdBy = estimates[e].createdBy
  <2>1. CASE DraftsOne
    <3>1. PICK row \in Estimate : estimates' = Append(estimates, row)
      BY <2>1 DEF DraftsOne
    <3>2. \A e \in DOMAIN estimates : e \in DOMAIN estimates' /\ estimates'[e] = estimates[e]
      BY <1>a, <3>1
    <3>3. QED BY <3>2
  <2>2. CASE ChangesOne
    <3>1. PICK e \in DOMAIN estimates, row \in Estimate :
            /\ estimates' = [estimates EXCEPT ![e] = row]
            /\ row.ticket = estimates[e].ticket
            /\ row.subtotal = estimates[e].subtotal
            /\ row.createdBy = estimates[e].createdBy
      BY <2>2 DEF ChangesOne
    <3>2. DOMAIN estimates' = DOMAIN estimates
          /\ \A x \in DOMAIN estimates : estimates'[x] = IF x = e THEN row ELSE estimates[x]
      BY <3>1
    <3>3. QED BY <3>1, <3>2
  <2>3. QED BY <1>a, <2>1, <2>2, EstimateEffect
<1>2. Promise!Deal \/ estimates' = estimates
  BY QuoteStep
<1>3. QED BY <1>a, <1>1, <1>2, DealsStand DEF EstimatesStand

\* Every approval is told in the timeline of its ticket, by its author.
ApprovalsTold ==
  \A e \in DOMAIN estimates :
    estimates[e].status = "APPROVED" => Tells(history[estimates[e].ticket], estimates[e].createdBy)

LEMMA StillTold ==
  ASSUME \A v, w \in Worker : v = w, QuoteInv, ApprovalsTold, [EstimatesNext]_allVars
  PROVE  ApprovalsTold'
<1>a. EstimatesInv /\ estimates \in Seq(Estimate) /\ TimelinesGrow
      /\ \A e \in DOMAIN estimates : estimates[e] \in Estimate
  BY TimelinesOnlyGrow DEF QuoteInv, EstimatesInv, EstimatesTypeOK
<1>1. \A e \in DOMAIN estimates :
        estimates[e].status = "APPROVED" =>
          Tells(history'[estimates[e].ticket], estimates[e].createdBy)
  <2>1. ASSUME NEW e \in DOMAIN estimates, estimates[e].status = "APPROVED"
        PROVE  Tells(history'[estimates[e].ticket], estimates[e].createdBy)
    <3>1. estimates[e].ticket \in TicketId
      BY <1>a DEF Estimate
    <3>2. PICK k \in DOMAIN history[estimates[e].ticket] :
            history[estimates[e].ticket][k] =
              Change("WAITING_FOR_APPROVAL", "APPROVED", estimates[e].createdBy)
      BY <2>1 DEF ApprovalsTold, Tells
    <3>3. QED BY <1>a, <3>1, <3>2 DEF TimelinesGrow, Tells
  <2>2. QED BY <2>1
<1>2. CASE estimates' = estimates
  BY <1>1, <1>2 DEF ApprovalsTold
<1>3. CASE DraftsOne
  <2>1. PICK row \in Estimate : row.status = "DRAFT" /\ estimates' = Append(estimates, row)
    BY <1>3 DEF DraftsOne
  <2>2. \A e \in DOMAIN estimates' : \/ e \in DOMAIN estimates /\ estimates'[e] = estimates[e]
                                 \/ estimates'[e] = row
    BY <1>a, <2>1
  <2>3. QED BY <1>1, <2>1, <2>2 DEF ApprovalsTold
<1>4. CASE ChangesOne
  <2>1. PICK e \in DOMAIN estimates, row \in Estimate :
          /\ estimates' = [estimates EXCEPT ![e] = row]
          /\ row.status \in Verdict => NewlyTold(row.ticket, row.status, row.createdBy)
    BY <1>4 DEF ChangesOne
  <2>a. row.status = "APPROVED" => Tells(history'[row.ticket], row.createdBy)
    BY <2>1 DEF Verdict, NewlyTold, Tells
  <2>2. DOMAIN estimates' = DOMAIN estimates
        /\ \A x \in DOMAIN estimates : estimates'[x] = IF x = e THEN row ELSE estimates[x]
    BY <1>a, <2>1
  <2>3. QED BY <1>1, <2>1, <2>a, <2>2 DEF ApprovalsTold
<1>5. QED BY <1>a, <1>2, <1>3, <1>4, EstimateEffect

\* The bills there may be: of the approved estimates, less a discount.
Backed ==
  {<<estimates[e].ticket, Office!Total(estimates[e].subtotal, discount)>> :
     e \in {x \in DOMAIN estimates : estimates[x].status = "APPROVED"}, discount \in Discounts}

BilledInv ==
  /\ QuoteInv
  /\ ApprovalsTold
  /\ Books!TypeOK
  /\ \A i \in DOMAIN invoices : <<invoices[i].ticket, invoices[i].totalAmount>> \in Backed
  /\ \A w \in Worker :
       bill[w].op = "create" => <<bill[w].ticket, bill[w].total>> \in Backed

LEMMA BackedOf ==
  ASSUME NEW t, NEW total
  PROVE  <<t, total>> \in Backed <=>
           \E e \in DOMAIN estimates, discount \in Discounts :
             /\ estimates[e].status = "APPROVED"
             /\ estimates[e].ticket = t
             /\ total = Office!Total(estimates[e].subtotal, discount)
BY DEF Backed

LEMMA BackedStays ==
  ASSUME EstimatesStand
  PROVE  \A b \in Backed : b \in Backed'
BY DEF EstimatesStand, Backed, Office!Total, Office!Tax

\* The steps of estimates and tickets bring no bill and overturn no approval.
LEMMA ShopBills ==
  ASSUME \A v, w \in Worker : v = w, BilledInv, Books!TypeOK',
         [EstimatesNext]_allVars, UNCHANGED billVars
  PROVE  BilledInv'
<1>1. QuoteInv' /\ ApprovalsTold'
  BY QuoteStep, StillTold DEF BilledInv
<1>2. \A b \in Backed : b \in Backed'
  BY EstimatesStay, BackedStays DEF BilledInv
<1>3. UNCHANGED <<invoices, received, audit, bill>>
  BY DEF billVars
<1>4. \A i \in DOMAIN invoices' : <<invoices'[i].ticket, invoices'[i].totalAmount>> \in Backed'
  BY <1>2, <1>3 DEF BilledInv
<1>5. \A w \in Worker : bill'[w].op = "create" => <<bill'[w].ticket, bill'[w].total>> \in Backed'
  BY <1>2, <1>3 DEF BilledInv
<1>6. QED BY <1>1, <1>4, <1>5 DEF BilledInv

\* The steps of InvoicesService bill what is approved, or keep a bill.
LEMMA OfficeBills ==
  ASSUME BilledInv, NEW w \in Worker, BillStep(w)
  PROVE  /\ \A i \in DOMAIN invoices' :
              <<invoices'[i].ticket, invoices'[i].totalAmount>> \in Backed'
         /\ \A x \in Worker :
              bill'[x].op = "create" => <<bill'[x].ticket, bill'[x].total>> \in Backed'
<1>a. UNCHANGED estimates /\ Books!TypeOK
  BY DEF BillStep, allVars, BilledInv
<1>b. Backed' = Backed
  BY <1>a DEF Backed
<1>1. CASE Office!Begin(w)
  <2>1. /\ invoices' = invoices
        /\ \A x \in Worker :
             \/ bill'[x] = bill[x]
             \/ bill'[x].op = "create" =>
                  /\ bill'[x].ticket \in TicketId
                  /\ \E s \in Approvals[bill'[x].ticket], d \in Discounts :
                       bill'[x].total = Books!Total(s, d)
    BY <1>a, <1>1, SameSteps, OfficeConstants, Books!RequestsFrom DEF Approvals
  <2>2. ASSUME NEW t \in TicketId, NEW s \in Approvals[t], NEW d \in Discounts
        PROVE  <<t, Books!Total(s, d)>> \in Backed
    <3>1. PICK e \in DOMAIN estimates :
            /\ estimates[e].ticket = t
            /\ estimates[e].status = "APPROVED"
            /\ estimates[e].subtotal = s
      BY ApprovalsOf
    <3>2. Books!Total(s, d) = Office!Total(estimates[e].subtotal, d)
      BY <3>1 DEF Books!Total, Office!Total, Books!Tax, Office!Tax
    <3>3. QED BY <3>1, <3>2, BackedOf
  <2>3. \A x \in Worker : bill'[x].op = "create" => <<bill'[x].ticket, bill'[x].total>> \in Backed
    BY <2>1, <2>2 DEF BilledInv
  <2>4. QED BY <1>b, <2>1, <2>3 DEF BilledInv
<1>2. CASE Office!Finish(w)
  <2>1. /\ \A x \in Worker : bill'[x] = bill[x] \/ bill'[x].op = "idle"
        /\ \A i \in DOMAIN invoices' :
             \/ /\ i \in DOMAIN invoices
                /\ invoices'[i].ticket = invoices[i].ticket
                /\ invoices'[i].totalAmount = invoices[i].totalAmount
             \/ /\ bill[w].op = "create"
                /\ invoices'[i].ticket = bill[w].ticket
                /\ invoices'[i].totalAmount = bill[w].total
    BY <1>a, <1>2, SameSteps, OfficeConstants, Books!InvoicesFrom
  <2>2. QED BY <1>b, <2>1 DEF BilledInv
<1>3. QED BY <1>1, <1>2 DEF BillStep

LEMMA BilledStep ==
  ASSUME \A v, w \in Worker : v = w, BilledInv, Books!TypeOK', [BillingNext]_shopVars
  PROVE  BilledInv'
<1>1. CASE UNCHANGED billVars
  BY <1>1, ShopStep, ShopBills
<1>2. ASSUME NEW w \in Worker, BillStep(w) PROVE BilledInv'
  <2>1. UNCHANGED allVars
    BY <1>2 DEF BillStep
  <2>2. QuoteInv' /\ ApprovalsTold'
    BY <2>1, QuoteStep, StillTold DEF BilledInv
  <2>3. QED BY <1>2, <2>2, OfficeBills DEF BilledInv
<1>3. QED BY <1>1, <1>2 DEF BillingNext, RepairStep, Lapse, shopVars, billVars

\* One request at a time, nobody is billed for work not agreed to: the total of
\* every invoice is that of an approved estimate of its ticket, and the timeline
\* has the approval.
THEOREM BilledIsAlwaysApproved ==
  ASSUME \A v, w \in Worker : v = w
  PROVE  BillingSpec => []BilledWasApproved
<1>1. BillingSpec => []Books!TypeOK
  BY BooksKept, OfficeConstants, Books!TypeCorrect, PTL
<1>2. BillingInit /\ Books!TypeOK => BilledInv
  <2>1. EstimatesInit => estimates = <<>> /\ \A w \in Worker : call[w].op = "idle"
    BY NoCallType DEF EstimatesInit
  <2>2. EstimatesInit => QuoteInv /\ ApprovalsTold
    BY <2>1, EstimatesInitInv DEF QuoteInv, CallsAreFresh, ApprovalsTold
  <2>3. Office!Init => DOMAIN invoices = {} /\ \A w \in Worker : bill[w].op # "create"
    BY DEF Office!Init, Office!Idle
  <2>4. QED BY <2>2, <2>3 DEF BillingInit, BilledInv
<1>3. BilledInv /\ Books!TypeOK' /\ [BillingNext]_shopVars => BilledInv'
  BY BilledStep
<1>4. BilledInv => BilledWasApproved
  <2>1. ASSUME BilledInv, NEW i \in DOMAIN invoices
        PROVE  \E e \in ApprovedOf(invoices[i].ticket), discount \in Discounts :
                 /\ invoices[i].totalAmount = Office!Total(estimates[e].subtotal, discount)
                 /\ Tells(history[invoices[i].ticket], estimates[e].createdBy)
    <3> DEFINE t == invoices[i].ticket
               total == invoices[i].totalAmount
    <3>1. <<t, total>> \in Backed
      BY <2>1 DEF BilledInv
    <3> HIDE DEF t, total
    <3>2. PICK e \in DOMAIN estimates, discount \in Discounts :
            /\ estimates[e].status = "APPROVED"
            /\ estimates[e].ticket = t
            /\ total = Office!Total(estimates[e].subtotal, discount)
      BY <3>1, BackedOf
    <3>3. e \in ApprovedOf(t) /\ Tells(history[t], estimates[e].createdBy)
      BY <2>1, <3>2 DEF ApprovedOf, BilledInv, ApprovalsTold
    <3>4. QED BY <3>2, <3>3 DEF t, total
  <2>2. QED BY <2>1 DEF BilledWasApproved, Tells
<1>5. QED BY <1>1, <1>2, <1>3, <1>4, PTL DEF BillingSpec
=============================================================================
