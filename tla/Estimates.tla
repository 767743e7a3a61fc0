-------------------------------- MODULE Estimates --------------------------------
(***************************************************************************)
(* EstimatesService composed with RepairTickets: drafting, sending and     *)
(* cancelling an estimate, and the customer's decision through the public  *)
(* link.  Sending and deciding also write the ticket and its timeline, so  *)
(* the two services race on the same rows.  A Worker is busy with one      *)
(* request, of one service or the other.                                   *)
(***************************************************************************)
EXTENDS RepairTickets, FiniteSets

CONSTANTS
  Subtotals,     \* what the items of an estimate can add up to
  MaxEstimates,  \* bound: no draft is begun beyond so many estimates
  MaxEntries     \* bound: no sending or decision is begun beyond so many history rows

ASSUME EstimateAssumption ==
  /\ Subtotals \subseteq Nat
  /\ MaxEstimates \in Nat /\ MaxEntries \in Nat

VARIABLES
  estimates,   \* Estimate rows in the order of their numbers (1, 2, ...)
  decisions,   \* EstimateDecision rows, by the estimate they belong to
  call         \* what each worker is doing for EstimatesService

estimateVars == <<estimates, decisions, call>>

allVars == <<branchActive, counter, tickets, history, assignments, diagnoses, logged, req,
             estimates, decisions, call>>

-----------------------------------------------------------------------------
(* Rows.  The number of an estimate is its position: the counter row stays  *)
(* locked from generateEstimateNumber to the end of the transaction.        *)

Verdict == {"APPROVED", "REJECTED"}

\* EXPIRED is in the enum too, and no code sets it.
EstimateStatus == {"DRAFT", "SENT", "CANCELLED"} \cup Verdict

\* audited: what the newest AuditLog row of the estimate says it became.
\* sendings: how many links were created for it.  No handler reads validUntil.
Estimate ==
  [ticket: TicketId, status: EstimateStatus, createdBy: Staff, subtotal: Subtotals,
   audited: EstimateStatus, sendings: Nat]

\* The row that holds the link's token hash and later the customer's verdict;
\* PENDING stands for decisionAt = null, expired for tokenExpiresAt being over.
Decision == [id: Nat, verdict: {"PENDING"} \cup Verdict, expired: BOOLEAN]

NoCall == [op |-> "idle"]

Call ==
       [op: {"idle"}]
  \cup [op: {"draft"}, actor: Staff, ticket: TicketId, subtotal: Subtotals]
  \cup [op: {"send"}, actor: Staff, estimate: Nat \ {0}, seen: TicketStatus]
  \cup [op: {"cancel"}, estimate: Nat \ {0}]
  \cup [op: {"decide"}, estimate: Nat \ {0}, link: Nat, verdict: Verdict]

EstimatesTypeOK ==
  /\ TypeOK
  /\ estimates \in Seq(Estimate)
  /\ DOMAIN decisions \subseteq DOMAIN estimates
  /\ decisions \in [DOMAIN decisions -> Decision]
  /\ call \in [Worker -> Call]

EstimatesInit ==
  /\ Init
  /\ estimates = <<>>
  /\ decisions = [e \in {} |-> Nobody]
  /\ call = [w \in Worker |-> NoCall]

-----------------------------------------------------------------------------
\* @Roles on cancel.
Manager(u) == RoleOf[u] \in Unscoped \cup {"BRANCH_MANAGER"}

\* findOne: the branch of the estimate's ticket.
CanOpenEstimate(u, e) == InBranch(u, tickets[estimates[e].ticket].branch)

Take(w, c) ==
  /\ req[w] = Idle
  /\ call[w] = NoCall
  /\ call' = [call EXCEPT ![w] = c]
  /\ UNCHANGED <<branchActive, counter, tickets, history, assignments, diagnoses, logged, req,
                 estimates, decisions>>

Reply(w) == call' = [call EXCEPT ![w] = NoCall]

\* The columns and tables of the ticket side that EstimatesService never writes.
TicketSideKept == UNCHANGED <<branchActive, counter, assignments, diagnoses, logged, req>>

\* A change of an estimate's status and its audit row.
Became(row, status) == [row EXCEPT !.status = status, !.audited = status]

\* Mutant: a cancellation leaves the link in place.
Without_Keeps(e) == decisions

Without(e) == [x \in DOMAIN decisions \ {e} |-> decisions[x]]

With(e, row) == [x \in DOMAIN decisions \cup {e} |-> IF x = e THEN row ELSE decisions[x]]

-----------------------------------------------------------------------------
(* create: of any ticket, in any status and branch *)

BeginDraft(w, u, t, subtotal) ==
  /\ Desk(u)
  /\ t \in DOMAIN tickets
  /\ Len(estimates) < MaxEstimates
  /\ Take(w, [op |-> "draft", actor |-> u, ticket |-> t, subtotal |-> subtotal])

CommitDraft(w) ==
  LET c == call[w] IN
  /\ c.op = "draft"
  /\ estimates' = Append(estimates,
       [ticket |-> c.ticket, status |-> "DRAFT", createdBy |-> c.actor,
        subtotal |-> c.subtotal, audited |-> "DRAFT", sendings |-> 0])
  /\ Reply(w)
  /\ UNCHANGED <<tickets, history, decisions>>
  /\ TicketSideKept

-----------------------------------------------------------------------------
(* send *)

\* Mutant: anything that is not decided can be sent, again or after all.
Sendable_Undecided(e) == estimates[e].status \notin Verdict

Sendable(e) == estimates[e].status = "DRAFT"

BeginSend(w, u, e) ==
  /\ Desk(u)
  /\ CanOpenEstimate(u, e)
  /\ Sendable(e)
  /\ Len(history[estimates[e].ticket]) < MaxEntries
  /\ Take(w, [op |-> "send", actor |-> u, estimate |-> e,
              seen |-> tickets[estimates[e].ticket].status])

\* Mutant: the ticket is moved on without an entry in its timeline.
Announce_Silent(t, c) ==
  /\ tickets' = IF c.seen = "DIAGNOSING"
                THEN [tickets EXCEPT ![t].status = "WAITING_FOR_APPROVAL"]
                ELSE tickets
  /\ UNCHANGED history

\* A ticket that was read as DIAGNOSING waits for approval from now on.
Announce(t, c) ==
  \/ c.seen = "DIAGNOSING" /\ WriteStatus(t, "DIAGNOSING", "WAITING_FOR_APPROVAL", c.actor)
  \/ c.seen # "DIAGNOSING" /\ UNCHANGED <<tickets, history>>

Sent(row) == [Became(row, "SENT") EXCEPT !.sendings = @ + 1]

\* The old link goes, a new one comes; the row's id is new each time.
CommitSend(w) ==
  LET c == call[w]
      e == c.estimate
  IN
  /\ c.op = "send"
  /\ decisions' = With(e, [id |-> estimates[e].sendings + 1, verdict |-> "PENDING",
                           expired |-> FALSE])
  /\ estimates' = [estimates EXCEPT ![e] = Sent(@)]
  /\ Announce(estimates[e].ticket, c)
  /\ Reply(w)
  /\ TicketSideKept

-----------------------------------------------------------------------------
(* cancel *)

BeginCancel(w, u, e) ==
  /\ Manager(u)
  /\ CanOpenEstimate(u, e)
  /\ estimates[e].status \notin {"APPROVED", "REJECTED", "CANCELLED"}
  /\ Take(w, [op |-> "cancel", estimate |-> e])

CommitCancel(w) ==
  LET e == call[w].estimate IN
  /\ call[w].op = "cancel"
  /\ estimates' = [estimates EXCEPT ![e] = Became(@, "CANCELLED")]
  /\ decisions' = Without(e)
  /\ Reply(w)
  /\ UNCHANGED <<tickets, history>>
  /\ TicketSideKept

-----------------------------------------------------------------------------
(* makePublicDecision, by whoever holds the link *)

\* Mutant: a second decision through the link is not refused.
Undecided_Always(e) == TRUE

Undecided(e) == estimates[e].status \notin Verdict

BeginDecide(w, e, verdict) ==
  /\ e \in DOMAIN decisions
  /\ ~decisions[e].expired
  /\ Undecided(e)
  /\ Len(history[estimates[e].ticket]) < MaxEntries
  /\ Take(w, [op |-> "decide", estimate |-> e, link |-> decisions[e].id, verdict |-> verdict])

\* The update of the decision row by its id fails, and with it the transaction,
\* when a cancellation or another sending has deleted the row.
LinkStands(c) == c.estimate \in DOMAIN decisions /\ decisions[c.estimate].id = c.link

\* Mutant: a ticket that does not wait for approval is left alone.
PassOn_IfWaiting(t, verdict, by) ==
  IF tickets[t].status = "WAITING_FOR_APPROVAL"
  THEN WriteStatus(t, "WAITING_FOR_APPROVAL", verdict, by)
  ELSE UNCHANGED <<tickets, history>>

\* The ticket gets the verdict whatever its status is, and an entry that claims
\* it was waiting for approval.
PassOn(t, verdict, by) == WriteStatus(t, "WAITING_FOR_APPROVAL", verdict, by)

\* The entry is written in the name of the estimate's author.
CommitDecide(w) ==
  LET c == call[w]
      e == c.estimate
  IN
  /\ c.op = "decide"
  /\ LinkStands(c)
  /\ decisions' = [decisions EXCEPT ![e].verdict = c.verdict]
  /\ estimates' = [estimates EXCEPT ![e] = Became(@, c.verdict)]
  /\ PassOn(estimates[e].ticket, c.verdict, estimates[e].createdBy)
  /\ Reply(w)
  /\ TicketSideKept

-----------------------------------------------------------------------------
\* Time passes: the link's three days.
ExpireLink(e) ==
  /\ e \in DOMAIN decisions
  /\ ~decisions[e].expired
  /\ decisions' = [decisions EXCEPT ![e].expired = TRUE]
  /\ UNCHANGED <<tickets, history, estimates, call>>
  /\ TicketSideKept

\* Rolled back: a lost connection, a deadlock with another request (decide locks
\* the decision before the estimate, cancel the other way round), a missing row.
Withdraw(w) ==
  /\ call[w] # NoCall
  /\ Reply(w)
  /\ UNCHANGED <<tickets, history, estimates, decisions>>
  /\ TicketSideKept

BeginCall(w) ==
  \/ \E u \in Staff :
       \/ \E t \in TicketId, s \in Subtotals : BeginDraft(w, u, t, s)
       \/ \E e \in DOMAIN estimates : BeginSend(w, u, e) \/ BeginCancel(w, u, e)
  \/ \E e \in DOMAIN estimates, verdict \in Verdict : BeginDecide(w, e, verdict)

FinishCall(w) ==
  \/ CommitDraft(w)
  \/ CommitSend(w)
  \/ CommitCancel(w)
  \/ CommitDecide(w)
  \/ Withdraw(w)

\* A step of RepairTickets, by a worker that has no call of this service.
TicketStep(w) ==
  /\ call[w] = NoCall
  /\ Begin(w) \/ Finish(w)
  /\ UNCHANGED estimateVars

EstimatesNext ==
  \/ \E w \in Worker : TicketStep(w) \/ BeginCall(w) \/ FinishCall(w)
  \/ \E e \in DOMAIN estimates : ExpireLink(e)

EstimatesSpec == EstimatesInit /\ [][EstimatesNext]_allVars

-----------------------------------------------------------------------------
(* Invariants that hold whatever the requests in flight *)

\* A link exists exactly while an estimate is out with the customer or decided,
\* and what it shows agrees with the estimate: nothing while SENT, then the
\* verdict the estimate has.  The newest audit row names that status too.  Three
\* handlers write these rows from readings that may be stale.
LinkAgrees ==
  \A e \in DOMAIN estimates :
    LET s == estimates[e].status IN
    /\ e \in DOMAIN decisions <=> s \in {"SENT"} \cup Verdict
    /\ s = "SENT" => decisions[e].verdict = "PENDING"
    /\ s \in Verdict => decisions[e].verdict = s
    /\ estimates[e].audited = s

\* The estimates of a ticket by one author that have a verdict, and the entries of
\* its timeline that tell of that verdict in the author's name.
Decided(t, verdict, by) ==
  {e \in DOMAIN estimates : /\ estimates[e].ticket = t
                            /\ estimates[e].status = verdict
                            /\ estimates[e].createdBy = by}

Told(t, verdict, by) ==
  {i \in DOMAIN history[t] : history[t][i] = Change("WAITING_FOR_APPROVAL", verdict, by)}

\* No verdict is lost on the ticket: every decided estimate has an entry of its own
\* that tells of it, wherever staff, other estimates, sendings and cancellations
\* had taken the ticket and the estimate between the reading and the decision.
VerdictsAreTold ==
  \A t \in TicketId, verdict \in Verdict, by \in Staff :
    Cardinality(Decided(t, verdict, by)) <= Cardinality(Told(t, verdict, by))

-----------------------------------------------------------------------------
(* Properties that need the requests to come one at a time *)

Statuses == [e \in DOMAIN estimates |-> estimates[e].status]

Promise == INSTANCE Quote WITH quotes <- Statuses

KeepsQuote == Promise!Spec
=============================================================================
