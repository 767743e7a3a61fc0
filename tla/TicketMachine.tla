----------------------------- MODULE TicketMachine -----------------------------
(***************************************************************************)
(* What the workflow document promises of a ticket: it is absent, or it    *)
(* has a status that moves along VALID_TRANSITIONS only, one history row   *)
(* per move, each starting where the ticket was.  Requests that come one   *)
(* at a time implement it; requests that overlap do not.                   *)
(***************************************************************************)
EXTENDS Lifecycle, Sequences

CONSTANTS TicketId, Staff

VARIABLES status, timeline

Start ==
  /\ status = [t \in TicketId |-> "ABSENT"]
  /\ timeline = [t \in TicketId |-> <<>>]

Receive(t, by) ==
  /\ status[t] = "ABSENT"
  /\ status' = [status EXCEPT ![t] = "RECEIVED"]
  /\ timeline' = [timeline EXCEPT ![t] = Append(@, Opening(by))]

Move(t, to, by) ==
  /\ status[t] # "ABSENT"
  /\ to \in VALID_TRANSITIONS[status[t]]
  /\ status' = [status EXCEPT ![t] = to]
  /\ timeline' = [timeline EXCEPT ![t] = Append(@, Change(status[t], to, by))]

Proceed ==
  \E t \in TicketId, by \in Staff :
    \/ Receive(t, by)
    \/ \E to \in TicketStatus : Move(t, to, by)

Spec == Start /\ [][Proceed]_<<status, timeline>>
=============================================================================
