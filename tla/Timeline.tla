------------------------------- MODULE Timeline -------------------------------
(***************************************************************************)
(* What the status history promises while requests race: one append-only   *)
(* log per ticket, opened once, in which every later entry claims a legal  *)
(* transition by a user whose role may make it.                            *)
(***************************************************************************)
EXTENDS Lifecycle, Sequences

CONSTANTS TicketId, Staff, RoleOf

VARIABLE timeline

Empty == timeline = [t \in TicketId |-> <<>>]

Open(t, by) ==
  /\ timeline[t] = <<>>
  /\ timeline' = [timeline EXCEPT ![t] = <<Opening(by)>>]

Extend(t, from, to, by) ==
  /\ timeline[t] # <<>>
  /\ to \in VALID_TRANSITIONS[from]
  /\ RoleOf[by] \in STATUS_TRANSITION_ROLES[to]
  /\ timeline' = [timeline EXCEPT ![t] = Append(@, Change(from, to, by))]

Grow ==
  \E t \in TicketId, by \in Staff :
    \/ Open(t, by)
    \/ \E from, to \in TicketStatus : Extend(t, from, to, by)

Spec == Empty /\ [][Grow]_timeline
=============================================================================
