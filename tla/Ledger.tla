--------------------------------- MODULE Ledger ---------------------------------
(***************************************************************************)
(* What billing promises: a ticket has at most one bill that is not void;  *)
(* what a bill shows as paid is what was taken for it, never above the     *)
(* bill; and only a bill nobody paid anything of can be voided, for good.  *)
(***************************************************************************)
EXTENDS Integers, Sequences

CONSTANTS TicketId, Totals

VARIABLE bills   \* each [ticket, total, paid, void], in the order of issue

Bill(t, total) == [ticket |-> t, total |-> total, paid |-> 0, void |-> FALSE]

NoBills == bills = <<>>

Issue(t, total) ==
  /\ \A i \in DOMAIN bills : bills[i].ticket = t => bills[i].void
  /\ bills' = Append(bills, Bill(t, total))

Collect(i, amount) ==
  /\ ~bills[i].void
  /\ amount \in 1..(bills[i].total - bills[i].paid)
  /\ bills' = [bills EXCEPT ![i].paid = @ + amount]

Annul(i) ==
  /\ bills[i].paid = 0
  /\ bills' = [bills EXCEPT ![i].void = TRUE]

Post ==
  \/ \E t \in TicketId, total \in Totals : Issue(t, total)
  \/ \E i \in DOMAIN bills :
       \/ \E amount \in 1..bills[i].total : Collect(i, amount)
       \/ Annul(i)

Spec == NoBills /\ [][Post]_bills
=============================================================================
