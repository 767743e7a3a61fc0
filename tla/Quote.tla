--------------------------------- MODULE Quote ---------------------------------
(***************************************************************************)
(* What an estimate promises the customer: it is drafted, sent once, and   *)
(* then decided once or withdrawn, and a decision stands.                  *)
(***************************************************************************)
EXTENDS Naturals, Sequences

VARIABLE quotes   \* the state of each estimate, in the order of their numbers

\* The states an estimate can go to from each of its states.
Onward ==
  [s \in {"DRAFT", "SENT", "APPROVED", "REJECTED", "CANCELLED"} |->
     CASE s = "DRAFT" -> {"SENT", "CANCELLED"}
       [] s = "SENT"  -> {"APPROVED", "REJECTED", "CANCELLED"}
       [] OTHER       -> {}]

NoQuotes == quotes = <<>>

Draft == quotes' = Append(quotes, "DRAFT")

Advance(e, to) == to \in Onward[quotes[e]] /\ quotes' = [quotes EXCEPT ![e] = to]

Deal ==
  \/ Draft
  \/ \E e \in DOMAIN quotes, to \in DOMAIN Onward : Advance(e, to)

Spec == NoQuotes /\ [][Deal]_quotes
=============================================================================
