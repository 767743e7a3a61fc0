------------------------------- MODULE MCRegistry -------------------------------
(***************************************************************************)
(* The registry for TLC: an owner, a manager and a front desk at two       *)
(* branches, and three databases that the migration may have found.        *)
(***************************************************************************)
EXTENDS Registry, TLC

CONSTANTS boss, lead, desk, b1, b2, c1, c2, d1, d2, t1, t2, p1, p2, e1, s1

Roles ==
  [u \in {boss, lead, desk} |->
    CASE u = boss -> "OWNER" [] u = lead -> "BRANCH_MANAGER" [] OTHER -> "FRONT_DESK"]

\* A customer whose ticket is in the other branch than the oldest.
Elsewhere ==
  [customers |-> c1 :> [phone |-> p1, email |-> Null],
   devices   |-> d1 :> [customer |-> c1, serial |-> s1],
   tickets   |-> t1 :> [customer |-> c1, device |-> d1, branch |-> b2]]

\* Two customers, one of them without a ticket.
Alike ==
  [customers |-> c1 :> [phone |-> p1, email |-> Null] @@ c2 :> [phone |-> p2, email |-> e1],
   devices   |-> d1 :> [customer |-> c1, serial |-> Null],
   tickets   |-> t1 :> [customer |-> c1, device |-> d1, branch |-> b1]]

\* A customer of two branches: the migration refuses.
Roaming ==
  [customers |-> c1 :> [phone |-> p1, email |-> Null],
   devices   |-> d1 :> [customer |-> c1, serial |-> Null],
   tickets   |-> t1 :> [customer |-> c1, device |-> d1, branch |-> b1]
                   @@ t2 :> [customer |-> c1, device |-> d1, branch |-> b2]]

\* No definition tells workers, keys or names apart.
Alikes == Permutations(Worker) \cup Permutations(Key) \cup Permutations(Name)

Databases == {Elsewhere, Alike, Roaming}
=============================================================================
