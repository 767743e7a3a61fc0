------------------------------- MODULE MCBilling -------------------------------
(***************************************************************************)
(* A shop for TLC: an administrator, and a clerk with a limited discount.  *)
(***************************************************************************)
EXTENDS Billing, TLC

CONSTANTS admin, clerk

MCRoleOf == [u \in Staff |-> IF u = admin THEN "SYSTEM_ADMIN" ELSE "FRONT_DESK"]

MCBranchesOf == [u \in Staff |-> Branch]

Symmetry == Permutations(TicketId) \cup Permutations(Worker)
=============================================================================
