--------------------------- MODULE MCRepairTickets ---------------------------
(***************************************************************************)
(* A small shop for TLC: one clerk, one manager, one technician or two,    *)
(* and an administrator, in one branch or two.                             *)
(***************************************************************************)
EXTENDS RepairTickets, TLC

CONSTANTS admin, manager, clerk, tech1, tech2, main, other

MCRoleOf ==
  [u \in Staff |->
     CASE u = admin   -> "SYSTEM_ADMIN"
       [] u = manager -> "BRANCH_MANAGER"
       [] u = clerk   -> "FRONT_DESK"
       [] OTHER       -> "TECHNICIAN"]

\* The administrator needs no branch; the others work in the main one.
MCBranchesOf == [u \in Staff |-> IF u = admin THEN {} ELSE {main}]

Symmetry == Permutations(TicketId) \cup Permutations(Worker)
=============================================================================
