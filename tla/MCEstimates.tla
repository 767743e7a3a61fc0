------------------------------ MODULE MCEstimates ------------------------------
(***************************************************************************)
(* A branch for TLC: a manager, and a clerk who may not move a ticket to   *)
(* WAITING_FOR_APPROVAL.                                                   *)
(***************************************************************************)
EXTENDS Estimates, TLC

CONSTANTS manager, clerk, main

MCRoleOf == [u \in Staff |-> IF u = manager THEN "BRANCH_MANAGER" ELSE "FRONT_DESK"]

MCBranchesOf == [u \in Staff |-> {main}]

Symmetry == Permutations(TicketId) \cup Permutations(Worker)
=============================================================================
