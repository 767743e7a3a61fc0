------------------------------ MODULE MCInvoices ------------------------------
(***************************************************************************)
(* A desk for TLC: a clerk, and an administrator who may also void.        *)
(***************************************************************************)
EXTENDS Invoices, TLC

CONSTANTS admin, clerk

MCRoleOf == [u \in Staff |-> IF u = admin THEN "SYSTEM_ADMIN" ELSE "FRONT_DESK"]

\* Every ticket is in the clerk's branch.
MCScope == [u \in Staff |-> TicketId]

Symmetry == Permutations(TicketId) \cup Permutations(Worker)
=============================================================================
