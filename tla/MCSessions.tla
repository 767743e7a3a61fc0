------------------------------- MODULE MCSessions -------------------------------
(***************************************************************************)
(* Accounts for TLC.                                                       *)
(***************************************************************************)
EXTENDS Sessions, TLC

Symmetry == Permutations(User) \cup Permutations(Worker)
=============================================================================
