-------------------------------- MODULE MCBrowser --------------------------------
(***************************************************************************)
(* Tabs for TLC: the first asks for two things at once, others for none.   *)
(***************************************************************************)
EXTENDS Browser, TLC

CONSTANTS t1, t2, q1, q2

Queries == [t \in Tab |-> IF t = t1 THEN Query ELSE {}]
=============================================================================
