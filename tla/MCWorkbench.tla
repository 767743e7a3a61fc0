------------------------------- MODULE MCWorkbench -------------------------------
(***************************************************************************)
(* The tickets page for TLC.                                               *)
(***************************************************************************)
EXTENDS Workbench

CONSTANTS k1, k2

\* One that its technician is at, and one that waits for a technician.
Rows ==
  [t \in {k1, k2} |->
    IF t = k1 THEN [status |-> "DIAGNOSING", technician |-> Me]
              ELSE [status |-> "APPROVED", technician |-> Nobody]]
=============================================================================
