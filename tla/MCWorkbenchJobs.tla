--------------------------- MODULE MCWorkbenchJobs ---------------------------
(* Instances of WorkbenchJobs for TLC. *)
EXTENDS WorkbenchJobs

CONSTANTS r1, r2, d1, d2
=============================================================================
