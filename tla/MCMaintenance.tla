----------------------------- MODULE MCMaintenance -----------------------------
(* An instance of Maintenance for TLC: two ordinary spaces, two plans. *)
EXTENDS Maintenance

CONSTANTS s1, s2

\* After a restart there is one failure or exit less to explore.
Focus == faults + boots <= MaxFaults
===============================================================================
