---------------------------- MODULE MCSupervisor ----------------------------
(* An instance of Supervisor for TLC. *)
EXTENDS Supervisor

CONSTANTS j1, j2, m, w
=============================================================================
