-------------------------- MODULE MCProcessManager --------------------------
(* Instances of ProcessManager for TLC. *)
EXTENDS ProcessManager, TLC

CONSTANTS a, b

Once == [n \in Name |-> 1]

\* a is stopped up to twice, so that a start called in between is stale when
\* its turn comes; b is only started, and competes for the ports.
TwiceForA == [n \in Name |-> IF n = a THEN 2 ELSE 0]
=============================================================================
