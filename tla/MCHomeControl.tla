---------------------------- MODULE MCHomeControl ----------------------------
(* An instance of HomeControl for TLC: three processes.  That a pid may be    *)
(* given to a later process is left to the proofs, which assume nothing of it.*)
EXTENDS HomeControl, TLC

CONSTANTS p1, p2, p3, pidA, pidB, pidC

DistinctPids == (p1 :> pidA @@ p2 :> pidB @@ p3 :> pidC)
=============================================================================
