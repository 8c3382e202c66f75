------------------------------ MODULE MCHomeLock ------------------------------
(* An instance of HomeLock for TLC.  c0 died as the owner; one process runs  *)
(* c1 and c2 on one instance, another c3; each also tries to reclaim the     *)
(* lock (r1, r2).                                                            *)
EXTENDS HomeLock, TLC

CONSTANTS old, sup, other, i0, i1, i2, c0, c1, c2, c3, r1, r2

ProcOfInst == (i0 :> old @@ i1 :> sup @@ i2 :> other)
InstOfCall == (c0 :> i0 @@ c1 :> i1 @@ c2 :> i1 @@ c3 :> i2 @@ r1 :> i1 @@ r2 :> i2)
=============================================================================
