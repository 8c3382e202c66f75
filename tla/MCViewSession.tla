---------------------------- MODULE MCViewSession -----------------------------
(* An instance of ViewSession for TLC: two spaces, which are alike.          *)
EXTENDS ViewSession, TLC

CONSTANTS a, b

Symmetry == Permutations(Space)
===============================================================================
