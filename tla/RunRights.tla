------------------------------ MODULE RunRights ------------------------------
(***************************************************************************)
(* What the run lock of one Home promises: the right to run the Home and   *)
(* to write its management state belongs to at most one process, and it    *)
(* passes from one process to the next only through a moment in which      *)
(* nobody has it.  HomeControl implements this with directories, an owner  *)
(* record and a reclaim guard, among processes that crash at any point.    *)
(***************************************************************************)
CONSTANT Proc      \* process incarnations, never reused after they die

VARIABLE holders   \* the live processes that believe they have the right

Init == holders = {}

Take(p)  == holders = {} /\ holders' = {p}

Yield(p) == holders = {p} /\ holders' = {}

Next == \E p \in Proc : Take(p) \/ Yield(p)

Spec == Init /\ [][Next]_holders
=============================================================================
