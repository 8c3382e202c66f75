---------------------------- MODULE MCSharedLlm ----------------------------
(* Instance of SharedLlm for model checking. *)
EXTENDS SharedLlm, TLC

Symmetry == Permutations(Conn) \cup Permutations(Op) \cup Permutations(Space)

\* A space about which nothing has happened yet.
Untouched(s) ==
    /\ s \in registered \ locks
    /\ policy[s] = NoFile /\ status[s] = "stopped" /\ applied[s] = None

\* Connections that name the record of another one, or none that was written.
Borrowed == {c \in Existing : LET auth == catalog.connections[c].auth
                              IN auth # None /\ (auth[1] # c \/ records[auth] = None)}

\* Three regions: everything a client may do with credentials and no space, one
\* space and one save with a credential of its own, or all spaces and one
\* connection without a credential.
Focus ==
    \/ /\ \A s \in Space : Untouched(s)
       /\ catalog.revision = 3 => boots = 0
       /\ Borrowed # {} \/ (\E r \in published : records[r] = None)
             => boots = 0 /\ catalog.revision <= 2
    \/ /\ Cardinality({s \in Space : ~ Untouched(s)}) <= 1
       /\ \E o \in Op : operations[o] = "absent"
       /\ Borrowed = {} /\ \A r \in published : records[r] # None
       /\ catalog.revision = 3 => boots = 0
    \/ /\ \A o \in Op : operations[o] = "absent"
       /\ Cardinality(Existing \cup catalog.retired) <= 1
       /\ published = {}
       /\ catalog.revision <= 2 /\ catalog.default = None
=============================================================================
