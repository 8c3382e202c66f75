------------------------------ MODULE MCBlueprint ------------------------------
EXTENDS BlueprintSession, TLC
CONSTANTS c1, c2
Symmetry == Permutations(Call) \cup Permutations(Name)

\* Bounds of the exploration.  Without an event of the environment and without
\* an edit of the form there are two applications, or one behind an older job;
\* with one of either there is one application, and with an event one request at
\* a time.  The session goes on beside an application until that writes to its
\* space, and after one that succeeded.
Events == home.edits + clock + (serviceEpoch - 1)
Open(kinds) == {c \in Call : calls[c] # None /\ calls[c].kind \in kinds}
Applications == Len(jobs) + Cardinality({c \in Open({"submit"}) : calls[c].stage = "sent"})
Older == jobs # <<>> /\ jobs[1].plan = 0
Spoilt == \E j \in DOMAIN jobs :
            jobs[j].status = "failed" /\ jobs[j].outcome # None /\ jobs[j].outcome.space
Focus ==
  /\ Events + ui.edits <= 1
  /\ ui.edits = 0 => ui.content = c1
  /\ Events + ui.edits = 1 => ~Older /\ Applications <= 1
  /\ Events = 1 => Cardinality(Open({"inspect", "preview", "submit"})) <= 1
  /\ work.pc \in Writing => \A j \in DOMAIN jobs : jobs[j].outcome = None
  /\ work.pc \in Writing \/ Spoilt \/ (ui.edits = 1 /\ ui.applyPlan # None) => Open({"inspect", "preview"}) = {}
===============================================================================
