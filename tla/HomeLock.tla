------------------------------- MODULE HomeLock -------------------------------
(***************************************************************************)
(* HomeOperationLock (src/adapters/node/home-operation-lock.ts): the lock  *)
(* around every write to a Home.  The Supervisor, the HomeController, the  *)
(* control of spaces, the bootstrap and the doctor each construct an       *)
(* instance of their own, several of them in one process, over one disk:   *)
(*   .dsh-spaces-lock/             lockDir                                 *)
(*   .dsh-spaces-lock/owner.json   rec                                     *)
(*   .dsh-spaces-reclaim/          guard                                   *)
(* A member of Call is one call of run (or, in Reclaimer, of unlockDead).  *)
(* acquire, finishOwnership and unlockDead are synchronous: calls of one   *)
(* process do not interleave with them, other processes do, between any    *)
(* two file-system calls.  A call acquires at most once, so the call stands*)
(* for the nonce and the generation it drew.                               *)
(* Symlinks, foreign files and ambiguous paths, to which every operation   *)
(* answers with a refusal, are left out; so is expectedOwner, which only   *)
(* adds refusals to unlockDead.                                            *)
(***************************************************************************)
EXTENDS Naturals, FiniteSets

CONSTANTS
  Proc,       \* processes, each with a pid of its own
  Inst,       \* HomeOperationLock instances
  ProcOf,     \* the process of each instance
  Call,       \* calls of run and of unlockDead
  InstOf,     \* the instance of each call
  Reclaimer,  \* the calls of unlockDead
  NoCall,
  Left,       \* the call that died as the owner before, NoCall for a clean Home
  MaxFaults,  \* bound: how many file-system calls may fail once something was made
  MaxDeaths   \* bound: how many processes may be dead

ASSUME CallAssumption ==
  /\ NoCall \notin Call /\ Reclaimer \subseteq Call
  /\ Left \in Call \cup {NoCall}
  /\ InstOf \in [Call -> Inst] /\ ProcOf \in [Inst -> Proc]
ASSUME FaultAssumption == MaxFaults \in Nat /\ MaxDeaths \in Nat

VARIABLES
  pc,       \* what each call is about to do
  ctx,      \* the LockStore the call sees: the call that drew its nonce
  waiter,   \* the call whose action awaits this one, NoCall when none does
  prev,     \* the call whose turn this one waits for
  active,   \* instance -> its nonce and activeGeneration
  tail,     \* instance -> the last call queued
  alive,    \* process -> is it running
  seen,     \* the owner unlockDead read first
  lockDir, rec, guard,   \* the disk
  faults

memory == <<ctx, waiter, prev, active, tail, seen>>
disk   == <<lockDir, rec, guard>>
vars   == <<pc, memory, alive, disk, faults>>

-----------------------------------------------------------------------------
(* Owner records and program counters. *)

Missing == [kind |-> "missing", by |-> NoCall]
Torn    == [kind |-> "torn", by |-> NoCall]      \* created, not written: unreadable
Owner(c) == [kind |-> "owner", by |-> c]
Readable(r) == r.kind = "owner"

Acquiring == {"look", "lookDir", "mkdir", "check", "abort", "create", "write"}
Releasing == {"relRead", "relUnlink", "relRmdir"}
Reclaiming == {"recLook", "recOwner", "recMkdir", "recRead", "recCheck",
               "recUnlink", "recRmdir", "recDrop"}
GuardHolding == {"recRead", "recCheck", "recUnlink", "recRmdir", "recDrop"}
Acting  == {"acting", "inline"}
\* busy: refused, nothing left behind.  stranded: refused, but the empty lock
\* directory it made is left.  unfinished: the owner could not be written.
\* stuck: the release failed.  recFailed: unlockDead failed.
Settled == {"done", "busy", "stranded", "unfinished", "stuck", "recDone", "recFailed"}

\* Inside a synchronous section.
Sync == Acquiring \cup Releasing \cup Reclaiming

P(c) == ProcOf[InstOf[c]]

\* The process of c runs and is not inside another call's synchronous section.
Runs(c) == alive[P(c)] /\ \A d \in Call \ {c} : P(d) = P(c) => pc[d] \notin Sync

Step(c, from, to) == pc[c] = from /\ Runs(c) /\ pc' = [pc EXCEPT ![c] = to]

Init ==
  /\ pc = [c \in Call |-> IF c = Left THEN "acting" ELSE "new"]
  /\ ctx = [c \in Call |-> NoCall] /\ waiter = [c \in Call |-> NoCall]
  /\ prev = [c \in Call |-> NoCall] /\ seen = [c \in Call |-> Missing]
  /\ active = [i \in Inst |-> NoCall] /\ tail = [i \in Inst |-> NoCall]
  /\ alive = [p \in Proc |-> Left # NoCall => p # P(Left)]
  /\ lockDir = (Left # NoCall) /\ guard = FALSE /\ faults = 0
  /\ rec = IF Left = NoCall THEN Missing ELSE Owner(Left)

-----------------------------------------------------------------------------
(* run. *)

\* isReentrant: the store names the nonce and generation the instance owns.
Reentrant_As(i, store) == store # NoCall
Reentrant(i, store) == store # NoCall /\ store = active[i]

\* run is called inside the action of d, or in what that action started and
\* did not wait for (d # NoCall), or outside of any action of the instance.
Start(c, d, awaited) ==
  /\ pc[c] = "new" /\ c \notin Reclaimer /\ Runs(c)
  /\ d # NoCall => d # c /\ InstOf[d] = InstOf[c]
                   /\ pc[d] \in Acting \cup {"done", "stuck"}
  /\ awaited => d # NoCall /\ pc[d] \in Acting
  /\ LET i == InstOf[c]
         store == IF d = NoCall THEN NoCall ELSE ctx[d]
     IN /\ ctx' = [ctx EXCEPT ![c] = store]
        /\ waiter' = [waiter EXCEPT ![c] = IF awaited THEN d ELSE NoCall]
        /\ IF Reentrant(i, store)
           THEN pc' = [pc EXCEPT ![c] = "inline"] /\ UNCHANGED <<prev, tail>>
           ELSE /\ pc' = [pc EXCEPT ![c] = "queued"]
                /\ prev' = [prev EXCEPT ![c] = tail[i]]
                /\ tail' = [tail EXCEPT ![i] = c]
  /\ UNCHANGED <<active, alive, seen, disk, faults>>

TurnEnded_As(c) == c # NoCall => pc[c] = "done"
TurnEnded(c) == c # NoCall => pc[c] \in Settled

\* await previous, then the second test of isReentrant.
TakeTurn(c) ==
  /\ Step(c, "queued", IF Reentrant(InstOf[c], ctx[c]) THEN "inline" ELSE "look")
  /\ TurnEnded(prev[c])
  /\ UNCHANGED <<memory, alive, disk, faults>>

\* acquire: the two lookups of inspect, mkdir, inspect again, the owner record.
AcqLook(c) ==
  /\ Step(c, "look", IF guard THEN "busy" ELSE "lookDir")
  /\ UNCHANGED <<memory, alive, disk, faults>>

AcqLookDir(c) ==
  /\ Step(c, "lookDir", IF lockDir THEN "busy" ELSE "mkdir")
  /\ UNCHANGED <<memory, alive, disk, faults>>

AcqMkdir(c) ==
  /\ Step(c, "mkdir", IF lockDir THEN "busy" ELSE "check")
  /\ lockDir' = TRUE
  /\ UNCHANGED <<memory, alive, rec, guard, faults>>

AcqCheck(c) ==
  /\ Step(c, "check", IF guard THEN "abort" ELSE "create")
  /\ UNCHANGED <<memory, alive, disk, faults>>

\* abortUncommittedLock: rmdir removes the directory only while it is empty.  That
\* the call to lstat or rmdir fails is a case of AcqFails.
AcqAbort(c) ==
  /\ Step(c, "abort", "busy")
  /\ lockDir' = (lockDir /\ rec # Missing)
  /\ UNCHANGED <<memory, alive, rec, guard, faults>>

\* writeFileSync with "wx" creates the file, if it can, and then fills it.
CanCreate == lockDir /\ rec = Missing

AcqCreate(c) ==
  /\ Step(c, "create", IF CanCreate THEN "write" ELSE "unfinished")
  /\ rec' = IF CanCreate THEN Torn ELSE rec
  /\ UNCHANGED <<memory, alive, lockDir, guard, faults>>

\* The record is there: nonce and generation are set and the action runs.
AcqWrite(c) ==
  /\ Step(c, "write", "acting")
  /\ rec' = Owner(c)
  /\ active' = [active EXCEPT ![InstOf[c]] = c]
  /\ ctx' = [ctx EXCEPT ![c] = c]
  /\ UNCHANGED <<waiter, prev, tail, seen, alive, lockDir, guard, faults>>

\* Any of these calls fails.  Before mkdir nothing is left, and such a failure is
\* not counted: it is a refusal without its reason.  The second inspect
\* throws past abortUncommittedLock, which in its turn keeps silent about a
\* directory it cannot remove: the empty directory stays, whatever the answer.
\* The record cannot be created or filled: the lock stays, to fail closed.
AcqFails(c) ==
  /\ \/ /\ \E s \in {"look", "lookDir", "mkdir"} : Step(c, s, "busy")
        /\ UNCHANGED <<active, faults>>
     \/ /\ faults < MaxFaults /\ faults' = faults + 1
        /\ \/ /\ \E s \in {"check", "abort"} : Step(c, s, "stranded")
              /\ UNCHANGED active
           \/ /\ \E s \in {"create", "write"} : Step(c, s, "unfinished")
              /\ active' = [active EXCEPT ![InstOf[c]] = NoCall]
  /\ UNCHANGED <<ctx, waiter, prev, tail, seen, alive, disk>>

\* The action ends (returns or throws), after the calls it awaits.
\* finishOwnership gives up the generation and the nonce before the disk.
ActionEnds(c) ==
  /\ pc[c] \in Acting
  /\ \A d \in Call : waiter[d] = c => pc[d] \in Settled
  /\ \/ /\ Step(c, "inline", "done")
        /\ UNCHANGED active
     \/ /\ Step(c, "acting", "relRead")
        /\ active' = [active EXCEPT ![InstOf[c]] = NoCall]
  /\ UNCHANGED <<ctx, waiter, prev, tail, seen, alive, disk, faults>>

-----------------------------------------------------------------------------
(* removeOwnedLock, of the owner's release and of unlockDead. *)

RelRead(c) ==
  /\ Step(c, "relRead", IF ~lockDir THEN "done"
                        ELSE IF rec = Owner(c) THEN "relUnlink" ELSE "stuck")
  /\ UNCHANGED <<memory, alive, disk, faults>>

Unlink(c) ==
  /\ \/ Step(c, "relUnlink", "relRmdir")
     \/ Step(c, "recUnlink", "recRmdir")
  /\ rec' = Missing
  /\ UNCHANGED <<memory, alive, lockDir, guard, faults>>

\* rmdir fails when another record has appeared in the directory.
Rmdir(c) ==
  /\ \/ Step(c, "relRmdir", IF rec = Missing THEN "done" ELSE "stuck")
     \/ Step(c, "recRmdir", IF rec = Missing THEN "recDrop" ELSE "recFailed")
  /\ lockDir' = (lockDir /\ rec # Missing)
  /\ UNCHANGED <<memory, alive, rec, guard, faults>>

\* A call of the release or of unlockDead fails.  Under the guard, unlockDead
\* keeps its reclaim directory: the catch returns remove-failed without
\* dropReclaim; before the guard nothing is left (and nothing is counted).  Only a
\* record that cannot be read looks like no record to it.
RemoveFails(c) ==
  /\ \/ /\ \E s \in {"recLook", "recOwner", "recMkdir"} : Step(c, s, "recDone")
        /\ UNCHANGED faults
     \/ /\ faults < MaxFaults /\ faults' = faults + 1
        /\ \/ \E s \in {"relRead", "relUnlink", "relRmdir"} : Step(c, s, "stuck")
           \/ Step(c, "recRead", "recDrop")
           \/ \E s \in GuardHolding : Step(c, s, "recFailed")
  /\ UNCHANGED <<memory, alive, disk>>

-----------------------------------------------------------------------------
(* unlockDead. *)

RecStart(c) ==
  /\ c \in Reclaimer
  /\ Step(c, "new", "recLook")
  /\ UNCHANGED <<memory, alive, disk, faults>>

RecLook(c) ==
  /\ Step(c, "recLook", IF guard THEN "recDone" ELSE "recOwner")
  /\ UNCHANGED <<memory, alive, disk, faults>>

\* Not held, incomplete and a live owner are all refused.
Dead(r) == Readable(r) /\ ~alive[P(r.by)]

RecOwner(c) ==
  /\ Step(c, "recOwner", IF lockDir /\ Dead(rec) THEN "recMkdir" ELSE "recDone")
  /\ seen' = [seen EXCEPT ![c] = rec]
  /\ UNCHANGED <<ctx, waiter, prev, active, tail, alive, disk, faults>>

RecMkdir(c) ==
  /\ Step(c, "recMkdir", IF guard THEN "recDone" ELSE "recRead")
  /\ guard' = TRUE
  /\ UNCHANGED <<memory, alive, lockDir, rec, faults>>

\* Under the guard: is the record still the one that was found dead?
StillDead_As(c) == Readable(rec)
StillDead(c) == rec = seen[c] /\ Dead(rec)

RecRead(c) ==
  /\ Step(c, "recRead", IF StillDead(c) THEN "recCheck" ELSE "recDrop")
  /\ seen' = [seen EXCEPT ![c] = rec]
  /\ UNCHANGED <<ctx, waiter, prev, active, tail, alive, disk, faults>>

\* removeOwnedLock reads the record once more.
RecCheck(c) ==
  /\ Step(c, "recCheck", IF ~lockDir THEN "recDrop"
                         ELSE IF rec = seen[c] THEN "recUnlink" ELSE "recFailed")
  /\ UNCHANGED <<memory, alive, disk, faults>>

RecDrop(c) ==
  /\ Step(c, "recDrop", "recDone")
  /\ guard' = FALSE
  /\ UNCHANGED <<memory, alive, lockDir, rec, faults>>

-----------------------------------------------------------------------------
\* A process dies at any point: its instances, queues and actions are gone.
Die(p) ==
  /\ alive[p] /\ Cardinality({q \in Proc : ~alive[q]}) < MaxDeaths
  /\ alive' = [alive EXCEPT ![p] = FALSE]
  /\ UNCHANGED <<pc, memory, disk, faults>>

Acquire(c) == AcqLook(c) \/ AcqLookDir(c) \/ AcqMkdir(c) \/ AcqCheck(c)
              \/ AcqAbort(c) \/ AcqCreate(c) \/ AcqWrite(c)
Remove(c)  == RelRead(c) \/ Unlink(c) \/ Rmdir(c)
Reclaim(c) == RecLook(c) \/ RecOwner(c) \/ RecMkdir(c) \/ RecRead(c)
              \/ RecCheck(c) \/ RecDrop(c)
Continue(c) == TakeTurn(c) \/ Acquire(c) \/ ActionEnds(c) \/ Remove(c) \/ Reclaim(c)

Next ==
  \/ \E c \in Call :
       \/ \E d \in Call \cup {NoCall}, awaited \in BOOLEAN : Start(c, d, awaited)
       \/ Continue(c) \/ RecStart(c) \/ AcqFails(c) \/ RemoveFails(c)
  \/ \E p \in Proc : Die(p)

Spec == Init /\ [][Next]_vars

\* A live process runs what it has begun, and actions end: no operation under
\* the lock waits for something only another operation can bring.
FairSpec == Spec /\ WF_vars(\E c \in Call : Continue(c))

-----------------------------------------------------------------------------
(* Properties. *)

TypeOK ==
  /\ pc \in [Call -> {"new", "queued"} \cup Acting \cup Sync \cup Settled]
  /\ ctx \in [Call -> Call \cup {NoCall}] /\ waiter \in [Call -> Call \cup {NoCall}]
  /\ prev \in [Call -> Call \cup {NoCall}]
  /\ active \in [Inst -> Call \cup {NoCall}] /\ tail \in [Inst -> Call \cup {NoCall}]
  /\ alive \in [Proc -> BOOLEAN]
  /\ rec \in {Missing, Torn} \cup {Owner(c) : c \in Call}
  /\ lockDir \in BOOLEAN /\ guard \in BOOLEAN /\ faults \in 0..MaxFaults

\* While an action runs as the owner in a live process, its record is on the
\* disk, whatever other processes reclaim or acquire (home-operation-lock.ts
\* 119-141, 195-205): the lock is never taken from a live owner.
LiveOwnerKeepsLock ==
  \A c \in Call : pc[c] = "acting" /\ alive[P(c)] => lockDir /\ rec = Owner(c)

\* What is left on the disk is explained: a lock directory belongs to a call
\* that is acquiring, owning, releasing or removing it (if its process lives),
\* or that died or had a file-system call fail doing so; the same for the
\* reclaim directory.  No other path leaks one: a call that is merely refused or
\* that loses a race without a failing call leaves nothing.
LeftoversExplained ==
  /\ lockDir => \E c \in Call : pc[c] \in {"check", "abort", "create", "write", "acting"} \cup Releasing
                     \cup {"recRmdir", "stranded", "unfinished", "stuck", "recFailed"}
  /\ guard => \E c \in Call : pc[c] \in GuardHolding \cup {"recFailed"}

\* The state invariant: the lock and what is left of it belong to somebody.
Inv == TypeOK /\ LiveOwnerKeepsLock /\ LeftoversExplained

\* What the disk holds while a call, dead or alive, is about to take a step.
\* Only one call works on a directory without an owner in it: the one that made
\* it, or the one that has removed the record.
Making == {"check", "abort", "create", "write", "relRmdir", "recRmdir"}
OneMaker ==
  /\ ~lockDir => rec = Missing
  /\ \A c \in Call : pc[c] \in Making =>
       /\ lockDir /\ rec = IF pc[c] = "write" THEN Torn ELSE Missing
       /\ \A d \in Call : pc[d] \in Making => d = c

\* A live call that owns the lock or is about to remove its record finds it there.
Owning == {"acting", "relRead", "relUnlink"}
OwnRecord ==
  \A c \in Call : pc[c] \in Owning /\ alive[P(c)] => lockDir /\ rec = Owner(c)

\* One call is behind the reclaim guard, or left it there; what it removes is the
\* record of a dead owner, which nobody else can change.
OneReclaimer ==
  /\ seen \in [Call -> {Missing, Torn} \cup {Owner(c) : c \in Call}]
  /\ \A c \in Call : pc[c] \in GuardHolding \cup {"recFailed"} =>
       /\ guard
       /\ \A d \in Call : pc[d] \in GuardHolding \cup {"recFailed"} => d = c
  /\ \A c \in Call : pc[c] \in {"recCheck", "recUnlink"} =>
       lockDir /\ rec = seen[c] /\ Dead(rec)

\* The nonce an instance remembers is that of a call of its own that acts.
ActiveActs ==
  \A i \in Inst : active[i] # NoCall => pc[active[i]] = "acting" /\ InstOf[active[i]] = i

IInv == Inv /\ OneMaker /\ OwnRecord /\ OneReclaimer /\ ActiveActs

\* A call that outlives the action it was started in (a timer, an exit handler)
\* does not slip past the queue: a call runs inline only while the action whose
\* store it carries is still the owner (isReentrant, 182-190).
InlineOnlyUnderLiveOwner ==
  [][\A c \in Call : pc[c] # "inline" /\ pc'[c] = "inline" => pc[ctx'[c]] = "acting"]_vars

\* In the end nobody waits: every call that queued has had its turn, or its
\* process is dead, although calls before it are refused, fail to release, or
\* throw (177-180); and the reclaim guard, which blocks every acquisition, is
\* gone, unless unlockDead failed (the catch at 142-148 keeps it) or died with it.
CallsSettle ==
  <>[](/\ \A c \in Call : pc[c] = "queued" => ~alive[P(c)]
       /\ guard => \E c \in Call : pc[c] = "recFailed" \/ (pc[c] \in GuardHolding /\ ~alive[P(c)]))

\* The owners of the lock are the holders of one exclusive right.
Holders == {c \in Call : pc[c] = "acting" /\ alive[P(c)]}
Abstract == INSTANCE RunRights WITH Proc <- Call, holders <- Holders
ImplementsRunRights == Abstract!Spec
=============================================================================
