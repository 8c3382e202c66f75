---------------------------- MODULE HomeLockProofs ----------------------------
(***************************************************************************)
(* Proofs about HomeLock for every set of processes, instances and calls,  *)
(* every way the instances belong to processes, and every number of faults *)
(* and deaths.  Everything rests on the inductive invariant IInv: what the *)
(* disk holds while a call is at each program point, its process alive or  *)
(* not.                                                                    *)
(***************************************************************************)
EXTENDS HomeLock, TLAPS

Records == {Missing, Torn} \cup {Owner(c) : c \in Call}
States == {"new", "queued"} \cup Acting \cup Sync \cup Settled

\* The records differ as their names say.
LEMMA RecordsDiffer ==
  /\ Missing # Torn /\ ~Readable(Missing) /\ ~Readable(Torn)
  /\ \A c : Readable(Owner(c)) /\ Owner(c).by = c /\ Owner(c) # Missing /\ Owner(c) # Torn
  /\ \A c, d : Owner(c) = Owner(d) => c = d
  BY DEF Missing, Torn, Owner, Readable

\* The process of a call is a process.
LEMMA CallHasProcess == \A c \in Call : InstOf[c] \in Inst /\ P(c) \in Proc
  BY CallAssumption DEF P

\* What a step of one call does to the program counters.
LEMMA Moved ==
  ASSUME TypeOK, NEW c \in Call, NEW from, NEW to \in States, Step(c, from, to)
  PROVE  /\ pc[c] = from /\ alive[P(c)]
         /\ pc' \in [Call -> States] /\ pc'[c] = to
         /\ \A d \in Call : d # c => pc'[d] = pc[d]
  BY DEF TypeOK, Step, Runs, States

\* Every step keeps the types.
LEMMA TypePreserved == ASSUME TypeOK, [Next]_vars PROVE TypeOK'
<1> USE CallAssumption, FaultAssumption, CallHasProcess
    DEF TypeOK, memory, disk, Acting, Sync, Settled, Acquiring, Releasing, Reclaiming
<1>1. ASSUME NEW c \in Call, NEW d \in Call \cup {NoCall}, NEW awaited \in BOOLEAN,
             Start(c, d, awaited)
      PROVE  TypeOK'
  <2>1. InstOf[c] \in Inst  BY CallHasProcess
  <2>2. pc' \in [Call -> {"new", "queued"} \cup Acting \cup Sync \cup Settled]  BY <1>1 DEF Start
  <2>3. ctx' \in [Call -> Call \cup {NoCall}]  BY <1>1 DEF Start
  <2>4. waiter' \in [Call -> Call \cup {NoCall}]  BY <1>1 DEF Start
  <2>5. prev' \in [Call -> Call \cup {NoCall}] /\ tail' \in [Inst -> Call \cup {NoCall}]
    BY <1>1, <2>1 DEF Start
  <2> QED BY <1>1, <2>2, <2>3, <2>4, <2>5 DEF Start
<1>2. ASSUME NEW c \in Call, TakeTurn(c) PROVE TypeOK'  BY <1>2 DEF TakeTurn, Step
<1>3. ASSUME NEW c \in Call, Acquire(c) PROVE TypeOK'
  <2>1. CASE AcqLook(c) \/ AcqLookDir(c) \/ AcqCheck(c)
    BY <2>1 DEF AcqLook, AcqLookDir, AcqCheck, Step
  <2>2. CASE AcqMkdir(c) \/ AcqAbort(c) \/ AcqCreate(c)
    BY <2>2, ZenonT(60) DEF AcqMkdir, AcqAbort, AcqCreate, Step
  <2>3. CASE AcqWrite(c)  BY <2>3 DEF AcqWrite, Step
  <2> QED BY <1>3, <2>1, <2>2, <2>3 DEF Acquire
<1>4. ASSUME NEW c \in Call, AcqFails(c) PROVE TypeOK'  BY <1>4 DEF AcqFails, Step
<1>5. ASSUME NEW c \in Call, ActionEnds(c) PROVE TypeOK'  BY <1>5 DEF ActionEnds, Step
<1>6. ASSUME NEW c \in Call, Remove(c) PROVE TypeOK'
  BY <1>6, ZenonT(60) DEF Remove, RelRead, Unlink, Rmdir, Step
<1>7. ASSUME NEW c \in Call, RemoveFails(c) PROVE TypeOK'
  BY <1>7 DEF RemoveFails, Step
<1>8. ASSUME NEW c \in Call, Reclaim(c) \/ RecStart(c) PROVE TypeOK'
  BY <1>8, ZenonT(60) DEF Reclaim, RecStart, RecLook, RecOwner, RecMkdir, RecRead, RecCheck, RecDrop, Step
<1>9. ASSUME NEW p \in Proc, Die(p) PROVE TypeOK'  BY <1>9 DEF Die
<1>10. CASE UNCHANGED vars  BY <1>10 DEF vars
<1> QED BY <1>1, <1>2, <1>3, <1>4, <1>5, <1>6, <1>7, <1>8, <1>9, <1>10 DEF Next, Continue

\* What is proved beside the types.
Strong == LeftoversExplained /\ OneMaker /\ OwnRecord /\ OneReclaimer /\ ActiveActs

\* acquire: only the maker of the lock directory writes into it.
LEMMA AcquirePreserves ==
  ASSUME TypeOK, TypeOK', Strong, NEW c \in Call, Acquire(c) PROVE Strong'
<1> USE CallAssumption, CallHasProcess, RecordsDiffer
    DEF TypeOK, Strong, LeftoversExplained, OneMaker, OwnRecord, OneReclaimer, ActiveActs,
        Making, Owning, GuardHolding, Releasing, memory, disk, Dead
<1>1. ASSUME AcqLook(c) PROVE Strong'
  <2>1. LeftoversExplained'  BY <1>1 DEF AcqLook, Step, Runs
  <2>2. OneMaker'  BY <1>1 DEF AcqLook, Step, Runs
  <2>3. OwnRecord'  BY <1>1 DEF AcqLook, Step, Runs
  <2>4. OneReclaimer'  BY <1>1 DEF AcqLook, Step, Runs
  <2>5. ActiveActs'  BY <1>1 DEF AcqLook, Step, Runs
  <2> QED BY <2>1, <2>2, <2>3, <2>4, <2>5
<1>2. ASSUME AcqLookDir(c) PROVE Strong'
  <2>1. LeftoversExplained'  BY <1>2 DEF AcqLookDir, Step, Runs
  <2>2. OneMaker'  BY <1>2 DEF AcqLookDir, Step, Runs
  <2>3. OwnRecord'  BY <1>2 DEF AcqLookDir, Step, Runs
  <2>4. OneReclaimer'  BY <1>2 DEF AcqLookDir, Step, Runs
  <2>5. ActiveActs'  BY <1>2 DEF AcqLookDir, Step, Runs
  <2> QED BY <2>1, <2>2, <2>3, <2>4, <2>5
<1>3. ASSUME AcqMkdir(c) PROVE Strong'
  <2>1. LeftoversExplained'  BY <1>3 DEF AcqMkdir, Step, Runs
  <2>2. OneMaker'  BY <1>3 DEF AcqMkdir, Step, Runs
  <2>3. OwnRecord'  BY <1>3 DEF AcqMkdir, Step, Runs
  <2>4. OneReclaimer'  BY <1>3 DEF AcqMkdir, Step, Runs
  <2>5. ActiveActs'  BY <1>3 DEF AcqMkdir, Step, Runs
  <2> QED BY <2>1, <2>2, <2>3, <2>4, <2>5
<1>4. ASSUME AcqCheck(c) PROVE Strong'
  <2>1. LeftoversExplained'  BY <1>4 DEF AcqCheck, Step, Runs
  <2>2. OneMaker'  BY <1>4 DEF AcqCheck, Step, Runs
  <2>3. OwnRecord'  BY <1>4 DEF AcqCheck, Step, Runs
  <2>4. OneReclaimer'  BY <1>4 DEF AcqCheck, Step, Runs
  <2>5. ActiveActs'  BY <1>4 DEF AcqCheck, Step, Runs
  <2> QED BY <2>1, <2>2, <2>3, <2>4, <2>5
<1>5. ASSUME AcqAbort(c) PROVE Strong'
  <2>1. LeftoversExplained'
    <3>1. ~lockDir'  BY <1>5 DEF AcqAbort, Step
    <3>2. guard' => \E d \in Call : pc'[d] \in GuardHolding \cup {"recFailed"}
      BY <1>5 DEF AcqAbort, Step
    <3> QED BY <3>1, <3>2
  <2>2. OneMaker'  BY <1>5 DEF AcqAbort, Step, Runs
  <2>3. OwnRecord'  BY <1>5 DEF AcqAbort, Step, Runs
  <2>4. OneReclaimer'  BY <1>5 DEF AcqAbort, Step, Runs
  <2>5. ActiveActs'  BY <1>5 DEF AcqAbort, Step, Runs
  <2> QED BY <2>1, <2>2, <2>3, <2>4, <2>5
<1>6. ASSUME AcqCreate(c) PROVE Strong'
  <2>1. LeftoversExplained'  BY <1>6 DEF AcqCreate, Step, Runs, CanCreate
  <2>2. OneMaker'  BY <1>6 DEF AcqCreate, Step, Runs, CanCreate
  <2>3. OwnRecord'  BY <1>6 DEF AcqCreate, Step, Runs, CanCreate
  <2>4. OneReclaimer'  BY <1>6 DEF AcqCreate, Step, Runs, CanCreate
  <2>5. ActiveActs'  BY <1>6 DEF AcqCreate, Step, Runs, CanCreate
  <2> QED BY <2>1, <2>2, <2>3, <2>4, <2>5
<1>7. ASSUME AcqWrite(c) PROVE Strong'
  <2>1. LeftoversExplained'  BY <1>7 DEF AcqWrite, Step, Runs
  <2>2. OneMaker'  BY <1>7 DEF AcqWrite, Step, Runs
  <2>3. OwnRecord'  BY <1>7 DEF AcqWrite, Step, Runs
  <2>4. OneReclaimer'  BY <1>7 DEF AcqWrite, Step, Runs
  <2>5. ActiveActs'  BY <1>7 DEF AcqWrite, Step, Runs
  <2> QED BY <2>1, <2>2, <2>3, <2>4, <2>5
<1> QED BY <1>1, <1>2, <1>3, <1>4, <1>5, <1>6, <1>7 DEF Acquire

\* removeOwnedLock: a call removes its own record, or that of a dead owner.
LEMMA RemovePreserves ==
  ASSUME TypeOK, TypeOK', Strong, NEW c \in Call, Remove(c) PROVE Strong'
<1> USE CallAssumption, CallHasProcess, RecordsDiffer
    DEF TypeOK, Strong, LeftoversExplained, OneMaker, OwnRecord, OneReclaimer, ActiveActs,
        Making, Owning, GuardHolding, Releasing, memory, disk, Dead
<1>1. ASSUME RelRead(c) PROVE Strong'
  <2>1. LeftoversExplained'  BY <1>1 DEF RelRead, Step, Runs
  <2>2. OneMaker'  BY <1>1 DEF RelRead, Step, Runs
  <2>3. OwnRecord'  BY <1>1 DEF RelRead, Step, Runs
  <2>4. OneReclaimer'  BY <1>1 DEF RelRead, Step, Runs
  <2>5. ActiveActs'  BY <1>1 DEF RelRead, Step, Runs
  <2> QED BY <2>1, <2>2, <2>3, <2>4, <2>5
<1>2. ASSUME Unlink(c) PROVE Strong'
  <2>1. LeftoversExplained'  BY <1>2 DEF Unlink, Step, Runs
  <2>2. OneMaker'  BY <1>2 DEF Unlink, Step, Runs
  <2>3. OwnRecord'  BY <1>2 DEF Unlink, Step, Runs
  <2>4. OneReclaimer'  BY <1>2 DEF Unlink, Step, Runs
  <2>5. ActiveActs'  BY <1>2 DEF Unlink, Step, Runs
  <2> QED BY <2>1, <2>2, <2>3, <2>4, <2>5
<1>3. ASSUME Rmdir(c) PROVE Strong'
  <2>1. LeftoversExplained'
    <3>1. ~lockDir'  BY <1>3 DEF Rmdir, Step
    <3>2. guard' => \E d \in Call : pc'[d] \in GuardHolding \cup {"recFailed"}
      BY <1>3 DEF Rmdir, Step
    <3> QED BY <3>1, <3>2
  <2>2. OneMaker'  BY <1>3 DEF Rmdir, Step, Runs
  <2>3. OwnRecord'  BY <1>3 DEF Rmdir, Step, Runs
  <2>4. OneReclaimer'  BY <1>3 DEF Rmdir, Step, Runs
  <2>5. ActiveActs'  BY <1>3 DEF Rmdir, Step, Runs
  <2> QED BY <2>1, <2>2, <2>3, <2>4, <2>5
<1> QED BY <1>1, <1>2, <1>3 DEF Remove

\* unlockDead: the record read under the guard stays what it is.
LEMMA ReclaimPreserves ==
  ASSUME TypeOK, TypeOK', Strong, NEW c \in Call, Reclaim(c) PROVE Strong'
<1> USE CallAssumption, CallHasProcess, RecordsDiffer
    DEF TypeOK, Strong, LeftoversExplained, OneMaker, OwnRecord, OneReclaimer, ActiveActs,
        Making, Owning, GuardHolding, Releasing, memory, disk, Dead
<1>1. ASSUME RecLook(c) PROVE Strong'
  <2>1. LeftoversExplained'  BY <1>1 DEF RecLook, Step, Runs
  <2>2. OneMaker'  BY <1>1 DEF RecLook, Step, Runs
  <2>3. OwnRecord'  BY <1>1 DEF RecLook, Step, Runs
  <2>4. OneReclaimer'  BY <1>1 DEF RecLook, Step, Runs
  <2>5. ActiveActs'  BY <1>1 DEF RecLook, Step, Runs
  <2> QED BY <2>1, <2>2, <2>3, <2>4, <2>5
<1>2. ASSUME RecOwner(c) PROVE Strong'
  <2>1. LeftoversExplained'  BY <1>2 DEF RecOwner, Step, Runs
  <2>2. OneMaker'  BY <1>2 DEF RecOwner, Step, Runs
  <2>3. OwnRecord'  BY <1>2 DEF RecOwner, Step, Runs
  <2>4. OneReclaimer'  BY <1>2 DEF RecOwner, Step, Runs
  <2>5. ActiveActs'  BY <1>2 DEF RecOwner, Step, Runs
  <2> QED BY <2>1, <2>2, <2>3, <2>4, <2>5
<1>3. ASSUME RecMkdir(c) PROVE Strong'
  <2>1. LeftoversExplained'  BY <1>3 DEF RecMkdir, Step, Runs
  <2>2. OneMaker'  BY <1>3 DEF RecMkdir, Step, Runs
  <2>3. OwnRecord'  BY <1>3 DEF RecMkdir, Step, Runs
  <2>4. OneReclaimer'  BY <1>3 DEF RecMkdir, Step, Runs
  <2>5. ActiveActs'  BY <1>3 DEF RecMkdir, Step, Runs
  <2> QED BY <2>1, <2>2, <2>3, <2>4, <2>5
<1>4. ASSUME RecRead(c) PROVE Strong'
  <2>1. LeftoversExplained'  BY <1>4 DEF RecRead, Step, Runs, StillDead
  <2>2. OneMaker'  BY <1>4 DEF RecRead, Step, Runs, StillDead
  <2>3. OwnRecord'  BY <1>4 DEF RecRead, Step, Runs, StillDead
  <2>4. OneReclaimer'  BY <1>4 DEF RecRead, Step, Runs, StillDead
  <2>5. ActiveActs'  BY <1>4 DEF RecRead, Step, Runs, StillDead
  <2> QED BY <2>1, <2>2, <2>3, <2>4, <2>5
<1>5. ASSUME RecCheck(c) PROVE Strong'
  <2>1. LeftoversExplained'  BY <1>5 DEF RecCheck, Step, Runs
  <2>2. OneMaker'  BY <1>5 DEF RecCheck, Step, Runs
  <2>3. OwnRecord'  BY <1>5 DEF RecCheck, Step, Runs
  <2>4. OneReclaimer'  BY <1>5 DEF RecCheck, Step, Runs
  <2>5. ActiveActs'  BY <1>5 DEF RecCheck, Step, Runs
  <2> QED BY <2>1, <2>2, <2>3, <2>4, <2>5
<1>6. ASSUME RecDrop(c) PROVE Strong'
  <2>1. LeftoversExplained'  BY <1>6 DEF RecDrop, Step, Runs
  <2>2. OneMaker'  BY <1>6 DEF RecDrop, Step, Runs
  <2>3. OwnRecord'  BY <1>6 DEF RecDrop, Step, Runs
  <2>4. OneReclaimer'  BY <1>6 DEF RecDrop, Step, Runs
  <2>5. ActiveActs'  BY <1>6 DEF RecDrop, Step, Runs
  <2> QED BY <2>1, <2>2, <2>3, <2>4, <2>5
<1> QED BY <1>1, <1>2, <1>3, <1>4, <1>5, <1>6 DEF Reclaim

\* run: what is queued, runs inline, ends or fails leaves the disk to others.
LEMMA RunPreserves ==
  ASSUME TypeOK, TypeOK', Strong, NEW c \in Call,
         (\E d \in Call \cup {NoCall}, awaited \in BOOLEAN : Start(c, d, awaited))
           \/ TakeTurn(c) \/ ActionEnds(c) \/ AcqFails(c) \/ RemoveFails(c) \/ RecStart(c) PROVE Strong'
<1> USE CallAssumption, CallHasProcess, RecordsDiffer
    DEF TypeOK, Strong, LeftoversExplained, OneMaker, OwnRecord, OneReclaimer, ActiveActs,
        Making, Owning, GuardHolding, Releasing, memory, disk, Dead
<1>1. ASSUME NEW d \in Call \cup {NoCall}, NEW awaited \in BOOLEAN, Start(c, d, awaited) PROVE Strong'
  <2>1. LeftoversExplained'  BY <1>1 DEF Start
  <2>2. OneMaker'  BY <1>1 DEF Start
  <2>3. OwnRecord'  BY <1>1 DEF Start
  <2>4. OneReclaimer'  BY <1>1 DEF Start
  <2>5. ActiveActs'  BY <1>1 DEF Start
  <2> QED BY <2>1, <2>2, <2>3, <2>4, <2>5
<1>2. ASSUME TakeTurn(c) PROVE Strong'
  <2>1. LeftoversExplained'  BY <1>2 DEF TakeTurn, Step, Runs
  <2>2. OneMaker'  BY <1>2 DEF TakeTurn, Step, Runs
  <2>3. OwnRecord'  BY <1>2 DEF TakeTurn, Step, Runs
  <2>4. OneReclaimer'  BY <1>2 DEF TakeTurn, Step, Runs
  <2>5. ActiveActs'  BY <1>2 DEF TakeTurn, Step, Runs
  <2> QED BY <2>1, <2>2, <2>3, <2>4, <2>5
<1>3. ASSUME ActionEnds(c) PROVE Strong'
  <2>1. LeftoversExplained'  BY <1>3 DEF ActionEnds, Acting, Step, Runs
  <2>2. OneMaker'  BY <1>3 DEF ActionEnds, Acting, Step, Runs
  <2>3. OwnRecord'  BY <1>3 DEF ActionEnds, Acting, Step, Runs
  <2>4. OneReclaimer'  BY <1>3 DEF ActionEnds, Acting, Step, Runs
  <2>5. ActiveActs'  BY <1>3 DEF ActionEnds, Acting, Step, Runs
  <2> QED BY <2>1, <2>2, <2>3, <2>4, <2>5
<1>4. ASSUME AcqFails(c) PROVE Strong'
  <2>1. LeftoversExplained'  BY <1>4 DEF AcqFails, Step, Runs
  <2>2. OneMaker'  BY <1>4, SMTT(30) DEF AcqFails, Step, Runs
  <2>3. OwnRecord'  BY <1>4 DEF AcqFails, Step, Runs
  <2>4. OneReclaimer'  BY <1>4 DEF AcqFails, Step, Runs
  <2>5. ActiveActs'  BY <1>4 DEF AcqFails, Step, Runs
  <2> QED BY <2>1, <2>2, <2>3, <2>4, <2>5
<1>5. ASSUME RemoveFails(c) PROVE Strong'
  <2>1. LeftoversExplained'  BY <1>5 DEF RemoveFails, Step, Runs
  <2>2. OneMaker'  BY <1>5 DEF RemoveFails, Step, Runs
  <2>3. OwnRecord'  BY <1>5 DEF RemoveFails, Step, Runs
  <2>4. OneReclaimer'  BY <1>5 DEF RemoveFails, Step, Runs
  <2>5. ActiveActs'  BY <1>5 DEF RemoveFails, Step, Runs
  <2> QED BY <2>1, <2>2, <2>3, <2>4, <2>5
<1>6. ASSUME RecStart(c) PROVE Strong'
  <2>1. LeftoversExplained'  BY <1>6 DEF RecStart, Step, Runs
  <2>2. OneMaker'  BY <1>6 DEF RecStart, Step, Runs
  <2>3. OwnRecord'  BY <1>6 DEF RecStart, Step, Runs
  <2>4. OneReclaimer'  BY <1>6 DEF RecStart, Step, Runs
  <2>5. ActiveActs'  BY <1>6 DEF RecStart, Step, Runs
  <2> QED BY <2>1, <2>2, <2>3, <2>4, <2>5
<1> QED BY <1>1, <1>2, <1>3, <1>4, <1>5, <1>6 

\* A process dies: what it left stays, and nobody else's record is touched.
LEMMA DiePreserves ==
  ASSUME TypeOK, TypeOK', Strong, NEW p \in Proc, Die(p) PROVE Strong'
<1> USE CallAssumption, CallHasProcess, RecordsDiffer
    DEF TypeOK, Strong, LeftoversExplained, OneMaker, OwnRecord, OneReclaimer, ActiveActs,
        Making, Owning, GuardHolding, Releasing, memory, disk, Dead
<1>1. LeftoversExplained'  BY DEF Die
<1>2. OneMaker'  BY DEF Die
<1>3. OwnRecord'  BY DEF Die
<1>4. OneReclaimer'  BY DEF Die
<1>5. ActiveActs'  BY DEF Die
<1> QED BY <1>1, <1>2, <1>3, <1>4, <1>5

\* No step of any process disturbs what the disk is known to hold.
LEMMA StrongPreserved == ASSUME TypeOK, Strong, [Next]_vars PROVE Strong'
<1>1. TypeOK'  BY TypePreserved
<1>2. CASE UNCHANGED vars
  BY <1>2 DEF vars, memory, disk, Strong, LeftoversExplained, OneMaker, OwnRecord, OneReclaimer,
              ActiveActs, Dead
<1>3. ASSUME NEW c \in Call, Continue(c) PROVE Strong'
  BY <1>1, <1>3, RunPreserves, AcquirePreserves, RemovePreserves, ReclaimPreserves DEF Continue
<1>4. ASSUME NEW c \in Call,
             \/ \E d \in Call \cup {NoCall}, awaited \in BOOLEAN : Start(c, d, awaited)
             \/ RecStart(c) \/ AcqFails(c) \/ RemoveFails(c)
      PROVE  Strong'
  BY <1>1, <1>4, RunPreserves
<1>5. ASSUME NEW p \in Proc, Die(p) PROVE Strong'
  BY <1>1, <1>5, DiePreserves
<1> QED BY <1>2, <1>3, <1>4, <1>5 DEF Next

\* The Home is clean at first, or locked by a call whose process is dead.
LEMMA InitEstablishes == ASSUME Init PROVE TypeOK /\ Strong
<1> USE CallAssumption, FaultAssumption, CallHasProcess DEF Init
<1>1. TypeOK
  <2>1. pc \in [Call -> {"new", "queued"} \cup Acting \cup Sync \cup Settled]  BY DEF Acting
  <2>2. rec \in {Missing, Torn} \cup {Owner(c) : c \in Call}  OBVIOUS
  <2>3. alive \in [Proc -> BOOLEAN]
    <3>1. \A p \in Proc : (Left # NoCall => p # P(Left)) \in BOOLEAN  OBVIOUS
    <3> QED BY <3>1, Zenon
  <2>4. lockDir \in BOOLEAN /\ guard \in BOOLEAN /\ faults \in 0..MaxFaults
    <3>1. lockDir \in BOOLEAN /\ guard \in BOOLEAN  BY Zenon
    <3>2. faults \in 0..MaxFaults  OBVIOUS
    <3> QED BY <3>1, <3>2
  <2>5. /\ ctx \in [Call -> Call \cup {NoCall}] /\ waiter \in [Call -> Call \cup {NoCall}]
        /\ prev \in [Call -> Call \cup {NoCall}]
        /\ active \in [Inst -> Call \cup {NoCall}] /\ tail \in [Inst -> Call \cup {NoCall}]
    OBVIOUS
  <2> QED BY <2>1, <2>2, <2>3, <2>4, <2>5, Zenon DEF TypeOK
<1>2. LeftoversExplained  BY DEF LeftoversExplained
<1>3. OneMaker  BY DEF OneMaker, Making
<1>4. OwnRecord  BY DEF OwnRecord, Owning
<1>5. OneReclaimer  BY DEF OneReclaimer, GuardHolding
<1>6. ActiveActs  BY DEF ActiveActs
<1> QED BY <1>1, <1>2, <1>3, <1>4, <1>5, <1>6 DEF Strong

\* IInv is the types, what is proved beside them, and the ownership that follows.
LEMMA Parts == IInv <=> TypeOK /\ Strong
  BY DEF IInv, Inv, Strong, OwnRecord, Owning, LiveOwnerKeepsLock

\* The inductive invariant: what the lock, its record and the reclaim guard are at
\* every program point of every call (home-operation-lock.ts 86-205).
THEOREM Invariance == Spec => []IInv
<1>1. Init => IInv  BY InitEstablishes, Parts
<1>2. IInv /\ [Next]_vars => IInv'
  <2> SUFFICES ASSUME TypeOK, Strong, [Next]_vars PROVE TypeOK' /\ Strong'
    BY Parts, PTL
  <2> QED BY TypePreserved, StrongPreserved
<1> QED BY <1>1, <1>2, PTL DEF Spec

\* The lock is never taken from a live owner, and whatever is left of it on the
\* disk belongs to a call that lives, died or failed there.
THEOREM Safety == Spec => []Inv
  BY Invariance, PTL DEF IInv

\* A call runs inline only while the action whose store it carries still owns the
\* lock (isReentrant, home-operation-lock.ts 182-190): one that outlives its
\* parent takes its turn in the queue.
THEOREM NestedRunsUnderOwner == Spec => InlineOnlyUnderLiveOwner
<1> DEFINE Nested == \A c \in Call : pc[c] # "inline" /\ pc'[c] = "inline" => pc[ctx'[c]] = "acting"
<1>1. IInv /\ [Next]_vars => [Nested]_vars
  <2> SUFFICES ASSUME TypeOK, ActiveActs, [Next]_vars, NEW c \in Call,
                      pc[c] # "inline", pc'[c] = "inline"
               PROVE  pc[ctx'[c]] = "acting"
    BY DEF IInv, Inv
  <2> USE CallAssumption, CallHasProcess DEF TypeOK, ActiveActs, Reentrant
  <2>1. ASSUME NEW e \in Call, NEW d \in Call \cup {NoCall}, NEW awaited \in BOOLEAN,
               Start(e, d, awaited)
        PROVE  pc[ctx'[c]] = "acting"
    BY <2>1 DEF Start
  <2>2. ASSUME NEW e \in Call, TakeTurn(e) PROVE pc[ctx'[c]] = "acting"
    BY <2>2 DEF TakeTurn, Step, memory
  <2>3. ASSUME NEW e \in Call, Acquire(e) \/ AcqFails(e) PROVE FALSE
    BY <2>3 DEF Acquire, AcqLook, AcqLookDir, AcqMkdir, AcqCheck, AcqAbort, AcqCreate, AcqWrite,
                AcqFails, Step
  <2>4. ASSUME NEW e \in Call, ActionEnds(e) \/ Remove(e) \/ RemoveFails(e) PROVE FALSE
    BY <2>4 DEF ActionEnds, Remove, RelRead, Unlink, Rmdir, RemoveFails, Step
  <2>5. ASSUME NEW e \in Call, Reclaim(e) \/ RecStart(e) PROVE FALSE
    BY <2>5 DEF Reclaim, RecStart, RecLook, RecOwner, RecMkdir, RecRead, RecCheck, RecDrop, Step
  <2>6. ASSUME NEW p \in Proc, Die(p) PROVE FALSE
    BY <2>6 DEF Die
  <2>7. ~UNCHANGED vars  BY DEF vars
  <2> QED BY <2>1, <2>2, <2>3, <2>4, <2>5, <2>6, <2>7 DEF Next, Continue
<1> QED BY <1>1, Invariance, PTL DEF Spec, InlineOnlyUnderLiveOwner

-------------------------------------------------------------------------------
(* Refinement: the live owners are the holders of one exclusive right. *)

\* There is one live owner at most, and none while a call may become one.
LEMMA Exclusive ==
  ASSUME IInv
  PROVE  /\ \A c, d \in Holders : c = d
         /\ (\E c \in Call : pc[c] = "write") => Holders = {}
  BY RecordsDiffer DEF IInv, OwnRecord, OneMaker, Owning, Making, Holders

\* A step gives the right to one call that had none beside it, takes it from the
\* one that has it, or leaves the owners alone.
LEMMA StepRefines == ASSUME IInv, [Next]_vars PROVE [Abstract!Next]_Holders
<1> USE DEF Abstract!Next, Abstract!Take, Abstract!Yield
<1>1. TypeOK /\ TypeOK'
  BY Parts, TypePreserved
<1>2. ASSUME NEW c \in Call, AcqWrite(c) PROVE Abstract!Take(c)
  <2>1. Holders = {}  BY <1>2, Exclusive DEF AcqWrite, Step
  <2>2. Holders' = {c}
    BY <1>1, <1>2, <2>1 DEF AcqWrite, Step, Runs, Holders, TypeOK
  <2> QED BY <2>1, <2>2 DEF Holders
<1>3. ASSUME NEW c \in Call, ActionEnds(c) PROVE Abstract!Yield(c) \/ Holders' = Holders
  <2>1. CASE Step(c, "acting", "relRead")
    <3>1. Holders = {c}  BY <2>1, Exclusive DEF Step, Runs, Holders
    <3>2. Holders' = {}  BY <1>1, <1>3, <2>1, <3>1 DEF ActionEnds, Step, Holders, TypeOK
    <3> QED BY <3>1, <3>2 DEF Holders
  <2>2. CASE Step(c, "inline", "done")
    BY <1>1, <1>3, <2>2 DEF ActionEnds, Step, Holders, TypeOK
  <2> QED BY <1>3, <2>1, <2>2 DEF ActionEnds
<1>4. ASSUME NEW p \in Proc, Die(p) PROVE \/ \E c \in Call : Abstract!Yield(c)
                                        \/ Holders' = Holders
  <2>1. Holders' \subseteq Holders  BY <1>1, <1>4 DEF Die, Holders, TypeOK
  <2>2. CASE Holders' # Holders
    <3>1. PICK c \in Call : Holders = {c}  BY <2>1, <2>2, Exclusive DEF Holders
    <3>2. Holders' = {}  BY <2>1, <2>2, <3>1
    <3> QED BY <3>1, <3>2 DEF Holders
  <2> QED BY <2>2
<1>5. ASSUME NEW c \in Call,
             \/ \E d \in Call \cup {NoCall}, awaited \in BOOLEAN : Start(c, d, awaited)
             \/ TakeTurn(c) \/ RecStart(c) \/ AcqFails(c) \/ RemoveFails(c) \/ Remove(c) \/ Reclaim(c)
             \/ Acquire(c) /\ ~AcqWrite(c)
      PROVE  Holders' = Holders
  <2> USE <1>1 DEF Holders, TypeOK, Step
  <2>1. alive' = alive
    BY <1>5 DEF Start, TakeTurn, RecStart, AcqFails, RemoveFails, Remove, RelRead, Unlink, Rmdir,
         Reclaim, RecLook, RecOwner, RecMkdir, RecRead, RecCheck, RecDrop,
         Acquire, AcqLook, AcqLookDir, AcqMkdir, AcqCheck, AcqAbort, AcqCreate
  <2>2. \A d \in Call : pc'[d] = "acting" <=> pc[d] = "acting"
    <3>1. CASE Acquire(c) /\ ~AcqWrite(c)
      BY <3>1 DEF Acquire, AcqLook, AcqLookDir, AcqMkdir, AcqCheck, AcqAbort, AcqCreate
    <3>2. CASE Remove(c) \/ RemoveFails(c) \/ AcqFails(c)
      BY <3>2 DEF Remove, RelRead, Unlink, Rmdir, RemoveFails, AcqFails, GuardHolding
    <3>3. CASE Reclaim(c) \/ RecStart(c)
      BY <3>3 DEF Reclaim, RecStart, RecLook, RecOwner, RecMkdir, RecRead, RecCheck, RecDrop
    <3>4. CASE TakeTurn(c) \/ \E d \in Call \cup {NoCall}, awaited \in BOOLEAN : Start(c, d, awaited)
      BY <3>4 DEF TakeTurn, Start
    <3> QED BY <1>5, <3>1, <3>2, <3>3, <3>4
  <2> QED BY <2>1, <2>2
<1>6. CASE UNCHANGED vars  BY <1>6 DEF vars, Holders
<1> QED BY <1>2, <1>3, <1>4, <1>5, <1>6 DEF Next, Continue

\* The lock with its records, guards, queues and crashes implements one exclusive
\* right, passed from one call to the next through a moment in which nobody has it.
THEOREM Refinement == Spec => ImplementsRunRights
<1>1. Init => Abstract!Init
  <2> SUFFICES ASSUME Init, NEW c \in Call, pc[c] = "acting", alive[P(c)] PROVE FALSE
    BY DEF Abstract!Init, Holders
  <2>1. c = Left /\ Left # NoCall  BY CallAssumption DEF Init
  <2>2. ~alive[P(c)]  BY <2>1, CallHasProcess DEF Init
  <2> QED BY <2>2
<1>2. IInv /\ [Next]_vars => [Abstract!Next]_Holders
  BY StepRefines
<1> QED BY <1>1, <1>2, Invariance, PTL DEF Spec, ImplementsRunRights, Abstract!Spec
===============================================================================
