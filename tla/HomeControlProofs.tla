------------------------- MODULE HomeControlProofs -------------------------
(***************************************************************************)
(* Proofs about HomeControl for every set of processes, every assignment   *)
(* of pids (reused ones too) and every bound on the nonces.  Everything    *)
(* rests on the inductive invariant IInv: what is on disk while a process  *)
(* is at each program point.                                               *)
(***************************************************************************)
EXTENDS HomeControl, TLAPS

\* What acquire, transferToLauncher and acceptHandoff write has the form of a record.
LEMMA RecordTypes ==
  /\ Missing \in OwnerRecord
  /\ Torn \in OwnerRecord
  /\ \A p \in Proc, n \in Nat : Legacy(p, n) \in OwnerRecord
  /\ \A p, q \in Proc, n \in Nat : Handoff(q, n, PidOf[p]) \in OwnerRecord
  BY PidAssumption DEF OwnerRecord, Missing, Torn, Blank, Legacy, Handoff

\* Every step of every process keeps the types.
LEMMA TypePreserved == ASSUME TypeOK, HasChild, Next PROVE TypeOK'
<1> USE DEF TypeOK, Goto, memory, disk, State, Acquiring, Reclaiming, Owning, Leaving,
            Launching, Accepting, Releasing
<1>0. PICK p \in Proc : \/ Boot(p) \/ Die(p) \/ AcquireStep(p) \/ ReleaseStep(p)
                        \/ ReclaimStep(p) \/ TransferStep(p) \/ LaunchStep(p) \/ AcceptStep(p)
  BY DEF Next
<1>1. CASE Boot(p) \/ Die(p) \/ Exit(p) \/ Refuse(p)
  <2>1. CASE Boot(p)  BY <2>1 DEF Boot
  <2>2. CASE Die(p)  BY <2>2, RecordTypes DEF Die
  <2> QED BY <1>1, <2>1, <2>2 DEF Exit, Refuse
<1>2. CASE AcqWrite(p) \/ AcceptWrite(p)
  <2>1. nonces' \in Nat  BY <1>2 DEF AcqWrite, AcceptWrite, DrawNonce
  <2>2. rec' = Legacy(p, nonces')  BY <1>2 DEF AcqWrite, AcceptWrite
  <2>3. rec' \in OwnerRecord  BY <2>1, <2>2, RecordTypes
  <2> QED BY <1>2, <2>1, <2>3 DEF AcqWrite, AcceptWrite
<1>3. CASE AcquireStep(p) /\ ~AcqWrite(p)
  <2>1. CASE AcqStart(p)  BY <2>1, RecordTypes DEF AcqStart
  <2>2. CASE AcqLook(p)  BY <2>2, RecordTypes DEF AcqLook
  <2>3. CASE AcqMkdir(p)  BY <2>3, RecordTypes DEF AcqMkdir
  <2>4. CASE AcqCheck(p)  BY <2>4, RecordTypes DEF AcqCheck
  <2>5. CASE AcqCreate(p)  BY <2>5, RecordTypes DEF AcqCreate
  <2>6. CASE AcqFail(p)  BY <2>6, RecordTypes DEF AcqFail
  <2>7. CASE Publish(p)  BY <2>7, RecordTypes DEF Publish
  <2> QED BY <1>3, <2>1, <2>2, <2>3, <2>4, <2>5, <2>6, <2>7 DEF AcquireStep
<1>4. CASE ReleaseStep(p)
  <2>1. CASE RelCheck(p)  BY <2>1, RecordTypes DEF RelCheck
  <2>2. CASE RelEndpoint(p)  BY <2>2, RecordTypes DEF RelEndpoint
  <2>3. CASE RelUnlink(p)  BY <2>3, RecordTypes DEF RelUnlink
  <2>4. CASE RelRmdir(p)  BY <2>4, RecordTypes DEF RelRmdir
  <2>5. CASE RelFail(p)  BY <2>5, RecordTypes DEF RelFail
  <2> QED BY <1>4, <2>1, <2>2, <2>3, <2>4, <2>5 DEF ReleaseStep
<1>5. CASE ReclaimStep(p)
  <2>1. CASE Observe(p)  BY <2>1, RecordTypes DEF Observe
  <2>2. CASE RecLook(p)  BY <2>2, RecordTypes DEF RecLook
  <2>3. CASE RecMkdir(p)  BY <2>3, RecordTypes DEF RecMkdir
  <2>4. CASE RecRead(p)  BY <2>4, RecordTypes DEF RecRead
  <2>5. CASE RecEndpoint(p)  BY <2>5, RecordTypes DEF RecEndpoint
  <2>6. CASE RecUnlink(p)  BY <2>6, RecordTypes DEF RecUnlink
  <2>7. CASE RecRmdir(p)  BY <2>7, RecordTypes DEF RecRmdir
  <2>8. CASE RecFail(p)  BY <2>8, RecordTypes DEF RecFail
  <2>9. CASE RecDrop(p)  BY <2>9, RecordTypes DEF RecDrop
  <2> QED BY <1>5, <2>1, <2>2, <2>3, <2>4, <2>5, <2>6, <2>7, <2>8, <2>9 DEF ReclaimStep
<1>6. CASE XferWrite(p)
  <2>1. nonces' \in Nat  BY <1>6 DEF XferWrite, DrawNonce
  <2>2. child[p] \in Proc  BY <1>6 DEF XferWrite, HasChild
  <2>3. rec' = Handoff(child[p], nonces', PidOf[p])  BY <1>6 DEF XferWrite
  <2>4. rec' \in OwnerRecord  BY <2>1, <2>2, <2>3, RecordTypes
  <2> QED BY <1>6, <2>1, <2>4 DEF XferWrite
<1>7. CASE TransferStep(p) /\ ~XferWrite(p) /\ ~Exit(p)
  <2>1. CASE SendCommit(p)
    <3>1. child[p] \in Proc /\ token[p] \in Nat  BY <2>1 DEF SendCommit, HasChild
    <3>2. pc' \in [Proc -> State]  BY <2>1, <3>1 DEF SendCommit
    <3>3. token' \in [Proc -> Nat]  BY <2>1, <3>1 DEF SendCommit
    <3> QED BY <2>1, <3>2, <3>3 DEF SendCommit
  <2>2. CASE \E q \in Proc : SpawnLauncher(p, q)
    BY <2>2 DEF SpawnLauncher
  <2> QED BY <1>7, <2>1, <2>2 DEF TransferStep, HandoffStart, XferCheck, HandoffFail, CommitFail
<1>8. CASE LaunchStep(p)
  <2>1. CASE LauncherAck(p)  BY <2>1 DEF LauncherAck
  <2>2. CASE \E r \in Proc : SpawnTarget(p, r)  BY <2>2 DEF SpawnTarget
  <2>3. CASE AuthWrite(p)
    <3>1. PidOf[child[p]] \in Pid  BY <2>3, PidAssumption DEF AuthWrite, HasChild
    <3>2. rec' \in OwnerRecord  BY <2>3, <3>1 DEF AuthWrite, OwnerRecord
    <3> QED BY <2>3, <3>2 DEF AuthWrite
  <2>4. CASE SendToken(p)
    <3>1. child[p] \in Proc /\ token[p] \in Nat  BY <2>4 DEF SendToken, HasChild
    <3>2. pc' \in [Proc -> State]  BY <2>4, <3>1 DEF SendToken
    <3>3. token' \in [Proc -> Nat]  BY <2>4, <3>1 DEF SendToken
    <3> QED BY <2>4, <3>2, <3>3 DEF SendToken
  <2>5. CASE Reserve(p) \/ WaitForOldGone(p) \/ AuthCheck(p)
    BY <2>5 DEF Reserve, WaitForOldGone, AuthCheck
  <2> QED BY <1>8, <2>1, <2>2, <2>3, <2>4, <2>5 DEF LaunchStep
<1>9. CASE AcceptCheck(p)  BY <1>9 DEF AcceptCheck
<1> QED BY <1>0, <1>1, <1>2, <1>3, <1>4, <1>5, <1>6, <1>7, <1>8, <1>9
       DEF AcceptStep, AcquireStep, TransferStep

\* Booting takes a free pid and dying removes a process: neither disturbs the disk.
LEMMA LifePreserves == ASSUME IInv, TypeOK', NEW p \in Proc, Boot(p) \/ Die(p) PROVE IInv'
<1> USE PidAssumption DEF IInv, TypeOK, PidsDistinct, OwnRecord, OneMaker, OneReclaimer,
      EndpointGone, HasChild, EndpointNamesOwner,
      State, Owning, Leaving, Launching, Accepting, Releasing, Acquiring, Reclaiming,
      GuardHolding, Alive, PidAlive, Goto, memory, disk, Missing, Torn, Blank, OwnerRecord
<1>1. ASSUME Boot(p) PROVE IInv'
  BY <1>1 DEF Boot, Fresh
<1>2. ASSUME Die(p) PROVE IInv'
  BY <1>2, SMTT(30) DEF Die
<1> QED BY <1>1, <1>2

\* acquire: only the maker of the run directory writes into it.
LEMMA AcquirePreserves == ASSUME IInv, TypeOK', NEW p \in Proc, AcquireStep(p) PROVE IInv'
<1> USE PidAssumption DEF IInv, TypeOK, PidsDistinct, OwnRecord, OneMaker, OneReclaimer,
      EndpointGone, HasChild, EndpointNamesOwner,
      State, Owning, Leaving, Launching, Accepting, Releasing, Acquiring, Reclaiming,
      GuardHolding, Alive, PidAlive, Goto, memory, disk, Missing, Torn, Blank, OwnerRecord
<1>1. ASSUME AcqStart(p) PROVE IInv'
  BY <1>1 DEF AcqStart
<1>2. ASSUME AcqLook(p) PROVE IInv'
  BY <1>2 DEF AcqLook, Occupied
<1>3. ASSUME AcqMkdir(p) PROVE IInv'
  BY <1>3 DEF AcqMkdir
<1>4. ASSUME AcqCheck(p) PROVE IInv'
  <2>1. PidsDistinct'  BY <1>4 DEF AcqCheck
  <2>2. OwnRecord'  BY <1>4 DEF AcqCheck
  <2>3. OneMaker'  BY <1>4 DEF AcqCheck
  <2>4. OneReclaimer'  BY <1>4 DEF AcqCheck
  <2>5. EndpointGone'  BY <1>4 DEF AcqCheck
  <2>6. HasChild'  BY <1>4 DEF AcqCheck
  <2>7. EndpointNamesOwner'  BY <1>4 DEF AcqCheck
  <2> QED BY <2>1, <2>2, <2>3, <2>4, <2>5, <2>6, <2>7
<1>5. ASSUME AcqCreate(p) PROVE IInv'
  <2>1. PidsDistinct'  BY <1>5 DEF AcqCreate
  <2>2. OwnRecord'  BY <1>5 DEF AcqCreate
  <2>3. OneMaker'  BY <1>5 DEF AcqCreate
  <2>4. OneReclaimer'  BY <1>5 DEF AcqCreate
  <2>5. EndpointGone'  BY <1>5 DEF AcqCreate
  <2>6. HasChild'  BY <1>5 DEF AcqCreate
  <2>7. EndpointNamesOwner'  BY <1>5 DEF AcqCreate
  <2> QED BY <2>1, <2>2, <2>3, <2>4, <2>5, <2>6, <2>7
<1>6. ASSUME AcqWrite(p) PROVE IInv'
  <2>1. PidsDistinct'  BY <1>6 DEF AcqWrite, DrawNonce, Legacy
  <2>2. OwnRecord'  BY <1>6 DEF AcqWrite, DrawNonce, Legacy
  <2>3. OneMaker'  BY <1>6 DEF AcqWrite, DrawNonce, Legacy
  <2>4. OneReclaimer'  BY <1>6, SMTT(30) DEF AcqWrite, DrawNonce, Legacy
  <2>5. EndpointGone'  BY <1>6 DEF AcqWrite, DrawNonce, Legacy
  <2>6. HasChild'  BY <1>6 DEF AcqWrite, DrawNonce, Legacy
  <2>7. EndpointNamesOwner'  BY <1>6 DEF AcqWrite, DrawNonce, Legacy
  <2> QED BY <2>1, <2>2, <2>3, <2>4, <2>5, <2>6, <2>7
<1>7. ASSUME AcqFail(p) PROVE IInv'
  BY <1>7 DEF AcqFail
<1>8. ASSUME Publish(p) PROVE IInv'
  <2>1. PidsDistinct'  BY <1>8 DEF Publish
  <2>2. OwnRecord'  BY <1>8 DEF Publish
  <2>3. OneMaker'  BY <1>8 DEF Publish
  <2>4. OneReclaimer'  BY <1>8 DEF Publish
  <2>5. EndpointGone'
    <3>1. \A q \in Proc : pc'[q] \in {"relUnlink", "hoSpawn", "xferCheck", "xferWrite", "recUnlink"} => q # p /\ pc'[q] = pc[q]
      BY <1>8 DEF Publish
    <3>2. \A q \in Proc : q # p => pc[q] \notin {"relUnlink", "hoSpawn", "xferCheck", "xferWrite", "recUnlink"}
      BY <1>8 DEF Publish
    <3> QED BY <3>1, <3>2
  <2>6. HasChild'  BY <1>8 DEF Publish
  <2>7. EndpointNamesOwner'  BY <1>8 DEF Publish
  <2> QED BY <2>1, <2>2, <2>3, <2>4, <2>5, <2>6, <2>7
<1> QED BY <1>1, <1>2, <1>3, <1>4, <1>5, <1>6, <1>7, <1>8 DEF AcquireStep

\* release: the owner takes its record away before the directory.
LEMMA ReleasePreserves == ASSUME IInv, TypeOK', NEW p \in Proc, ReleaseStep(p) PROVE IInv'
<1> USE PidAssumption DEF IInv, TypeOK, PidsDistinct, OwnRecord, OneMaker, OneReclaimer,
      EndpointGone, HasChild, EndpointNamesOwner,
      State, Owning, Leaving, Launching, Accepting, Releasing, Acquiring, Reclaiming,
      GuardHolding, Alive, PidAlive, Goto, memory, disk, Missing, Torn, Blank, OwnerRecord
<1>1. ASSUME RelCheck(p) PROVE IInv'
  BY <1>1 DEF RelCheck, OwnsRecord
<1>2. ASSUME RelEndpoint(p) PROVE IInv'
  BY <1>2 DEF RelEndpoint
<1>3. ASSUME RelUnlink(p) PROVE IInv'
  <2>1. PidsDistinct'  BY <1>3 DEF RelUnlink
  <2>2. OwnRecord'  BY <1>3, SMTT(30) DEF RelUnlink
  <2>3. OneMaker'  BY <1>3 DEF RelUnlink
  <2>4. OneReclaimer'  BY <1>3 DEF RelUnlink
  <2>5. EndpointGone'  BY <1>3 DEF RelUnlink
  <2>6. HasChild'  BY <1>3 DEF RelUnlink
  <2>7. EndpointNamesOwner'  BY <1>3 DEF RelUnlink
  <2> QED BY <2>1, <2>2, <2>3, <2>4, <2>5, <2>6, <2>7
<1>4. ASSUME RelRmdir(p) PROVE IInv'
  <2>1. PidsDistinct'  BY <1>4 DEF RelRmdir
  <2>2. OwnRecord'  BY <1>4 DEF RelRmdir
  <2>3. OneMaker'  BY <1>4 DEF RelRmdir
  <2>4. OneReclaimer'  BY <1>4 DEF RelRmdir
  <2>5. EndpointGone'  BY <1>4 DEF RelRmdir
  <2>6. HasChild'  BY <1>4 DEF RelRmdir
  <2>7. EndpointNamesOwner'  BY <1>4 DEF RelRmdir
  <2> QED BY <2>1, <2>2, <2>3, <2>4, <2>5, <2>6, <2>7
<1>5. ASSUME RelFail(p) PROVE IInv'
  <2>1. PidsDistinct'  BY <1>5, SMTT(30) DEF RelFail
  <2>2. OwnRecord'  BY <1>5 DEF RelFail
  <2>3. OneMaker'  BY <1>5 DEF RelFail
  <2>4. OneReclaimer'  BY <1>5 DEF RelFail
  <2>5. EndpointGone'  BY <1>5 DEF RelFail
  <2>6. HasChild'  BY <1>5 DEF RelFail
  <2>7. EndpointNamesOwner'  BY <1>5 DEF RelFail
  <2> QED BY <2>1, <2>2, <2>3, <2>4, <2>5, <2>6, <2>7
<1> QED BY <1>1, <1>2, <1>3, <1>4, <1>5 DEF ReleaseStep

\* The second read under the guard is what makes a removal safe: the record
\* is still the one observed and no live process owns it.
LEMMA RecReadKeepsOne ==
  ASSUME TypeOK, OwnRecord, OneReclaimer, NEW p \in Proc, RecRead(p) PROVE OneReclaimer'
<1>1. pc' \in [Proc -> State]
  BY DEF RecRead, Goto, TypeOK, State, Reclaiming
<1>2. /\ pc[p] = "recRead" /\ pc'[p] \in {"recEndpoint", "recDrop"}
      /\ \A q \in Proc : q # p => pc'[q] = pc[q]
      /\ seen' = seen /\ rec' = rec /\ guard' = guard
  BY DEF RecRead, Goto, memory, disk, TypeOK
<1>3. ASSUME pc'[p] = "recEndpoint"
      PROVE  rec = seen[p] /\ ~PidAlive(rec.pid)
  BY <1>3 DEF RecRead, StillRetirable, Retirable, Goto, TypeOK
<1>4. ASSUME ~PidAlive(rec.pid), NEW q \in Proc PROVE pc[q] \notin Owning
  BY <1>4 DEF PidAlive, OwnRecord, Alive, Owning
<1>5. \A q \in Proc : pc'[q] \in Owning => pc[q] \in Owning
  BY <1>2 DEF Owning
<1>6. \A q \in Proc : pc'[q] \in GuardHolding => pc[q] \in GuardHolding
  BY <1>2 DEF GuardHolding
<1>7. \A q \in Proc : q # p => pc[q] \notin {"recEndpoint", "recUnlink"}
  BY <1>2 DEF GuardHolding, OneReclaimer
<1>8. \A q \in Proc : pc'[q] \in {"recEndpoint", "recUnlink"}
                        => rec = seen[q] /\ \A r \in Proc : pc'[r] \notin Owning
  BY <1>2, <1>3, <1>4, <1>5, <1>7
<1>9. \A q \in Proc : pc'[q] \in Reclaiming \ {"recRmdir", "recDrop"} => seen[q].kind = "owner"
  BY <1>2 DEF OneReclaimer, Reclaiming
<1> QED BY <1>2, <1>6, <1>8, <1>9 DEF OneReclaimer

\* reclaimDead: what it removes is the record of a dead owner.
LEMMA ReclaimPreserves == ASSUME IInv, TypeOK', NEW p \in Proc, ReclaimStep(p) PROVE IInv'
<1> USE PidAssumption DEF IInv, TypeOK, PidsDistinct, OwnRecord, OneMaker, OneReclaimer,
      EndpointGone, HasChild, EndpointNamesOwner,
      State, Owning, Leaving, Launching, Accepting, Releasing, Acquiring, Reclaiming,
      GuardHolding, Alive, PidAlive, Goto, memory, disk, Missing, Torn, Blank, OwnerRecord
<1>1. ASSUME Observe(p) PROVE IInv'
  BY <1>1 DEF Observe
<1>2. ASSUME RecLook(p) PROVE IInv'
  BY <1>2 DEF RecLook, Retirable
<1>3. ASSUME RecMkdir(p) PROVE IInv'
  BY <1>3 DEF RecMkdir, GuardTaken
<1>4. ASSUME RecRead(p) PROVE IInv'
  <2>1. PidsDistinct'  BY <1>4 DEF RecRead, StillRetirable, Retirable
  <2>2. OwnRecord'  BY <1>4 DEF RecRead, StillRetirable, Retirable
  <2>3. OneMaker'  BY <1>4 DEF RecRead, StillRetirable, Retirable
  <2>4. OneReclaimer'  BY <1>4, RecReadKeepsOne
  <2>5. EndpointGone'  BY <1>4 DEF RecRead, StillRetirable, Retirable
  <2>6. HasChild'  BY <1>4 DEF RecRead, StillRetirable, Retirable
  <2>7. EndpointNamesOwner'  BY <1>4 DEF RecRead, StillRetirable, Retirable
  <2> QED BY <2>1, <2>2, <2>3, <2>4, <2>5, <2>6, <2>7
<1>5. ASSUME RecEndpoint(p) PROVE IInv'
  BY <1>5 DEF RecEndpoint
<1>6. ASSUME RecUnlink(p) PROVE IInv'
  <2>1. PidsDistinct'  BY <1>6 DEF RecUnlink
  <2>2. OwnRecord'  BY <1>6 DEF RecUnlink
  <2>3. OneMaker'  BY <1>6 DEF RecUnlink
  <2>4. OneReclaimer'  BY <1>6 DEF RecUnlink
  <2>5. EndpointGone'  BY <1>6 DEF RecUnlink
  <2>6. HasChild'  BY <1>6 DEF RecUnlink
  <2>7. EndpointNamesOwner'  BY <1>6 DEF RecUnlink
  <2> QED BY <2>1, <2>2, <2>3, <2>4, <2>5, <2>6, <2>7
<1>7. ASSUME RecRmdir(p) PROVE IInv'
  <2>1. PidsDistinct'  BY <1>7 DEF RecRmdir
  <2>2. OwnRecord'  BY <1>7 DEF RecRmdir
  <2>3. OneMaker'  BY <1>7 DEF RecRmdir
  <2>4. OneReclaimer'  BY <1>7 DEF RecRmdir
  <2>5. EndpointGone'  BY <1>7 DEF RecRmdir
  <2>6. HasChild'  BY <1>7 DEF RecRmdir
  <2>7. EndpointNamesOwner'  BY <1>7 DEF RecRmdir
  <2> QED BY <2>1, <2>2, <2>3, <2>4, <2>5, <2>6, <2>7
<1>8. ASSUME RecFail(p) PROVE IInv'
  BY <1>8 DEF RecFail
<1>9. ASSUME RecDrop(p) PROVE IInv'
  <2>1. /\ pc[p] = "recDrop" /\ pc'[p] \in {"idle", "dropFailed"} /\ pc' \in [Proc -> State]
        /\ \A q \in Proc : q # p => pc'[q] = pc[q]
    BY <1>9 DEF RecDrop
  <2>2. \A q \in Proc : pc'[q] \notin GuardHolding
    <3>1. \A q \in Proc : pc[q] \in GuardHolding => q = p
      BY <2>1
    <3>2. pc'[p] \notin GuardHolding
      BY <2>1
    <3> QED BY <2>1, <3>1, <3>2, Zenon
  <2>3. UNCHANGED <<handle, token, child, runDir, rec, endpoint>> /\ \A q \in Proc : q # p => seen'[q] = seen[q]
    BY <1>9 DEF RecDrop
  <2>4. PidsDistinct'
    <3>1. \A q \in Proc : Alive(q)' <=> Alive(q)
      BY <2>1
    <3> QED BY <3>1
  <2>5. OwnRecord'  BY <2>1, <2>3
  <2>6. OneMaker'
    <3>1. \A q \in Proc : pc'[q] \in {"acqCheck", "acqCreate", "acqWrite", "recRmdir"} \cup Releasing => pc'[q] = pc[q]
      BY <2>1
    <3> QED BY <2>1, <2>3, <3>1
  <2>7. OneReclaimer'  BY <2>1, <2>2, <2>3
  <2>8. EndpointGone'  BY <2>1, <2>3
  <2>9. HasChild'  BY <2>1, <2>3
  <2>10. EndpointNamesOwner'  BY <2>3
  <2> QED BY <2>4, <2>5, <2>6, <2>7, <2>8, <2>9, <2>10
<1> QED BY <1>1, <1>2, <1>3, <1>4, <1>5, <1>6, <1>7, <1>8, <1>9 DEF ReclaimStep

\* The old owner's half of the handoff.
LEMMA TransferPreserves == ASSUME IInv, TypeOK', NEW p \in Proc, TransferStep(p) PROVE IInv'
<1> USE PidAssumption DEF IInv, TypeOK, PidsDistinct, OwnRecord, OneMaker, OneReclaimer,
      EndpointGone, HasChild, EndpointNamesOwner,
      State, Owning, Leaving, Launching, Accepting, Releasing, Acquiring, Reclaiming,
      GuardHolding, Alive, PidAlive, Goto, memory, disk, Missing, Torn, Blank, OwnerRecord
<1>1. ASSUME HandoffStart(p) PROVE IInv'
  BY <1>1 DEF HandoffStart
<1>2. ASSUME NEW q \in Proc, SpawnLauncher(p, q) PROVE IInv'
  <2>1. PidsDistinct'  BY <1>2, SMTT(30) DEF SpawnLauncher, Fresh
  <2>2. OwnRecord'  BY <1>2 DEF SpawnLauncher, Fresh
  <2>3. OneMaker'  BY <1>2 DEF SpawnLauncher, Fresh
  <2>4. OneReclaimer'  BY <1>2 DEF SpawnLauncher, Fresh
  <2>5. EndpointGone'  BY <1>2 DEF SpawnLauncher, Fresh
  <2>6. HasChild'  BY <1>2 DEF SpawnLauncher, Fresh
  <2>7. EndpointNamesOwner'  BY <1>2 DEF SpawnLauncher, Fresh
  <2> QED BY <2>1, <2>2, <2>3, <2>4, <2>5, <2>6, <2>7
<1>3. ASSUME XferCheck(p) PROVE IInv'
  BY <1>3 DEF XferCheck, OwnsRecord
<1>4. ASSUME XferWrite(p) PROVE IInv'
  <2>1. PidsDistinct'  BY <1>4 DEF XferWrite, DrawNonce, Handoff
  <2>2. OwnRecord'
    <3>1. rec'.kind = "launcher" /\ rec'.old = PidOf[p]  BY <1>4 DEF XferWrite, Handoff
    <3>2. rec.kind = "owner" /\ rec.pid = PidOf[p]  BY <1>4 DEF XferWrite
    <3>3. \A q \in Proc : q # p => /\ pc'[q] = pc[q]
                                    /\ pc[q] \notin Owning
                                    /\ pc[q] \notin Leaving
                                    /\ pc[q] \notin {"waitOld", "select", "authCheck", "authWrite", "acceptWrite"}
      BY <1>4, <3>2, SMTT(30) DEF XferWrite
    <3>4. pc'[p] = "transferred"  BY <1>4 DEF XferWrite
    <3> QED BY <3>1, <3>3, <3>4
  <2>3. OneMaker'  BY <1>4 DEF XferWrite, DrawNonce, Handoff
  <2>4. OneReclaimer'  BY <1>4 DEF XferWrite, DrawNonce, Handoff
  <2>5. EndpointGone'  BY <1>4 DEF XferWrite, DrawNonce, Handoff
  <2>6. HasChild'  BY <1>4 DEF XferWrite, DrawNonce, Handoff
  <2>7. EndpointNamesOwner'  BY <1>4 DEF XferWrite, DrawNonce, Handoff
  <2> QED BY <2>1, <2>2, <2>3, <2>4, <2>5, <2>6, <2>7
<1>5. ASSUME HandoffFail(p) PROVE IInv'
  BY <1>5 DEF HandoffFail
<1>6. ASSUME SendCommit(p) PROVE IInv'
  <2>1. PidsDistinct'  BY <1>6 DEF SendCommit
  <2>2. OwnRecord'  BY <1>6 DEF SendCommit
  <2>3. OneMaker'  BY <1>6 DEF SendCommit
  <2>4. OneReclaimer'  BY <1>6 DEF SendCommit
  <2>5. EndpointGone'  BY <1>6 DEF SendCommit
  <2>6. HasChild'  BY <1>6 DEF SendCommit
  <2>7. EndpointNamesOwner'  BY <1>6 DEF SendCommit
  <2> QED BY <2>1, <2>2, <2>3, <2>4, <2>5, <2>6, <2>7
<1>7. ASSUME CommitFail(p) PROVE IInv'
  BY <1>7 DEF CommitFail
<1>8. ASSUME Exit(p) PROVE IInv'
  BY <1>8 DEF Exit, Die
<1> QED BY <1>1, <1>2, <1>3, <1>4, <1>5, <1>6, <1>7, <1>8 DEF TransferStep

\* The launcher's half of the handoff: it writes after the old owner is gone.
LEMMA LaunchPreserves == ASSUME IInv, TypeOK', NEW p \in Proc, LaunchStep(p) PROVE IInv'
<1> USE PidAssumption DEF IInv, TypeOK, PidsDistinct, OwnRecord, OneMaker, OneReclaimer,
      EndpointGone, HasChild, EndpointNamesOwner,
      State, Owning, Leaving, Launching, Accepting, Releasing, Acquiring, Reclaiming,
      GuardHolding, Alive, PidAlive, Goto, memory, disk, Missing, Torn, Blank, OwnerRecord
<1>1. ASSUME LauncherAck(p) PROVE IInv'
  BY <1>1 DEF LauncherAck
<1>2. ASSUME Reserve(p) PROVE IInv'
  BY <1>2 DEF Reserve, HasReservation
<1>3. ASSUME WaitForOldGone(p) PROVE IInv'
  <2>1. PidsDistinct'  BY <1>3 DEF WaitForOldGone, OldIsGone
  <2>2. OwnRecord'  BY <1>3 DEF WaitForOldGone, OldIsGone
  <2>3. OneMaker'  BY <1>3 DEF WaitForOldGone, OldIsGone
  <2>4. OneReclaimer'  BY <1>3 DEF WaitForOldGone, OldIsGone
  <2>5. EndpointGone'  BY <1>3 DEF WaitForOldGone, OldIsGone
  <2>6. HasChild'  BY <1>3 DEF WaitForOldGone, OldIsGone
  <2>7. EndpointNamesOwner'  BY <1>3 DEF WaitForOldGone, OldIsGone
  <2> QED BY <2>1, <2>2, <2>3, <2>4, <2>5, <2>6, <2>7
<1>4. ASSUME NEW q \in Proc, SpawnTarget(p, q) PROVE IInv'
  <2>1. PidsDistinct'  BY <1>4 DEF SpawnTarget, Fresh
  <2>2. OwnRecord'  BY <1>4 DEF SpawnTarget, Fresh
  <2>3. OneMaker'  BY <1>4 DEF SpawnTarget, Fresh
  <2>4. OneReclaimer'  BY <1>4 DEF SpawnTarget, Fresh
  <2>5. EndpointGone'  BY <1>4 DEF SpawnTarget, Fresh
  <2>6. HasChild'  BY <1>4 DEF SpawnTarget, Fresh
  <2>7. EndpointNamesOwner'  BY <1>4 DEF SpawnTarget, Fresh
  <2> QED BY <2>1, <2>2, <2>3, <2>4, <2>5, <2>6, <2>7
<1>5. ASSUME AuthCheck(p) PROVE IInv'
  BY <1>5 DEF AuthCheck, HasReservation
<1>6. ASSUME AuthWrite(p) PROVE IInv'
  <2>1. PidsDistinct'  BY <1>6 DEF AuthWrite
  <2>2. OwnRecord'  BY <1>6, SMTT(30) DEF AuthWrite
  <2>3. OneMaker'  BY <1>6 DEF AuthWrite
  <2>4. OneReclaimer'  BY <1>6 DEF AuthWrite
  <2>5. EndpointGone'  BY <1>6 DEF AuthWrite
  <2>6. HasChild'  BY <1>6 DEF AuthWrite
  <2>7. EndpointNamesOwner'  BY <1>6 DEF AuthWrite
  <2> QED BY <2>1, <2>2, <2>3, <2>4, <2>5, <2>6, <2>7
<1>7. ASSUME SendToken(p) PROVE IInv'
  <2>1. PidsDistinct'  BY <1>7, SMTT(30) DEF SendToken
  <2>2. OwnRecord'  BY <1>7 DEF SendToken
  <2>3. OneMaker'  BY <1>7 DEF SendToken
  <2>4. OneReclaimer'  BY <1>7 DEF SendToken
  <2>5. EndpointGone'  BY <1>7 DEF SendToken
  <2>6. HasChild'  BY <1>7 DEF SendToken
  <2>7. EndpointNamesOwner'  BY <1>7 DEF SendToken
  <2> QED BY <2>1, <2>2, <2>3, <2>4, <2>5, <2>6, <2>7
<1> QED BY <1>1, <1>2, <1>3, <1>4, <1>5, <1>6, <1>7 DEF LaunchStep

\* The target's half of the handoff.
LEMMA AcceptPreserves == ASSUME IInv, TypeOK', NEW p \in Proc, AcceptStep(p) PROVE IInv'
<1> USE PidAssumption DEF IInv, TypeOK, PidsDistinct, OwnRecord, OneMaker, OneReclaimer,
      EndpointGone, HasChild, EndpointNamesOwner,
      State, Owning, Leaving, Launching, Accepting, Releasing, Acquiring, Reclaiming,
      GuardHolding, Alive, PidAlive, Goto, memory, disk, Missing, Torn, Blank, OwnerRecord
<1>1. ASSUME AcceptCheck(p) PROVE IInv'
  BY <1>1 DEF AcceptCheck, AuthorizedFor
<1>2. ASSUME AcceptWrite(p) PROVE IInv'
  <2>1. PidsDistinct'  BY <1>2 DEF AcceptWrite, DrawNonce, Legacy
  <2>2. OwnRecord'  BY <1>2 DEF AcceptWrite, DrawNonce, Legacy
  <2>3. OneMaker'  BY <1>2 DEF AcceptWrite, DrawNonce, Legacy
  <2>4. OneReclaimer'  BY <1>2, SMTT(30) DEF AcceptWrite, DrawNonce, Legacy
  <2>5. EndpointGone'  BY <1>2 DEF AcceptWrite, DrawNonce, Legacy
  <2>6. HasChild'  BY <1>2 DEF AcceptWrite, DrawNonce, Legacy
  <2>7. EndpointNamesOwner'  BY <1>2 DEF AcceptWrite, DrawNonce, Legacy
  <2> QED BY <2>1, <2>2, <2>3, <2>4, <2>5, <2>6, <2>7
<1>3. ASSUME Refuse(p) PROVE IInv'
  BY <1>3 DEF Refuse, Die
<1> QED BY <1>1, <1>2, <1>3 DEF AcceptStep

\* An empty Home with no process satisfies the invariant.
LEMMA InvInit == Init => IInv
<1> SUFFICES ASSUME Init PROVE IInv OBVIOUS
<1> USE DEF Init
<1>1. TypeOK
  BY RecordTypes DEF TypeOK, State
<1>2. \A p \in Proc : pc[p] = "off"
  OBVIOUS
<1>3. PidsDistinct /\ OwnRecord /\ OneMaker /\ OneReclaimer /\ EndpointGone /\ HasChild /\ EndpointNamesOwner
  BY <1>2 DEF PidsDistinct, OwnRecord, OneMaker, OneReclaimer, EndpointGone, HasChild, EndpointNamesOwner,
     Alive, Owning, Leaving, Releasing, GuardHolding, Reclaiming
<1> QED BY <1>1, <1>3 DEF IInv

\* The invariant is inductive.
LEMMA InvStep == IInv /\ [Next]_vars => IInv'
<1> SUFFICES ASSUME IInv, [Next]_vars PROVE IInv' OBVIOUS
<1>1. CASE UNCHANGED vars
  BY <1>1 DEF vars, IInv, TypeOK, PidsDistinct, OwnRecord, OneMaker, OneReclaimer, EndpointGone,
     HasChild, EndpointNamesOwner, Alive
<1>2. CASE Next
  <2>1. TypeOK'
    BY <1>2, TypePreserved DEF IInv
  <2> QED
    BY <1>2, <2>1, LifePreserves, AcquirePreserves, ReleasePreserves, ReclaimPreserves,
       TransferPreserves, LaunchPreserves, AcceptPreserves DEF Next
<1> QED BY <1>1, <1>2

\* The inductive invariant holds in every reachable state.
THEOREM Invariance == Spec => []IInv
BY InvInit, InvStep, PTL DEF Spec

\* Every variable keeps its type: records are well formed and a child is a process.
THEOREM Typing == Spec => []TypeOK
<1>1. IInv => TypeOK  BY DEF IInv
<1> QED BY <1>1, Invariance, PTL

\* Two writers would each find the single record to be their own, or be at
\* work on one run directory.
LEMMA InvExcludes == IInv => MutualExclusion
<1> SUFFICES ASSUME IInv, NEW p \in Writers, NEW q \in Writers PROVE p = q
  BY DEF MutualExclusion
<1> USE DEF IInv, Writers, Writing
<1>1. p \in Proc /\ q \in Proc /\ Alive(p) /\ Alive(q)
  BY DEF Alive, Owning, Releasing, Leaving
<1>2. CASE pc[p] \in Releasing /\ pc[q] \in Releasing
  BY <1>1, <1>2 DEF OneMaker
<1>3. CASE pc[p] \notin Releasing /\ pc[q] \notin Releasing
  BY <1>1, <1>3 DEF OwnRecord, PidsDistinct
<1>4. ASSUME NEW r \in Proc, pc[r] \in Releasing PROVE rec.kind = "missing"
  BY <1>4 DEF OneMaker, Missing, Blank
<1>5. ASSUME NEW r \in Proc, pc[r] \in Writing, pc[r] \notin Releasing
      PROVE rec.kind # "missing"
  BY <1>5 DEF OwnRecord
<1> QED BY <1>1, <1>2, <1>3, <1>4, <1>5

\* At most one live process has the run rights of the Home and writes, for any
\* number of processes crashing anywhere, reclaims racing each other and handoffs.
THEOREM Exclusion == Spec => []MutualExclusion
BY Invariance, InvExcludes, PTL

\* The endpoint file always belongs to the owner on disk (writeEndpointFile,
\* removeEndpointFile, beforeRelease of reclaimDead).
THEOREM EndpointIsCurrent == Spec => []EndpointNamesOwner
<1>1. IInv => EndpointNamesOwner  BY DEF IInv
<1> QED BY <1>1, Invariance, PTL

\* A step of one process never makes another a writer nor ends its writing.
LEMMA OnlySelf ==
  ASSUME TypeOK, HasChild, NEW p \in Proc,
         \/ Boot(p) \/ Die(p) \/ AcquireStep(p) \/ ReleaseStep(p)
         \/ ReclaimStep(p) \/ TransferStep(p) \/ LaunchStep(p) \/ AcceptStep(p)
  PROVE  \A q \in Proc \ {p} : pc'[q] \in Writing <=> pc[q] \in Writing
<1> USE DEF Goto, TypeOK
<1>1. CASE \E s \in STRING : Goto(p, s)
  BY <1>1
<1>2. CASE \E q \in Proc : SpawnLauncher(p, q) \/ SpawnTarget(p, q)
  BY <1>2 DEF SpawnLauncher, SpawnTarget, Fresh, Writing, Owning, Releasing, Leaving
<1>3. CASE SendCommit(p) \/ SendToken(p)
  BY <1>3 DEF SendCommit, SendToken, Writing, Owning, Releasing, Leaving
<1>4. CASE LauncherAck(p)
  BY <1>4 DEF LauncherAck, Writing, Owning, Releasing, Leaving
<1>5. CASE Boot(p) \/ Die(p) \/ AcquireStep(p) \/ ReleaseStep(p)
  BY <1>1, <1>5 DEF AcquireStep, ReleaseStep, Boot, Die, AcqStart, AcqLook, AcqMkdir, AcqCheck, AcqCreate,
     AcqWrite, AcqFail, Publish, RelCheck, RelEndpoint, RelUnlink, RelRmdir, RelFail
<1>6. CASE ReclaimStep(p) \/ AcceptStep(p)
  BY <1>1, <1>6 DEF ReclaimStep, AcceptStep, Observe, RecLook, RecMkdir, RecRead, RecEndpoint, RecUnlink,
     RecRmdir, RecFail, RecDrop, AcceptCheck, AcceptWrite, Refuse, Die
<1>7. CASE TransferStep(p) \/ LaunchStep(p)
  BY <1>1, <1>2, <1>3, <1>4, <1>7 DEF TransferStep, LaunchStep, HandoffStart, XferCheck, XferWrite,
     HandoffFail, CommitFail, Exit, Die, Reserve, WaitForOldGone, AuthCheck, AuthWrite
<1> QED BY <1>5, <1>6, <1>7

\* HomeController and its callers implement the abstract run right: it is taken
\* only when nobody has it and never passes directly from one process to another.
THEOREM Refinement == Spec => ImplementsRunRights
<1>1. Init => Rights!Init
  BY DEF Init, Rights!Init, Writers, Writing, Owning, Releasing, Leaving
<1>2. ASSUME IInv, IInv', [Next]_vars PROVE [Rights!Next]_Writers
  <2>1. CASE UNCHANGED vars
    BY <2>1 DEF vars, Writers
  <2>2. CASE Next
    <3>1. PICK p \in Proc : \/ Boot(p) \/ Die(p) \/ AcquireStep(p) \/ ReleaseStep(p)
                            \/ ReclaimStep(p) \/ TransferStep(p) \/ LaunchStep(p) \/ AcceptStep(p)
      BY <2>2 DEF Next
    <3>2. \A q \in Proc \ {p} : q \in Writers' <=> q \in Writers
      BY <1>2, <3>1, OnlySelf DEF IInv, Writers
    <3>3. Writers \subseteq Proc /\ Writers' \subseteq Proc
      BY DEF Writers
    <3>4. \A a, b \in Writers : a = b
      BY <1>2, InvExcludes DEF MutualExclusion
    <3>5. MutualExclusion'
      BY <1>2, InvExcludes, PTL
    <3>6. \A a, b \in Writers' : a = b
      BY <3>5 DEF MutualExclusion
    <3>7. CASE p \in Writers /\ p \notin Writers'
      BY <3>2, <3>3, <3>4, <3>7 DEF Rights!Next, Rights!Yield
    <3>8. CASE p \notin Writers /\ p \in Writers'
      BY <3>2, <3>3, <3>6, <3>8 DEF Rights!Next, Rights!Take
    <3>9. CASE p \in Writers <=> p \in Writers'
      BY <3>2, <3>3, <3>9
    <3> QED BY <3>7, <3>8, <3>9
  <2> QED BY <1>2, <2>1, <2>2
<1> QED BY <1>1, <1>2, Invariance, PTL DEF Spec, ImplementsRunRights, Rights!Spec

\* The seven operations that change owner.json.
LEMMA RecordWriters ==
  ASSUME Next, rec' # rec
  PROVE  \E p \in Proc : \/ AcqCreate(p) \/ AcqWrite(p) \/ RelUnlink(p) \/ RecUnlink(p)
                         \/ XferWrite(p) \/ AuthWrite(p) \/ AcceptWrite(p)
BY ZenonT(60) DEF Next, AcquireStep, ReleaseStep, ReclaimStep, TransferStep, LaunchStep, AcceptStep,
   Boot, Die, AcqStart, AcqLook, AcqMkdir, AcqCheck, AcqFail, Publish, RelCheck, RelEndpoint, RelRmdir,
   RelFail, Observe, RecLook, RecMkdir, RecRead, RecEndpoint, RecRmdir, RecFail, RecDrop, HandoffStart,
   SpawnLauncher, XferCheck, HandoffFail, SendCommit, CommitFail, Exit, LauncherAck, Reserve,
   WaitForOldGone, SpawnTarget, AuthCheck, SendToken, AcceptCheck, Refuse, memory, disk

\* release and reclaimDead never remove the record of a live owner other than
\* the releasing process itself.
THEOREM OwnerKeepsRecord == Spec => OnlyOwnerOrDeathRemoves
<1> DEFINE A == rec.kind = "owner" /\ rec' = Missing =>
        \A p \in Proc : pc[p] \in Owning /\ handle[p] = rec.nonce => pc[p] = "relUnlink"
<1>1. ASSUME IInv, Next, rec' # rec PROVE A
  <2>1. PICK p \in Proc : \/ AcqCreate(p) \/ AcqWrite(p) \/ RelUnlink(p) \/ RecUnlink(p)
                          \/ XferWrite(p) \/ AuthWrite(p) \/ AcceptWrite(p)
    BY <1>1, RecordWriters
  <2>2. CASE RelUnlink(p)
    BY <1>1, <2>2 DEF RelUnlink, IInv, OwnRecord, PidsDistinct, Owning, Alive
  <2>3. CASE RecUnlink(p)
    BY <1>1, <2>3 DEF RecUnlink, IInv, OneReclaimer
  <2>4. CASE AcqCreate(p)
    BY <2>4 DEF AcqCreate, Missing, Blank
  <2>5. CASE AcqWrite(p) \/ XferWrite(p) \/ AcceptWrite(p)
    <3>1. Missing.kind = "missing"  BY DEF Missing, Blank
    <3>2. \A q, n, old : Legacy(q, n).kind = "owner" /\ Handoff(q, n, old).kind = "launcher"
      BY DEF Legacy, Handoff, Blank
    <3>3. rec'.kind # "missing"  BY <2>5, <3>2 DEF AcqWrite, XferWrite, AcceptWrite
    <3> QED BY <3>1, <3>3
  <2>6. CASE AuthWrite(p)
    BY <1>1, <2>6 DEF AuthWrite, IInv, OwnRecord
  <2> QED BY <2>1, <2>2, <2>3, <2>4, <2>5, <2>6
<1>2. IInv /\ [Next]_vars => [A]_rec
  BY <1>1 DEF vars
<1> QED BY <1>2, Invariance, PTL DEF Spec, OnlyOwnerOrDeathRemoves

\* A handoff record only becomes authorized, after the old owner left, and then
\* the record of the target it names: transferToLauncher, authorizeHandoff, acceptHandoff.
THEOREM HandoffAdvances == Spec => HandoffOnlyAdvances
<1> DEFINE A == /\ rec.kind = "launcher" =>
                     /\ rec'.kind = "authorized" /\ rec'.nonce = rec.nonce
                     /\ \A p \in Proc : pc[p] \notin Leaving
                /\ rec.kind = "authorized" => rec'.kind = "owner" /\ rec'.pid = rec.target
<1>1. ASSUME IInv, Next, rec' # rec PROVE A
  <2>1. PICK p \in Proc : \/ AcqCreate(p) \/ AcqWrite(p) \/ RelUnlink(p) \/ RecUnlink(p)
                          \/ XferWrite(p) \/ AuthWrite(p) \/ AcceptWrite(p)
    BY <1>1, RecordWriters
  <2>2. CASE AcqCreate(p) \/ AcqWrite(p)
    BY <1>1, <2>2 DEF AcqCreate, AcqWrite, IInv, OneMaker, Missing, Torn, Blank
  <2>3. CASE RelUnlink(p) \/ RecUnlink(p) \/ XferWrite(p)
    BY <1>1, <2>3 DEF RelUnlink, RecUnlink, XferWrite, IInv, OwnRecord, OneReclaimer, Owning, Reclaiming
  <2>4. CASE AuthWrite(p)
    BY <1>1, <2>4 DEF AuthWrite, IInv, OwnRecord, TypeOK, OwnerRecord
  <2>5. CASE AcceptWrite(p)
    BY <1>1, <2>5 DEF AcceptWrite, IInv, OwnRecord, Legacy, Blank
  <2> QED BY <2>1, <2>2, <2>3, <2>4, <2>5
<1>2. IInv /\ [Next]_vars => [A]_rec
  BY <1>1 DEF vars
<1> QED BY <1>2, Invariance, PTL DEF Spec, HandoffOnlyAdvances

\* A run directory abandoned without a readable record is never taken over:
\* acquire and reclaimDead fail closed on it for ever.
THEOREM IncompleteStays == Spec => IncompleteNeverStolen
<1>1. ASSUME IInv, Abandoned, Next PROVE Abandoned'
  <2>1. PICK p \in Proc : \/ Boot(p) \/ Die(p) \/ AcquireStep(p) \/ ReleaseStep(p)
                          \/ ReclaimStep(p) \/ TransferStep(p) \/ LaunchStep(p) \/ AcceptStep(p)
    BY <1>1 DEF Next
  <2>2. \A q \in Proc : pc[q] \notin Owning /\ pc[q] # "authWrite" /\ pc[q] # "acceptWrite"
                        /\ pc[q] # "recUnlink"
    BY <1>1 DEF Abandoned, IInv, OwnRecord, OneReclaimer, Reclaiming
  <2>3. rec' = rec
    BY <1>1, <2>2, RecordWriters DEF Abandoned, AcqCreate, AcqWrite, RelUnlink, RecUnlink, XferWrite,
       AuthWrite, AcceptWrite, Owning
  <2>4. runDir'
    BY <1>1, <2>1, <2>2 DEF Abandoned, AcquireStep, ReleaseStep, ReclaimStep, TransferStep, LaunchStep,
       AcceptStep, Boot, Die, AcqStart, AcqLook, AcqMkdir, AcqCheck, AcqCreate, AcqWrite, AcqFail, Publish,
       RelCheck, RelEndpoint, RelUnlink, RelRmdir, RelFail, Observe, RecLook, RecMkdir, RecRead, RecEndpoint,
       RecUnlink, RecRmdir, RecFail, RecDrop, HandoffStart, SpawnLauncher, XferCheck, XferWrite, HandoffFail,
       SendCommit, CommitFail, Exit, LauncherAck, Reserve, WaitForOldGone, SpawnTarget, AuthCheck,
       AuthWrite, SendToken, AcceptCheck, AcceptWrite, Refuse, memory, disk
  <2> DEFINE Making == {"acqCheck", "acqCreate", "acqWrite", "relRmdir", "recRmdir"}
  <2> USE DEF Goto, IInv, TypeOK, Abandoned, Owning
  <2>5. CASE Boot(p) \/ Die(p) \/ AcquireStep(p)
    BY <1>1, <2>3, <2>4, <2>5 DEF AcquireStep, Boot, Die, AcqStart, AcqLook, AcqMkdir, AcqCheck, AcqCreate, AcqWrite,
       AcqFail, Publish
  <2>6. CASE ReleaseStep(p)
    BY <1>1, <2>2, <2>3, <2>4, <2>6 DEF ReleaseStep, RelCheck, RelEndpoint, RelUnlink, RelRmdir, RelFail
  <2>7. CASE ReclaimStep(p)
    BY <1>1, <2>2, <2>3, <2>4, <2>7 DEF ReclaimStep, Observe, RecLook, RecMkdir, RecRead, RecEndpoint, RecUnlink,
       RecRmdir, RecFail, RecDrop
  <2>8. CASE TransferStep(p)
    BY <1>1, <2>2, <2>3, <2>4, <2>8 DEF TransferStep, HandoffStart, SpawnLauncher, XferCheck, XferWrite, HandoffFail,
       SendCommit, CommitFail, Exit, Die, HasChild
  <2>9. CASE LaunchStep(p)
    BY <1>1, <2>2, <2>3, <2>4, <2>9 DEF LaunchStep, LauncherAck, Reserve, WaitForOldGone, SpawnTarget, AuthCheck,
       AuthWrite, SendToken, HasChild
  <2>10. CASE AcceptStep(p)
    BY <1>1, <2>2, <2>3, <2>4, <2>10 DEF AcceptStep, AcceptCheck, AcceptWrite, Refuse, Die
  <2> QED BY <2>1, <2>5, <2>6, <2>7, <2>8, <2>9, <2>10
<1>2. IInv /\ [Next]_vars => [Abandoned => Abandoned']_vars
  BY <1>1 DEF vars
<1> QED BY <1>2, Invariance, PTL DEF Spec, IncompleteNeverStolen
=============================================================================
