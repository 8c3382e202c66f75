--------------------------- MODULE SupervisorProofs ---------------------------
(***************************************************************************)
(* Proofs about Supervisor for every set of jobs and spaces.  They rest on *)
(* the inductive invariant IInv: whoever is giving up the run rights, by a *)
(* shutdown, a handoff or a signal, has found the tail quiet and no owned  *)
(* process up but the manager that is started beside the jobs.             *)
(***************************************************************************)
EXTENDS Supervisor, SequenceTheorems, TLAPS

\* What the tail holds after a job was appended, and after its head was settled.
LEMMA QueueFacts ==
  ASSUME NEW q \in Seq(Job)
  PROVE  /\ \A j \in Job : /\ Append(q, j) \in Seq(Job) /\ Append(q, j) # <<>>
                           /\ q # <<>> => Head(Append(q, j)) = Head(q)
                           /\ {Append(q, j)[i] : i \in DOMAIN Append(q, j)}
                                \subseteq {q[i] : i \in DOMAIN q} \cup {j}
         /\ q # <<>> => /\ Tail(q) \in Seq(Job) /\ Head(q) \in Job
                        /\ Head(q) \in {q[i] : i \in DOMAIN q}
                        /\ {Tail(q)[i] : i \in DOMAIN Tail(q)} \subseteq {q[i] : i \in DOMAIN q}
<1>1. ASSUME NEW j \in Job
      PROVE  {Append(q, j)[i] : i \in DOMAIN Append(q, j)} \subseteq {q[i] : i \in DOMAIN q} \cup {j}
  <2> SUFFICES ASSUME NEW i \in DOMAIN Append(q, j)
               PROVE  Append(q, j)[i] \in {q[k] : k \in DOMAIN q} \cup {j}
    OBVIOUS
  <2>1. Len(q) \in Nat /\ DOMAIN q = 1 .. Len(q)  BY LenProperties
  <2>2. Append(q, j) \in Seq(Job) /\ Len(Append(q, j)) = Len(q) + 1  BY AppendProperties
  <2>3. i \in 1 .. Len(q) + 1  BY <2>2, LenProperties
  <2>4. i \in 1 .. Len(q) \/ i = Len(q) + 1  BY <2>1, <2>3
  <2> QED BY <2>1, <2>4, AppendProperties
<1>2. ASSUME q # <<>> PROVE Head(q) \in {q[i] : i \in DOMAIN q}
  <2>1. Len(q) \in Nat /\ DOMAIN q = 1 .. Len(q) /\ Len(q) # 0  BY <1>2, LenProperties, EmptySeq
  <2>2. Head(q) = q[1] /\ 1 \in DOMAIN q  BY <2>1
  <2> QED BY <2>2
<1>3. ASSUME q # <<>>
      PROVE  {Tail(q)[i] : i \in DOMAIN Tail(q)} \subseteq {q[i] : i \in DOMAIN q}
  <2> SUFFICES ASSUME NEW i \in DOMAIN Tail(q) PROVE Tail(q)[i] \in {q[k] : k \in DOMAIN q}
    OBVIOUS
  <2>1. Len(q) \in Nat /\ DOMAIN q = 1 .. Len(q) /\ Len(q) # 0  BY <1>3, LenProperties, EmptySeq
  <2>2. /\ Tail(q) \in Seq(Job) /\ Len(Tail(q)) = Len(q) - 1
        /\ \A k \in 1 .. Len(Tail(q)) : Tail(q)[k] = q[k + 1]
    BY <1>3, HeadTailProperties
  <2>3. i \in 1 .. Len(q) - 1  BY <2>2, LenProperties
  <2>4. i + 1 \in DOMAIN q /\ Tail(q)[i] = q[i + 1]  BY <2>1, <2>2, <2>3
  <2> QED BY <2>4
<1> QED BY <1>1, <1>2, <1>3, AppendProperties, HeadTailAppend, HeadTailProperties

\* The head of a tail with something in it is a job that is queued.
LEMMA HeadIsQueued == ASSUME TypeOK, queue # <<>> PROVE Running \in Job /\ Running \in Queued
  BY QueueFacts DEF TypeOK, Running, Queued
LEMMA QueuedAreJobs == ASSUME TypeOK PROVE Queued \subseteq Job
  BY ElementOfSeq, LenProperties DEF TypeOK, Queued

\* What the end of a job changes.
LEMMA SettleFacts ==
  ASSUME TypeOK, NEW ok, queue # <<>>, Settle(ok)
  PROVE  /\ Running \in Job /\ Running \in Queued /\ queue' \in Seq(Job) /\ Queued' \subseteq Queued
         /\ work' = "idle" /\ kind' = kind /\ target' = target /\ watched' = watched
         /\ \A j \in Job : j # Running => status'[j] = status[j]
         /\ \/ ok /\ status'[Running] = "succeeded" /\ durable' = durable \cup {Running}
            \/ status'[Running] = "failed" /\ durable' = durable
         /\ status' \in [Job -> {"new", "queued", "succeeded", "failed"}] /\ durable' \subseteq Job
<1>1. Running \in Job /\ Running \in Queued  BY HeadIsQueued
<1>2. queue' \in Seq(Job) /\ Queued' \subseteq Queued
  BY QueueFacts DEF TypeOK, Settle, Queued
<1> QED BY <1>1, <1>2 DEF TypeOK, Settle

-----------------------------------------------------------------------------
(* The inductive invariant.  What is proved beside the types; the rest of    *)
(* Inv follows from it.                                                      *)

Strong ==
  /\ TailIsOrderly /\ MarkedLeaves /\ PendingIsSealed /\ LeftBehind /\ ClosingIsQuiet
  /\ UpgradeIsOnRecord /\ EvidenceIsMaintenance /\ ReplacedIsRecorded /\ ShutdownIsDurable


\* The head of a tail that stays is the head it was.
LEMMA SameQueue == ASSUME queue' = queue PROVE Running' = Running /\ Queued' = Queued
  BY DEF Running, Queued

\* A step that leaves the package alone keeps what is said of the package.
LEMMA PackageKept ==
  ASSUME UNCHANGED package
  PROVE  /\ HasEvidence' = HasEvidence /\ \A j : Delivered(j)' = Delivered(j)
         /\ EvidenceIsMaintenance => EvidenceIsMaintenance'
         /\ ReplacedIsRecorded => ReplacedIsRecorded'
  BY DEF package, HasEvidence, Delivered, EvidenceIsMaintenance, ReplacedIsRecorded

\* ... and where execute() is, unless the upgrade ends.
LEMMA UpgradeKept ==
  ASSUME UNCHANGED package, UpgradeIsOnRecord,
         work = "upgrade" => work' = "upgrade" /\ Running' = Running
  PROVE  UpgradeIsOnRecord'
<1>1. CASE phase = "none"  BY <1>1 DEF package, UpgradeIsOnRecord, Package
<1>2. CASE phase # "none"
  <2>1. work' = "upgrade" /\ Running' = Running  BY <1>2 DEF UpgradeIsOnRecord
  <2>2. Verified' = Verified /\ HasEvidence' = HasEvidence
    BY DEF package, Verified, HasEvidence, Current
  <2> QED BY <2>1, <2>2 DEF package, UpgradeIsOnRecord
<1> QED BY <1>1, <1>2

-----------------------------------------------------------------------------
(* What happens beside the tail: the start of the manager, the continuations *)
(* that give up the rights, close() and the end of the process.              *)

Aside ==
  /\ UNCHANGED <<queue, work, kind, target, status, durable>> /\ UNCHANGED package
  /\ (sealing => sealing') /\ (maintenanceBlocked => maintenanceBlocked')
  /\ Beside' = Beside /\ children' \subseteq children \cup Beside
  /\ relinquish' = relinquish \/ (queue = <<>> /\ relinquish' = None)
  /\ pending' = pending \/ pending' = None
  /\ left'["job"] = left["job"]

\* No such step disturbs the tail, or wakes up what was quiet.
LEMMA AsideKeeps ==
  ASSUME TypeOK, Strong, Aside
  PROVE  /\ TailIsOrderly' /\ MarkedLeaves' /\ PendingIsSealed' /\ UpgradeIsOnRecord'
         /\ EvidenceIsMaintenance' /\ ReplacedIsRecorded'
         /\ (Quiet => Quiet') /\ (Deserted => Deserted')
         /\ \A j : Delivered(j)' = Delivered(j)
<1>1. Running' = Running /\ Queued' = Queued  BY SameQueue DEF Aside
<1>2. EvidenceIsMaintenance' /\ ReplacedIsRecorded' /\ \A j : Delivered(j)' = Delivered(j)
  BY PackageKept DEF Aside, Strong
<1>3. UpgradeIsOnRecord'  BY <1>1, UpgradeKept DEF Aside, Strong
<1>4. Quiet => Quiet'  BY DEF Aside, Quiet
<1>5. Deserted => Deserted'  BY <1>4 DEF Aside, Deserted
<1>6. TailIsOrderly'
  BY <1>1 DEF Aside, Strong, TailIsOrderly
<1>7. MarkedLeaves'
  BY <1>1, <1>5 DEF Aside, Strong, MarkedLeaves
<1>8. PendingIsSealed'
  BY <1>1, <1>2 DEF Aside, Strong, PendingIsSealed
<1> QED BY <1>1, <1>2, <1>3, <1>4, <1>5, <1>6, <1>7, <1>8

\* The start of the manager beside the jobs.
LEMMA StartupPreserves ==
  ASSUME TypeOK, TypeOK', Strong, UNCHANGED package,
         \/ AdmitManager
         \/ StartManager
  PROVE  Strong'
<1> USE ManagerAssumption DEF exits, seals, jobs
<1>1. ASSUME AdmitManager PROVE Strong'
  <2>1. Aside  BY <1>1 DEF TypeOK, Aside, Beside, AdmitManager
  <2>2. LeftBehind'
    BY <1>1, <2>1, AsideKeeps
    DEF TypeOK, Strong, LeftBehind, AdmitManager
  <2>3. ClosingIsQuiet'
    BY <1>1, <2>1, AsideKeeps
    DEF TypeOK, Strong, LeftBehind, ClosingIsQuiet, Aside, AdmitManager
  <2>4. ShutdownIsDurable'
    BY <1>1, <2>1, AsideKeeps
    DEF TypeOK, Strong, LeftBehind, ShutdownIsDurable, Aside, AdmitManager
  <2> QED BY <2>1, <2>2, <2>3, <2>4, AsideKeeps DEF Strong
<1>2. ASSUME StartManager PROVE Strong'
  <2>1. Aside  BY <1>2 DEF TypeOK, Aside, Beside, StartManager
  <2>2. LeftBehind'
    BY <1>2, <2>1, AsideKeeps
    DEF TypeOK, Strong, LeftBehind, StartManager
  <2>3. ClosingIsQuiet'
    BY <1>2, <2>1, AsideKeeps
    DEF TypeOK, Strong, LeftBehind, ClosingIsQuiet, Aside, StartManager
  <2>4. ShutdownIsDurable'
    BY <1>2, <2>1, AsideKeeps
    DEF TypeOK, Strong, LeftBehind, ShutdownIsDurable, Aside, StartManager
  <2> QED BY <2>1, <2>2, <2>3, <2>4, AsideKeeps DEF Strong
<1> QED BY <1>1, <1>2

\* The continuations that give up the rights.
LEMMA LeavingPreserves ==
  ASSUME TypeOK, TypeOK', Strong, UNCHANGED package,
         \/ \E j \in Job : AfterHandoffJob(j)
         \/ \E j \in Job : AfterShutdownJob(j)
         \/ \E j \in Job : AfterOtherJob(j)
         \/ FinishRelinquish
         \/ Transfer
         \/ Commit
  PROVE  Strong'
<1> USE ManagerAssumption DEF exits, seals, jobs
<1>1. ASSUME NEW j \in Job, AfterHandoffJob(j) PROVE Strong'
  <2>1. Aside  BY <1>1 DEF TypeOK, Aside, Beside, AfterHandoffJob, Persisted
  <2>a. leaving' # leaving => leaving' = "transfer" /\ Deserted /\ j \in durable /\ Delivered(j)
    BY <1>1, NoneAssumption
    DEF AfterHandoffJob, Persisted, TypeOK, Strong, TailIsOrderly, PendingIsSealed, Deserted, Quiet
  <2>2. LeftBehind'
    BY <1>1, <2>1, <2>a, AsideKeeps
    DEF TypeOK, Strong, LeftBehind, AfterHandoffJob, Persisted
  <2>3. ClosingIsQuiet'
    BY <1>1, <2>1, <2>a, AsideKeeps
    DEF TypeOK, Strong, LeftBehind, ClosingIsQuiet, Aside, AfterHandoffJob, Persisted
  <2>4. ShutdownIsDurable'
    BY <1>1, <2>1, <2>a, AsideKeeps
    DEF TypeOK, Strong, LeftBehind, ShutdownIsDurable, Aside, AfterHandoffJob, Persisted
  <2> QED BY <2>1, <2>2, <2>3, <2>4, AsideKeeps DEF Strong
<1>2. ASSUME NEW j \in Job, AfterShutdownJob(j) PROVE Strong'
  <2>1. Aside  BY <1>2 DEF TypeOK, Aside, Beside, AfterShutdownJob, Persisted
  <2>a. leaving' # leaving =>
          leaving' = "drop" /\ Deserted /\ j \in durable /\ kind[j] = "shutdown"
    BY <1>2, NoneAssumption
    DEF AfterShutdownJob, Persisted, TypeOK, Strong, TailIsOrderly, MarkedLeaves
  <2>2. LeftBehind'
    BY <1>2, <2>1, <2>a, AsideKeeps
    DEF TypeOK, Strong, LeftBehind, AfterShutdownJob, Persisted
  <2>3. ClosingIsQuiet'
    BY <1>2, <2>1, <2>a, AsideKeeps
    DEF TypeOK, Strong, LeftBehind, ClosingIsQuiet, Aside, AfterShutdownJob, Persisted
  <2>4. ShutdownIsDurable'
    BY <1>2, <2>1, <2>a, AsideKeeps
    DEF TypeOK, Strong, LeftBehind, ShutdownIsDurable, Aside, AfterShutdownJob, Persisted
  <2> QED BY <2>1, <2>2, <2>3, <2>4, AsideKeeps DEF Strong
<1>3. ASSUME NEW j \in Job, AfterOtherJob(j) PROVE Strong'
  <2>1. Aside  BY <1>3 DEF TypeOK, Aside, Beside, AfterOtherJob
  <2>2. LeftBehind'
    BY <1>3, <2>1, AsideKeeps
    DEF TypeOK, Strong, LeftBehind, AfterOtherJob
  <2>3. ClosingIsQuiet'
    BY <1>3, <2>1, AsideKeeps
    DEF TypeOK, Strong, LeftBehind, ClosingIsQuiet, Aside, AfterOtherJob
  <2>4. ShutdownIsDurable'
    BY <1>3, <2>1, AsideKeeps
    DEF TypeOK, Strong, LeftBehind, ShutdownIsDurable, Aside, AfterOtherJob
  <2> QED BY <2>1, <2>2, <2>3, <2>4, AsideKeeps DEF Strong
<1>4. ASSUME FinishRelinquish PROVE Strong'
  <2>1. Aside  BY <1>4 DEF TypeOK, Aside, Beside, FinishRelinquish, DropWritable
  <2>2. LeftBehind'
    BY <1>4, <2>1, AsideKeeps
    DEF TypeOK, Strong, LeftBehind, FinishRelinquish, DropWritable
  <2>3. ClosingIsQuiet'
    BY <1>4, <2>1, AsideKeeps
    DEF TypeOK, Strong, LeftBehind, ClosingIsQuiet, Aside, FinishRelinquish, DropWritable
  <2>4. ShutdownIsDurable'
    BY <1>4, <2>1, AsideKeeps
    DEF TypeOK, Strong, LeftBehind, ShutdownIsDurable, Aside, FinishRelinquish, DropWritable
  <2> QED BY <2>1, <2>2, <2>3, <2>4, AsideKeeps DEF Strong
<1>5. ASSUME Transfer PROVE Strong'
  <2>1. Aside  BY <1>5 DEF TypeOK, Aside, Beside, Transfer
  <2>2. LeftBehind'
    BY <1>5, <2>1, AsideKeeps
    DEF TypeOK, Strong, LeftBehind, Transfer
  <2>3. ClosingIsQuiet'
    BY <1>5, <2>1, AsideKeeps
    DEF TypeOK, Strong, LeftBehind, ClosingIsQuiet, Aside, Transfer
  <2>4. ShutdownIsDurable'
    BY <1>5, <2>1, AsideKeeps
    DEF TypeOK, Strong, LeftBehind, ShutdownIsDurable, Aside, Transfer
  <2> QED BY <2>1, <2>2, <2>3, <2>4, AsideKeeps DEF Strong
<1>6. ASSUME Commit PROVE Strong'
  <2>1. Aside  BY <1>6 DEF TypeOK, Aside, Beside, Commit
  <2>2. LeftBehind'
    BY <1>6, <2>1, AsideKeeps
    DEF TypeOK, Strong, LeftBehind, Commit
  <2>3. ClosingIsQuiet'
    BY <1>6, <2>1, AsideKeeps
    DEF TypeOK, Strong, LeftBehind, ClosingIsQuiet, Aside, Commit
  <2>4. ShutdownIsDurable'
    BY <1>6, <2>1, AsideKeeps
    DEF TypeOK, Strong, LeftBehind, ShutdownIsDurable, Aside, Commit
  <2> QED BY <2>1, <2>2, <2>3, <2>4, AsideKeeps DEF Strong
<1> QED BY <1>1, <1>2, <1>3, <1>4, <1>5, <1>6

\* close() and the end of the process.
LEMMA ClosePreserves ==
  ASSUME TypeOK, TypeOK', Strong, UNCHANGED package,
         \/ Close
         \/ CloseIdle
         \/ \E s \in Space : CloseStopOne(s)
         \/ \E s \in Space : CloseStopFails(s)
         \/ CloseDrop
         \/ Die
  PROVE  Strong'
<1> USE ManagerAssumption DEF exits, seals, jobs
<1>1. ASSUME Close PROVE Strong'
  <2>1. Aside  BY <1>1 DEF TypeOK, Aside, Beside, Close
  <2>a. rights = "transferred" => Quiet  BY DEF Strong, LeftBehind, Deserted
  <2>2. LeftBehind'
    BY <1>1, <2>1, <2>a, AsideKeeps
    DEF TypeOK, Strong, LeftBehind, Close
  <2>3. ClosingIsQuiet'
    BY <1>1, <2>1, <2>a, AsideKeeps
    DEF TypeOK, Strong, LeftBehind, ClosingIsQuiet, Aside, Close
  <2>4. ShutdownIsDurable'
    BY <1>1, <2>1, <2>a, AsideKeeps
    DEF TypeOK, Strong, LeftBehind, ShutdownIsDurable, Aside, Close
  <2> QED BY <2>1, <2>2, <2>3, <2>4, AsideKeeps DEF Strong
<1>2. ASSUME CloseIdle PROVE Strong'
  <2>1. Aside  BY <1>2 DEF TypeOK, Aside, Beside, CloseIdle
  <2>a. Quiet /\ left'["close"] = (IF handle THEN Space ELSE {}) /\ children' \subseteq Space
    BY <1>2 DEF CloseIdle, TypeOK, Strong, TailIsOrderly, ClosingIsQuiet, Quiet
  <2>2. LeftBehind'
    BY <1>2, <2>1, <2>a, AsideKeeps
    DEF TypeOK, Strong, LeftBehind, CloseIdle
  <2>3. ClosingIsQuiet'
    BY <1>2, <2>1, <2>a, AsideKeeps
    DEF TypeOK, Strong, LeftBehind, ClosingIsQuiet, Aside, CloseIdle
  <2>4. ShutdownIsDurable'
    BY <1>2, <2>1, <2>a, AsideKeeps
    DEF TypeOK, Strong, LeftBehind, ShutdownIsDurable, Aside, CloseIdle
  <2> QED BY <2>1, <2>2, <2>3, <2>4, AsideKeeps DEF Strong
<1>3. ASSUME NEW s \in Space, CloseStopOne(s) PROVE Strong'
  <2>1. Aside  BY <1>3 DEF TypeOK, Aside, Beside, CloseStopOne
  <2>2. LeftBehind'
    BY <1>3, <2>1, AsideKeeps
    DEF TypeOK, Strong, LeftBehind, CloseStopOne
  <2>3. ClosingIsQuiet'
    BY <1>3, <2>1, AsideKeeps
    DEF TypeOK, Strong, LeftBehind, ClosingIsQuiet, Aside, CloseStopOne
  <2>4. ShutdownIsDurable'
    BY <1>3, <2>1, AsideKeeps
    DEF TypeOK, Strong, LeftBehind, ShutdownIsDurable, Aside, CloseStopOne
  <2> QED BY <2>1, <2>2, <2>3, <2>4, AsideKeeps DEF Strong
<1>4. ASSUME NEW s \in Space, CloseStopFails(s) PROVE Strong'
  <2>1. Aside  BY <1>4 DEF TypeOK, Aside, Beside, CloseStopFails
  <2>2. LeftBehind'
    BY <1>4, <2>1, AsideKeeps
    DEF TypeOK, Strong, LeftBehind, CloseStopFails
  <2>3. ClosingIsQuiet'
    BY <1>4, <2>1, AsideKeeps
    DEF TypeOK, Strong, LeftBehind, ClosingIsQuiet, Aside, CloseStopFails
  <2>4. ShutdownIsDurable'
    BY <1>4, <2>1, AsideKeeps
    DEF TypeOK, Strong, LeftBehind, ShutdownIsDurable, Aside, CloseStopFails
  <2> QED BY <2>1, <2>2, <2>3, <2>4, AsideKeeps DEF Strong
<1>5. ASSUME CloseDrop PROVE Strong'
  <2>1. Aside  BY <1>5 DEF TypeOK, Aside, Beside, CloseDrop, DropWritable
  <2>a. handle => Deserted  BY <1>5 DEF CloseDrop, Strong, ClosingIsQuiet, Deserted
  <2>2. LeftBehind'
    BY <1>5, <2>1, <2>a, AsideKeeps
    DEF TypeOK, Strong, LeftBehind, CloseDrop, DropWritable
  <2>3. ClosingIsQuiet'
    BY <1>5, <2>1, <2>a, AsideKeeps
    DEF TypeOK, Strong, LeftBehind, ClosingIsQuiet, Aside, CloseDrop, DropWritable
  <2>4. ShutdownIsDurable'
    BY <1>5, <2>1, <2>a, AsideKeeps
    DEF TypeOK, Strong, LeftBehind, ShutdownIsDurable, Aside, CloseDrop, DropWritable
  <2> QED BY <2>1, <2>2, <2>3, <2>4, AsideKeeps DEF Strong
<1>6. ASSUME Die PROVE Strong'
  <2>1. Aside  BY <1>6 DEF TypeOK, Aside, Beside, Die
  <2>2. LeftBehind'
    BY <1>6, <2>1, AsideKeeps
    DEF TypeOK, Strong, LeftBehind, Die
  <2>3. ClosingIsQuiet'
    BY <1>6, <2>1, AsideKeeps
    DEF TypeOK, Strong, LeftBehind, ClosingIsQuiet, Aside, Die
  <2>4. ShutdownIsDurable'
    BY <1>6, <2>1, AsideKeeps
    DEF TypeOK, Strong, LeftBehind, ShutdownIsDurable, Aside, Die
  <2> QED BY <2>1, <2>2, <2>3, <2>4, AsideKeeps DEF Strong
<1> QED BY <1>1, <1>2, <1>3, <1>4, <1>5, <1>6

-----------------------------------------------------------------------------
(* The turns of the tail. *)

OnTail ==
  /\ UNCHANGED <<rights, handle, leaving, startup, closing>> /\ left'["close"] = left["close"]
  /\ durable \subseteq durable' /\ \A j \in durable : kind'[j] = kind[j]
  /\ sealing \/ maintenanceBlocked => sealing' \/ maintenanceBlocked'
  /\ Quiet => Quiet' /\ children' \subseteq children /\ UNCHANGED package

\* They do nothing to those who are leaving.
LEMMA OnTailKeeps ==
  ASSUME TypeOK, Strong, OnTail
  PROVE  LeftBehind' /\ ClosingIsQuiet' /\ ShutdownIsDurable' /\ (Deserted => Deserted')
<1>1. Beside' = Beside  BY DEF OnTail, Beside
<1>2. Deserted => Deserted' /\ UNCHANGED package  BY <1>1 DEF OnTail, Deserted
<1>3. UNCHANGED package => \A j : Delivered(j)' = Delivered(j)  BY PackageKept
<1>4. LeftBehind'  BY <1>2, <1>3 DEF OnTail, Strong, LeftBehind
<1>5. ClosingIsQuiet'  BY <1>1 DEF OnTail, Strong, ClosingIsQuiet
<1>6. ShutdownIsDurable'  BY DEF OnTail, Strong, ShutdownIsDurable
<1> QED BY <1>2, <1>4, <1>5, <1>6

\* A job is taken in.
LEMMA SubmitPreserves ==
  ASSUME TypeOK, TypeOK', Strong, UNCHANGED package,
         \/ \E j \in Job, k \in Kind, s \in Space : Submit(j, k, s)
  PROVE  Strong'
<1> USE NoneAssumption DEF exits, seals, jobs
<1>1. ASSUME NEW j \in Job, NEW k \in Kind, NEW s \in Space, Submit(j, k, s) PROVE Strong'
  <2>1. OnTail
    BY <1>1 DEF TypeOK, Strong, TailIsOrderly, OnTail, Quiet, At, Submit
  <2>2. Deserted => Deserted'
    BY <2>1, OnTailKeeps
  <2>3. TailIsOrderly'
    BY <1>1, QueueFacts DEF TypeOK, Strong, TailIsOrderly, Beside, Submit, Running, Queued
  <2>4. MarkedLeaves'
    BY <1>1 DEF TypeOK, Strong, MarkedLeaves, Deserted, Submit
  <2>5. PendingIsSealed'
    BY <1>1 DEF TypeOK, Strong, PendingIsSealed, Submit
  <2>6. UpgradeIsOnRecord'
    BY <1>1, QueueFacts, UpgradeKept DEF TypeOK, Strong, TailIsOrderly, Running, Submit
  <2> QED BY <2>1, <2>3, <2>4, <2>5, <2>6, OnTailKeeps, PackageKept DEF Strong
<1> QED BY <1>1

\* A job that begins is refused or admitted, and a stop ends or goes on.
RefuseBegin ==
  /\ queue # <<>> /\ work = "idle" /\ Settle(FALSE)
  /\ relinquish' \in {relinquish,
                      IF kind[Running] = "shutdown" /\ ~Refused THEN Running ELSE relinquish}
  /\ UNCHANGED <<sealing, left>>
  /\ UNCHANGED <<exits, children, maintenanceBlocked, pending, leaving, startup, closing>>
Admit ==
  /\ queue # <<>> /\ work = "idle" /\ ~Refused /\ kind[Running] # "upgrade"
  /\ work' = FirstStep(kind[Running])
  /\ sealing' = (sealing \/ kind[Running] = "shutdown")
  /\ relinquish' = IF kind[Running] = "shutdown" THEN Running ELSE relinquish
  /\ left' = [left EXCEPT !["job"] =
       IF kind[Running] = "shutdown" THEN Space ELSE {target[Running]}]
  /\ UNCHANGED jobs
  /\ UNCHANGED <<exits, children, maintenanceBlocked, pending, leaving, startup, closing>>
RestartGoesOn ==
  /\ At("stop") /\ left["job"] = {} /\ kind[Running] = "restart"
  /\ work' = "start" /\ UNCHANGED jobs
  /\ UNCHANGED <<exits, children, seals, left, leaving, startup, closing>>
StopEnds ==
  /\ At("stop") /\ left["job"] = {} /\ kind[Running] # "restart"
  /\ Settle(TRUE)
  /\ UNCHANGED <<exits, children, seals, left, leaving, startup, closing>>

LEMMA Split ==
  /\ Begin => RefuseBegin \/ Admit
  /\ StopDone => RestartGoesOn \/ StopEnds
  BY DEF Begin, RefuseBegin, Admit, StopDone, RestartGoesOn, StopEnds

\* The handlers of the jobs.
LEMMA HandlerPreserves ==
  ASSUME TypeOK, TypeOK', Strong, UNCHANGED package,
         \/ RefuseBegin
         \/ Admit
         \/ AdmitStart
         \/ RefuseStart
         \/ StartSpace
         \/ \E s \in Space : StopOne(s)
         \/ \E s \in Space : StopFails(s)
         \/ RestartGoesOn
         \/ StopEnds
         \/ ShutdownDone
  PROVE  Strong'
<1> USE NoneAssumption DEF exits, seals, jobs
<1>1. ASSUME RefuseBegin PROVE Strong'
  <2>1. queue # <<>>
    BY <1>1 DEF At, Strong, TailIsOrderly, RefuseBegin, Refused
  <2>2. Running \in Job /\ Running \in Queued
    BY <2>1, HeadIsQueued
  <2>3. /\ queue' \in Seq(Job) /\ Queued' \subseteq Queued /\ work' = "idle"
        /\ kind' = kind /\ target' = target /\ watched' = watched
        /\ \A j \in Job : j # Running => status'[j] = status[j]
        /\ status'[Running] = "failed" /\ durable' = durable
    BY <1>1, <2>1, SettleFacts DEF RefuseBegin, Refused
  <2>4. OnTail
    BY <1>1, <2>1, <2>2, <2>3 DEF TypeOK, Strong, TailIsOrderly, OnTail, Quiet, At, RefuseBegin, Refused
  <2>5. Deserted => Deserted'
    BY <2>4, OnTailKeeps
  <2>6. TailIsOrderly'
    BY <1>1, <2>1, <2>2, <2>3, QueuedAreJobs DEF TypeOK, Strong, TailIsOrderly, Beside, At, RefuseBegin, Refused
  <2>7. MarkedLeaves'
    BY <1>1, <2>1, <2>2, <2>3, <2>5 DEF TypeOK, Strong, TailIsOrderly, MarkedLeaves, Deserted, Quiet, Beside, At, RefuseBegin, Refused
  <2>8. PendingIsSealed'
    BY <1>1, <2>1, <2>2, <2>3, PackageKept DEF TypeOK, Strong, TailIsOrderly, PendingIsSealed, At, RefuseBegin, Refused
  <2>9. UpgradeIsOnRecord'
    BY <1>1, <2>1, <2>2, <2>3, UpgradeKept DEF Strong, TailIsOrderly, At, RefuseBegin, Refused
  <2> QED BY <2>4, <2>6, <2>7, <2>8, <2>9, OnTailKeeps, PackageKept DEF Strong
<1>2. ASSUME Admit PROVE Strong'
  <2>1. queue # <<>>
    BY <1>2 DEF At, Strong, TailIsOrderly, Admit, Refused, FirstStep, Kind
  <2>2. Running \in Job /\ Running \in Queued
    BY <2>1, HeadIsQueued
  <2>3. Running' = Running /\ Queued' = Queued /\ queue' = queue
    BY <1>2, SameQueue DEF Admit, Refused, FirstStep, Kind
  <2>4. OnTail
    BY <1>2, <2>1, <2>2, <2>3 DEF TypeOK, Strong, TailIsOrderly, OnTail, Quiet, At, Admit, Refused, FirstStep, Kind
  <2>5. Deserted => Deserted'
    BY <2>4, OnTailKeeps
  <2>6. TailIsOrderly'
    BY <1>2, <2>1, <2>2, <2>3 DEF TypeOK, Strong, TailIsOrderly, Beside, At, Admit, Refused, FirstStep, Kind
  <2>7. MarkedLeaves'
    BY <1>2, <2>1, <2>2, <2>3, <2>5 DEF TypeOK, Strong, TailIsOrderly, MarkedLeaves, Deserted, Quiet, Beside, At, Admit, Refused, FirstStep, Kind
  <2>8. PendingIsSealed'
    BY <1>2, <2>1, <2>2, <2>3, PackageKept DEF TypeOK, Strong, TailIsOrderly, PendingIsSealed, At, Admit, Refused, FirstStep, Kind
  <2>9. UpgradeIsOnRecord'
    BY <1>2, <2>1, <2>2, <2>3, UpgradeKept DEF Strong, TailIsOrderly, At, Admit, Refused, FirstStep, Kind
  <2> QED BY <2>4, <2>6, <2>7, <2>8, <2>9, OnTailKeeps, PackageKept DEF Strong
<1>3. ASSUME AdmitStart PROVE Strong'
  <2>1. queue # <<>>
    BY <1>3 DEF At, Strong, TailIsOrderly, AdmitStart
  <2>2. Running \in Job /\ Running \in Queued
    BY <2>1, HeadIsQueued
  <2>3. Running' = Running /\ Queued' = Queued /\ queue' = queue
    BY <1>3, SameQueue DEF AdmitStart
  <2>4. OnTail
    BY <1>3, <2>1, <2>2, <2>3 DEF TypeOK, Strong, TailIsOrderly, OnTail, Quiet, At, AdmitStart
  <2>5. Deserted => Deserted'
    BY <2>4, OnTailKeeps
  <2>6. TailIsOrderly'
    BY <1>3, <2>1, <2>2, <2>3 DEF TypeOK, Strong, TailIsOrderly, Beside, At, AdmitStart
  <2>7. MarkedLeaves'
    BY <1>3, <2>1, <2>2, <2>3, <2>5 DEF TypeOK, Strong, TailIsOrderly, MarkedLeaves, Deserted, Quiet, Beside, At, AdmitStart
  <2>8. PendingIsSealed'
    BY <1>3, <2>1, <2>2, <2>3, PackageKept DEF TypeOK, Strong, TailIsOrderly, PendingIsSealed, At, AdmitStart
  <2>9. UpgradeIsOnRecord'
    BY <1>3, <2>1, <2>2, <2>3, UpgradeKept DEF Strong, TailIsOrderly, At, AdmitStart
  <2> QED BY <2>4, <2>6, <2>7, <2>8, <2>9, OnTailKeeps, PackageKept DEF Strong
<1>4. ASSUME RefuseStart PROVE Strong'
  <2>1. queue # <<>>
    BY <1>4 DEF At, Strong, TailIsOrderly, RefuseStart
  <2>2. Running \in Job /\ Running \in Queued
    BY <2>1, HeadIsQueued
  <2>3. /\ queue' \in Seq(Job) /\ Queued' \subseteq Queued /\ work' = "idle"
        /\ kind' = kind /\ target' = target /\ watched' = watched
        /\ \A j \in Job : j # Running => status'[j] = status[j]
        /\ status'[Running] = "failed" /\ durable' = durable
    BY <1>4, <2>1, SettleFacts DEF RefuseStart
  <2>4. OnTail
    BY <1>4, <2>1, <2>2, <2>3 DEF TypeOK, Strong, TailIsOrderly, OnTail, Quiet, At, RefuseStart
  <2>5. Deserted => Deserted'
    BY <2>4, OnTailKeeps
  <2>6. TailIsOrderly'
    BY <1>4, <2>1, <2>2, <2>3, QueuedAreJobs DEF TypeOK, Strong, TailIsOrderly, Beside, At, RefuseStart
  <2>7. MarkedLeaves'
    BY <1>4, <2>1, <2>2, <2>3, <2>5 DEF TypeOK, Strong, TailIsOrderly, MarkedLeaves, Deserted, Quiet, Beside, At, RefuseStart
  <2>8. PendingIsSealed'
    BY <1>4, <2>1, <2>2, <2>3, PackageKept DEF TypeOK, Strong, TailIsOrderly, PendingIsSealed, At, RefuseStart
  <2>9. UpgradeIsOnRecord'
    BY <1>4, <2>1, <2>2, <2>3, UpgradeKept DEF Strong, TailIsOrderly, At, RefuseStart
  <2> QED BY <2>4, <2>6, <2>7, <2>8, <2>9, OnTailKeeps, PackageKept DEF Strong
<1>5. ASSUME StartSpace PROVE Strong'
  <2>1. queue # <<>>
    BY <1>5 DEF At, Strong, TailIsOrderly, StartSpace
  <2>2. Running \in Job /\ Running \in Queued
    BY <2>1, HeadIsQueued
  <2>3. /\ queue' \in Seq(Job) /\ Queued' \subseteq Queued /\ work' = "idle"
        /\ kind' = kind /\ target' = target /\ watched' = watched
        /\ \A j \in Job : j # Running => status'[j] = status[j]
        /\ \/ status'[Running] = "succeeded" /\ durable' = durable \cup {Running}
           \/ status'[Running] = "failed" /\ durable' = durable
    BY <1>5, <2>1, SettleFacts DEF StartSpace
  <2>4. OnTail
    BY <1>5, <2>1, <2>2, <2>3 DEF TypeOK, Strong, TailIsOrderly, OnTail, Quiet, At, StartSpace
  <2>5. Deserted => Deserted'
    BY <2>4, OnTailKeeps
  <2>6. TailIsOrderly'
    BY <1>5, <2>1, <2>2, <2>3, QueuedAreJobs DEF TypeOK, Strong, TailIsOrderly, Beside, At, StartSpace
  <2>7. MarkedLeaves'
    BY <1>5, <2>1, <2>2, <2>3, <2>5 DEF TypeOK, Strong, TailIsOrderly, MarkedLeaves, Deserted, Quiet, Beside, At, StartSpace
  <2>8. PendingIsSealed'
    BY <1>5, <2>1, <2>2, <2>3, PackageKept DEF TypeOK, Strong, TailIsOrderly, PendingIsSealed, At, StartSpace
  <2>9. UpgradeIsOnRecord'
    BY <1>5, <2>1, <2>2, <2>3, UpgradeKept DEF Strong, TailIsOrderly, At, StartSpace
  <2> QED BY <2>4, <2>6, <2>7, <2>8, <2>9, OnTailKeeps, PackageKept DEF Strong
<1>6. ASSUME NEW s \in Space, StopOne(s) PROVE Strong'
  <2>1. queue # <<>>
    BY <1>6 DEF At, Strong, TailIsOrderly, StopOne
  <2>2. Running \in Job /\ Running \in Queued
    BY <2>1, HeadIsQueued
  <2>3. Running' = Running /\ Queued' = Queued /\ queue' = queue
    BY <1>6, SameQueue DEF StopOne
  <2>4. OnTail
    BY <1>6, <2>1, <2>2, <2>3 DEF TypeOK, Strong, TailIsOrderly, OnTail, Quiet, At, StopOne
  <2>5. Deserted => Deserted'
    BY <2>4, OnTailKeeps
  <2>6. TailIsOrderly'
    BY <1>6, <2>1, <2>2, <2>3 DEF TypeOK, Strong, TailIsOrderly, Beside, At, StopOne
  <2>7. MarkedLeaves'
    BY <1>6, <2>1, <2>2, <2>3, <2>5 DEF TypeOK, Strong, TailIsOrderly, MarkedLeaves, Deserted, Quiet, Beside, At, StopOne
  <2>8. PendingIsSealed'
    BY <1>6, <2>1, <2>2, <2>3, PackageKept DEF TypeOK, Strong, TailIsOrderly, PendingIsSealed, At, StopOne
  <2>9. UpgradeIsOnRecord'
    BY <1>6, <2>1, <2>2, <2>3, UpgradeKept DEF Strong, TailIsOrderly, At, StopOne
  <2> QED BY <2>4, <2>6, <2>7, <2>8, <2>9, OnTailKeeps, PackageKept DEF Strong
<1>7. ASSUME NEW s \in Space, StopFails(s) PROVE Strong'
  <2>1. queue # <<>>
    BY <1>7 DEF At, Strong, TailIsOrderly, StopFails
  <2>2. Running \in Job /\ Running \in Queued
    BY <2>1, HeadIsQueued
  <2>3. /\ queue' \in Seq(Job) /\ Queued' \subseteq Queued /\ work' = "idle"
        /\ kind' = kind /\ target' = target /\ watched' = watched
        /\ \A j \in Job : j # Running => status'[j] = status[j]
        /\ status'[Running] = "failed" /\ durable' = durable
    BY <1>7, <2>1, SettleFacts DEF StopFails
  <2>4. OnTail
    BY <1>7, <2>1, <2>2, <2>3 DEF TypeOK, Strong, TailIsOrderly, OnTail, Quiet, At, StopFails
  <2>5. Deserted => Deserted'
    BY <2>4, OnTailKeeps
  <2>6. TailIsOrderly'
    BY <1>7, <2>1, <2>2, <2>3, QueuedAreJobs DEF TypeOK, Strong, TailIsOrderly, Beside, At, StopFails
  <2>7. MarkedLeaves'
    BY <1>7, <2>1, <2>2, <2>3, <2>5 DEF TypeOK, Strong, TailIsOrderly, MarkedLeaves, Deserted, Quiet, Beside, At, StopFails
  <2>8. PendingIsSealed'
    BY <1>7, <2>1, <2>2, <2>3, PackageKept DEF TypeOK, Strong, TailIsOrderly, PendingIsSealed, At, StopFails
  <2>9. UpgradeIsOnRecord'
    BY <1>7, <2>1, <2>2, <2>3, UpgradeKept DEF Strong, TailIsOrderly, At, StopFails
  <2> QED BY <2>4, <2>6, <2>7, <2>8, <2>9, OnTailKeeps, PackageKept DEF Strong
<1>8. ASSUME RestartGoesOn PROVE Strong'
  <2>1. queue # <<>>
    BY <1>8 DEF At, Strong, TailIsOrderly, RestartGoesOn
  <2>2. Running \in Job /\ Running \in Queued
    BY <2>1, HeadIsQueued
  <2>3. Running' = Running /\ Queued' = Queued /\ queue' = queue
    BY <1>8, SameQueue DEF RestartGoesOn
  <2>4. OnTail
    BY <1>8, <2>1, <2>2, <2>3 DEF TypeOK, Strong, TailIsOrderly, OnTail, Quiet, At, RestartGoesOn
  <2>5. Deserted => Deserted'
    BY <2>4, OnTailKeeps
  <2>6. TailIsOrderly'
    BY <1>8, <2>1, <2>2, <2>3 DEF TypeOK, Strong, TailIsOrderly, Beside, At, RestartGoesOn
  <2>7. MarkedLeaves'
    BY <1>8, <2>1, <2>2, <2>3, <2>5 DEF TypeOK, Strong, TailIsOrderly, MarkedLeaves, Deserted, Quiet, Beside, At, RestartGoesOn
  <2>8. PendingIsSealed'
    BY <1>8, <2>1, <2>2, <2>3, PackageKept DEF TypeOK, Strong, TailIsOrderly, PendingIsSealed, At, RestartGoesOn
  <2>9. UpgradeIsOnRecord'
    BY <1>8, <2>1, <2>2, <2>3, UpgradeKept DEF Strong, TailIsOrderly, At, RestartGoesOn
  <2> QED BY <2>4, <2>6, <2>7, <2>8, <2>9, OnTailKeeps, PackageKept DEF Strong
<1>9. ASSUME StopEnds PROVE Strong'
  <2>1. queue # <<>>
    BY <1>9 DEF At, Strong, TailIsOrderly, StopEnds
  <2>2. Running \in Job /\ Running \in Queued
    BY <2>1, HeadIsQueued
  <2>3. /\ queue' \in Seq(Job) /\ Queued' \subseteq Queued /\ work' = "idle"
        /\ kind' = kind /\ target' = target /\ watched' = watched
        /\ \A j \in Job : j # Running => status'[j] = status[j]
        /\ \/ status'[Running] = "succeeded" /\ durable' = durable \cup {Running}
           \/ status'[Running] = "failed" /\ durable' = durable
    BY <1>9, <2>1, SettleFacts DEF StopEnds
  <2>4. OnTail
    BY <1>9, <2>1, <2>2, <2>3 DEF TypeOK, Strong, TailIsOrderly, OnTail, Quiet, At, StopEnds
  <2>5. Deserted => Deserted'
    BY <2>4, OnTailKeeps
  <2>6. TailIsOrderly'
    BY <1>9, <2>1, <2>2, <2>3, QueuedAreJobs DEF TypeOK, Strong, TailIsOrderly, Beside, At, StopEnds
  <2>7. MarkedLeaves'
    BY <1>9, <2>1, <2>2, <2>3, <2>5 DEF TypeOK, Strong, TailIsOrderly, MarkedLeaves, Deserted, Quiet, Beside, At, StopEnds
  <2>8. PendingIsSealed'
    BY <1>9, <2>1, <2>2, <2>3, PackageKept DEF TypeOK, Strong, TailIsOrderly, PendingIsSealed, At, StopEnds
  <2>9. UpgradeIsOnRecord'
    BY <1>9, <2>1, <2>2, <2>3, UpgradeKept DEF Strong, TailIsOrderly, At, StopEnds
  <2> QED BY <2>4, <2>6, <2>7, <2>8, <2>9, OnTailKeeps, PackageKept DEF Strong
<1>10. ASSUME ShutdownDone PROVE Strong'
  <2>1. queue # <<>>
    BY <1>10 DEF At, Strong, TailIsOrderly, ShutdownDone
  <2>2. Running \in Job /\ Running \in Queued
    BY <2>1, HeadIsQueued
  <2>3. /\ queue' \in Seq(Job) /\ Queued' \subseteq Queued /\ work' = "idle"
        /\ kind' = kind /\ target' = target /\ watched' = watched
        /\ \A j \in Job : j # Running => status'[j] = status[j]
        /\ \/ status'[Running] = "succeeded" /\ durable' = durable \cup {Running}
           \/ status'[Running] = "failed" /\ durable' = durable
    BY <1>10, <2>1, SettleFacts DEF ShutdownDone
  <2>4. OnTail
    BY <1>10, <2>1, <2>2, <2>3 DEF TypeOK, Strong, TailIsOrderly, OnTail, Quiet, At, ShutdownDone
  <2>5. Deserted => Deserted'
    BY <2>4, OnTailKeeps
  <2>6. TailIsOrderly'
    BY <1>10, <2>1, <2>2, <2>3, QueuedAreJobs DEF TypeOK, Strong, TailIsOrderly, Beside, At, ShutdownDone
  <2>7. MarkedLeaves'
    BY <1>10, <2>1, <2>2, <2>3, <2>5 DEF TypeOK, Strong, TailIsOrderly, MarkedLeaves, Deserted, Quiet, Beside, At, ShutdownDone
  <2>8. PendingIsSealed'
    BY <1>10, <2>1, <2>2, <2>3, PackageKept DEF TypeOK, Strong, TailIsOrderly, PendingIsSealed, At, ShutdownDone
  <2>9. UpgradeIsOnRecord'
    BY <1>10, <2>1, <2>2, <2>3, UpgradeKept DEF Strong, TailIsOrderly, At, ShutdownDone
  <2> QED BY <2>4, <2>6, <2>7, <2>8, <2>9, OnTailKeeps, PackageKept DEF Strong
<1> QED BY <1>1, <1>2, <1>3, <1>4, <1>5, <1>6, <1>7, <1>8, <1>9, <1>10

\* The steps of an upgrade that the Supervisor takes part in.
LEMMA UpgradePreserves ==
  ASSUME TypeOK, TypeOK', Strong,
         \/ BeginUpgrade
         \/ \E s \in Space : UpgradeStopFails(s)
         \/ UpgradeDone
         \/ UpgradeEnds
  PROVE  Strong'
<1> USE NoneAssumption DEF exits, seals, jobs
<1>1. ASSUME BeginUpgrade PROVE Strong'
  <2>1. queue # <<>>
    BY <1>1 DEF At, Strong, TailIsOrderly, BeginUpgrade, Refused, WriteMarker, MayExecute, HasEvidence, NoMarker, Package
  <2>2. Running \in Job /\ Running \in Queued
    BY <2>1, HeadIsQueued
  <2>3. Running' = Running /\ Queued' = Queued /\ queue' = queue
    BY <1>1, SameQueue DEF BeginUpgrade, Refused, WriteMarker, MayExecute, HasEvidence, NoMarker, Package
  <2>4. OnTail
    BY <1>1, <2>1, <2>2, <2>3 DEF TypeOK, Strong, TailIsOrderly, OnTail, Quiet, At, BeginUpgrade, Refused, WriteMarker, MayExecute, HasEvidence, NoMarker, Package
  <2>5. Deserted => Deserted'
    BY <2>4, OnTailKeeps
  <2>6. TailIsOrderly'
    BY <1>1, <2>1, <2>2, <2>3 DEF TypeOK, Strong, TailIsOrderly, Beside, At, BeginUpgrade, Refused, WriteMarker, MayExecute, HasEvidence, NoMarker, Package
  <2>7. MarkedLeaves'
    BY <1>1, <2>1, <2>2, <2>3, <2>5 DEF TypeOK, Strong, TailIsOrderly, MarkedLeaves, Deserted, Quiet, Beside, At, BeginUpgrade, Refused, WriteMarker, MayExecute, HasEvidence, NoMarker, Package
  <2>8. PendingIsSealed'
    BY <1>1, <2>1, <2>2, <2>3 DEF TypeOK, Strong, TailIsOrderly, PendingIsSealed, At, BeginUpgrade, Refused, WriteMarker, MayExecute, HasEvidence, NoMarker, Package
  <2>9. UpgradeIsOnRecord'
    BY <1>1, <2>1, <2>2, <2>3 DEF TypeOK, PackageTypeOK, Strong, UpgradeIsOnRecord, At, BeginUpgrade, Refused, WriteMarker, MayExecute, HasEvidence, NoMarker, Package
  <2>10. EvidenceIsMaintenance'
    BY <1>1, <2>1, <2>2, <2>3 DEF TypeOK, PackageTypeOK, Strong, UpgradeIsOnRecord, EvidenceIsMaintenance, HasEvidence, At, BeginUpgrade, Refused, WriteMarker, MayExecute, HasEvidence, NoMarker, Package
  <2>11. ReplacedIsRecorded'
    BY <1>1, <2>1, <2>2, <2>3 DEF TypeOK, PackageTypeOK, Strong, UpgradeIsOnRecord, ReplacedIsRecorded, At, BeginUpgrade, Refused, WriteMarker, MayExecute, HasEvidence, NoMarker, Package
  <2> QED BY <2>4, <2>6, <2>7, <2>8, <2>9, <2>10, <2>11, OnTailKeeps DEF Strong
<1>2. ASSUME NEW s \in Space, UpgradeStopFails(s) PROVE Strong'
  <2>1. queue # <<>>
    BY <1>2 DEF At, Strong, TailIsOrderly, UpgradeStopFails, Fails, Package, Current, HasEvidence, NoMarker, Archive, Verified
  <2>2. Running \in Job /\ Running \in Queued
    BY <2>1, HeadIsQueued
  <2>3. Running' = Running /\ Queued' = Queued /\ queue' = queue
    BY <1>2, SameQueue DEF UpgradeStopFails, Fails, Package, Current, HasEvidence, NoMarker, Archive, Verified
  <2>4. OnTail
    BY <1>2, <2>1, <2>2, <2>3 DEF TypeOK, Strong, TailIsOrderly, OnTail, Quiet, At, UpgradeStopFails, Fails, Package, Current, HasEvidence, NoMarker, Archive, Verified
  <2>5. Deserted => Deserted'
    BY <2>4, OnTailKeeps
  <2>6. TailIsOrderly'
    BY <1>2, <2>1, <2>2, <2>3 DEF TypeOK, Strong, TailIsOrderly, Beside, At, UpgradeStopFails, Fails, Package, Current, HasEvidence, NoMarker, Archive, Verified
  <2>7. MarkedLeaves'
    BY <1>2, <2>1, <2>2, <2>3, <2>5 DEF TypeOK, Strong, TailIsOrderly, MarkedLeaves, Deserted, Quiet, Beside, At, UpgradeStopFails, Fails, Package, Current, HasEvidence, NoMarker, Archive, Verified
  <2>8. PendingIsSealed'
    BY <1>2, <2>1, <2>2, <2>3 DEF TypeOK, Strong, TailIsOrderly, PendingIsSealed, At, UpgradeStopFails, Fails, Package, Current, HasEvidence, NoMarker, Archive, Verified
  <2>9. UpgradeIsOnRecord'
    BY <1>2, <2>1, <2>2, <2>3 DEF TypeOK, PackageTypeOK, Strong, UpgradeIsOnRecord, At, UpgradeStopFails, Fails, Package, Current, HasEvidence, NoMarker, Archive, Verified
  <2>10. EvidenceIsMaintenance'
    BY <1>2, <2>1, <2>2, <2>3 DEF TypeOK, PackageTypeOK, Strong, UpgradeIsOnRecord, EvidenceIsMaintenance, HasEvidence, At, UpgradeStopFails, Fails, Package, Current, HasEvidence, NoMarker, Archive, Verified
  <2>11. ReplacedIsRecorded'
    BY <1>2, <2>1, <2>2, <2>3 DEF TypeOK, PackageTypeOK, Strong, UpgradeIsOnRecord, ReplacedIsRecorded, At, UpgradeStopFails, Fails, Package, Current, HasEvidence, NoMarker, Archive, Verified
  <2> QED BY <2>4, <2>6, <2>7, <2>8, <2>9, <2>10, <2>11, OnTailKeeps DEF Strong
<1>3. ASSUME UpgradeDone PROVE Strong'
  <2>1. queue # <<>>
    BY <1>3 DEF At, Strong, TailIsOrderly, UpgradeDone, HandedOver, Package, Verified, Current, HasEvidence
  <2>2. Running \in Job /\ Running \in Queued
    BY <2>1, HeadIsQueued
  <2>3. Running' = Running /\ Queued' = Queued /\ queue' = queue
    BY <1>3, SameQueue DEF UpgradeDone, HandedOver, Package, Verified, Current, HasEvidence
  <2>4. OnTail
    BY <1>3, <2>1, <2>2, <2>3 DEF TypeOK, Strong, TailIsOrderly, OnTail, Quiet, At, UpgradeDone, HandedOver, Package, Verified, Current, HasEvidence
  <2>5. Deserted => Deserted'
    BY <2>4, OnTailKeeps
  <2>6. TailIsOrderly'
    BY <1>3, <2>1, <2>2, <2>3 DEF TypeOK, Strong, TailIsOrderly, Beside, At, UpgradeDone, HandedOver, Package, Verified, Current, HasEvidence
  <2>7. MarkedLeaves'
    BY <1>3, <2>1, <2>2, <2>3, <2>5 DEF TypeOK, Strong, TailIsOrderly, MarkedLeaves, Deserted, Quiet, Beside, At, UpgradeDone, HandedOver, Package, Verified, Current, HasEvidence
  <2>8. PendingIsSealed'
    BY <1>3, <2>1, <2>2, <2>3 DEF TypeOK, Strong, TailIsOrderly, PendingIsSealed, At, UpgradeDone, HandedOver, Package, Verified, Current, HasEvidence
  <2>9. UpgradeIsOnRecord'
    BY <1>3, <2>1, <2>2, <2>3 DEF TypeOK, PackageTypeOK, Strong, UpgradeIsOnRecord, At, UpgradeDone, HandedOver, Package, Verified, Current, HasEvidence
  <2>10. EvidenceIsMaintenance'
    BY <1>3, <2>1, <2>2, <2>3 DEF TypeOK, PackageTypeOK, Strong, UpgradeIsOnRecord, EvidenceIsMaintenance, HasEvidence, At, UpgradeDone, HandedOver, Package, Verified, Current, HasEvidence
  <2>11. ReplacedIsRecorded'
    BY <1>3, <2>1, <2>2, <2>3 DEF TypeOK, PackageTypeOK, Strong, UpgradeIsOnRecord, ReplacedIsRecorded, At, UpgradeDone, HandedOver, Package, Verified, Current, HasEvidence
  <2> QED BY <2>4, <2>6, <2>7, <2>8, <2>9, <2>10, <2>11, OnTailKeeps DEF Strong
<1>4. ASSUME UpgradeEnds PROVE Strong'
  <2>1. queue # <<>>
    BY <1>4 DEF At, Strong, TailIsOrderly, UpgradeEnds, Return, Package, HasEvidence
  <2>2. Running \in Job /\ Running \in Queued
    BY <2>1, HeadIsQueued
  <2>3. /\ queue' \in Seq(Job) /\ Queued' \subseteq Queued /\ work' = "idle"
        /\ kind' = kind /\ target' = target /\ watched' = watched
        /\ \A j \in Job : j # Running => status'[j] = status[j]
        /\ \/ Succeeded /\ status'[Running] = "succeeded" /\ durable' = durable \cup {Running}
           \/ status'[Running] = "failed" /\ durable' = durable
    BY <1>4, <2>1, SettleFacts DEF UpgradeEnds, Return, Package, HasEvidence
  <2>4. OnTail
    BY <1>4, <2>1, <2>2, <2>3 DEF TypeOK, Strong, TailIsOrderly, OnTail, Quiet, At, UpgradeEnds, Return, Package, HasEvidence
  <2>5. Deserted => Deserted'
    BY <2>4, OnTailKeeps
  <2>6. TailIsOrderly'
    BY <1>4, <2>1, <2>2, <2>3, QueuedAreJobs DEF TypeOK, Strong, TailIsOrderly, Beside, At, UpgradeEnds, Return, Package, HasEvidence
  <2>7. MarkedLeaves'
    BY <1>4, <2>1, <2>2, <2>3, <2>5 DEF TypeOK, Strong, TailIsOrderly, MarkedLeaves, Deserted, Quiet, Beside, At, UpgradeEnds, Return, Package, HasEvidence
  <2>8. PendingIsSealed'
    BY <1>4, <2>1, <2>2, <2>3, ZenonT(60) DEF TypeOK, Strong, TailIsOrderly, PendingIsSealed, UpgradeIsOnRecord, Delivered, Succeeded, HasEvidence, At, UpgradeEnds, Return
  <2>9. UpgradeIsOnRecord'
    BY <1>4, <2>1, <2>2, <2>3 DEF TypeOK, PackageTypeOK, Strong, UpgradeIsOnRecord, At, UpgradeEnds, Return, Package, HasEvidence
  <2>10. EvidenceIsMaintenance'
    BY <1>4, <2>1, <2>2, <2>3 DEF TypeOK, PackageTypeOK, Strong, UpgradeIsOnRecord, EvidenceIsMaintenance, HasEvidence, At, UpgradeEnds, Return, Package, HasEvidence
  <2>11. ReplacedIsRecorded'
    BY <1>4, <2>1, <2>2, <2>3 DEF TypeOK, PackageTypeOK, Strong, UpgradeIsOnRecord, ReplacedIsRecorded, At, UpgradeEnds, Return, Package, HasEvidence
  <2> QED BY <2>4, <2>6, <2>7, <2>8, <2>9, <2>10, <2>11, OnTailKeeps DEF Strong
<1> QED BY <1>1, <1>2, <1>3, <1>4

\* The other steps of execute() change nothing but the package.
Pack ==
  /\ phase = "verify" /\ Verified /\ phase' = "artifacts"
  /\ UNCHANGED <<marker, receipts, installed, maintenance, settlement>>

LEMMA PackagePreserves ==
  ASSUME TypeOK, TypeOK', Strong, At("upgrade"), UNCHANGED runtime,
         \/ TakeSnapshot \/ InstallCandidate \/ InstallsTorn \/ Fails
         \/ WriteReceipt \/ ClearMarker \/ SettleFails \/ Pack
  PROVE  Strong'
<1> USE NoneAssumption DEF runtime
<1>1. Running \in Job /\ Running' = Running /\ Queued' = Queued /\ Beside' = Beside
  BY HeadIsQueued, SameQueue DEF At, Beside
<1>2. OnTail  BY DEF OnTail, Quiet, At
<1>3. Deserted' = Deserted  BY <1>1 DEF Deserted, Quiet
<1>4. TailIsOrderly'  BY <1>1 DEF Strong, TailIsOrderly
<1>5. MarkedLeaves'  BY <1>1, <1>3 DEF Strong, MarkedLeaves
<1>6. PendingIsSealed'  BY <1>1 DEF Strong, PendingIsSealed, At
<1> USE DEF TypeOK, PackageTypeOK, Strong, UpgradeIsOnRecord, At
<1>7. ASSUME TakeSnapshot PROVE UpgradeIsOnRecord' /\ EvidenceIsMaintenance' /\ ReplacedIsRecorded'
  <2>1. UpgradeIsOnRecord'  BY <1>1, <1>7 DEF TakeSnapshot, Package, HasEvidence, NoMarker
  <2>2. EvidenceIsMaintenance'  BY <1>7 DEF EvidenceIsMaintenance, TakeSnapshot, Package, HasEvidence, NoMarker
  <2>3. ReplacedIsRecorded'  BY <1>1, <1>7 DEF ReplacedIsRecorded, TakeSnapshot, Package, HasEvidence, NoMarker
  <2> QED BY <2>1, <2>2, <2>3
<1>8. ASSUME InstallCandidate PROVE UpgradeIsOnRecord' /\ EvidenceIsMaintenance' /\ ReplacedIsRecorded'
  <2>1. UpgradeIsOnRecord'  BY <1>1, <1>8 DEF InstallCandidate, Package, Current, Archive, HasEvidence, NoReceipt
  <2>2. EvidenceIsMaintenance'  BY <1>8 DEF EvidenceIsMaintenance, InstallCandidate, Package, Current, Archive, HasEvidence, NoReceipt
  <2>3. ReplacedIsRecorded'  BY <1>1, <1>8 DEF ReplacedIsRecorded, InstallCandidate, Package, Current, Archive, HasEvidence, NoReceipt
  <2> QED BY <2>1, <2>2, <2>3
<1>9. ASSUME InstallsTorn PROVE UpgradeIsOnRecord' /\ EvidenceIsMaintenance' /\ ReplacedIsRecorded'
  <2>1. UpgradeIsOnRecord'  BY <1>1, <1>9 DEF InstallsTorn, Package, Current, Archive, HasEvidence, NoReceipt
  <2>2. EvidenceIsMaintenance'  BY <1>9 DEF EvidenceIsMaintenance, InstallsTorn, Package, Current, Archive, HasEvidence, NoReceipt
  <2>3. ReplacedIsRecorded'  BY <1>1, <1>9, SMTT(30) DEF ReplacedIsRecorded, InstallsTorn, Package, Current, Archive, HasEvidence, NoReceipt
  <2> QED BY <2>1, <2>2, <2>3
<1>10. ASSUME Fails PROVE UpgradeIsOnRecord' /\ EvidenceIsMaintenance' /\ ReplacedIsRecorded'
  <2>1. UpgradeIsOnRecord'  BY <1>1, <1>10 DEF Fails, Package, Current, Archive, HasEvidence, NoReceipt, NoMarker
  <2>2. EvidenceIsMaintenance'  BY <1>10 DEF EvidenceIsMaintenance, Fails, Package, Current, Archive, HasEvidence, NoReceipt, NoMarker
  <2>3. ReplacedIsRecorded'  BY <1>1, <1>10 DEF ReplacedIsRecorded, Fails, Package, Current, Archive, HasEvidence, NoReceipt, NoMarker
  <2> QED BY <2>1, <2>2, <2>3
<1>11. ASSUME WriteReceipt PROVE UpgradeIsOnRecord' /\ EvidenceIsMaintenance' /\ ReplacedIsRecorded'
  <2>a. /\ receipts'[Running] = [outcome |-> settlement, snapshot |-> marker.snapshot]
        /\ \A j \in Job : j # Running => receipts'[j] = receipts[j]
        /\ settlement # None /\ marker.plan = Running /\ receipts[Running] = NoReceipt
        /\ UNCHANGED <<marker, installed>>
    BY <1>1, <1>11 DEF WriteReceipt, Package, Current, HasEvidence, NoReceipt
  <2>1. UpgradeIsOnRecord'  BY <1>1, <1>11, <2>a DEF WriteReceipt, Package, HasEvidence, NoMarker
  <2>2. EvidenceIsMaintenance'  BY <1>11 DEF EvidenceIsMaintenance, WriteReceipt, Package, Current, HasEvidence, NoReceipt
  <2>3. ReplacedIsRecorded'
    <3> SUFFICES ASSUME NEW p \in Package, installed[p].plan # None
                 PROVE  LET j == installed[p].plan IN
                        /\ \/ marker'.plan = j /\ marker'.snapshot
                           \/ receipts'[j].outcome # None /\ receipts'[j].snapshot
                        /\ receipts'[j].outcome = "succeeded" => installed'[p].whole
      BY <2>a DEF ReplacedIsRecorded
    <3>1. installed[p].plan \in Job  BY DEF Archives
    <3>2. CASE installed[p].plan = Running
      <4>1. marker.snapshot  BY <2>a, <3>2 DEF ReplacedIsRecorded, NoReceipt
      <4>2. settlement = "succeeded" => installed[p] = Archive(Running, TRUE)
        BY <1>11 DEF WriteReceipt
      <4> QED BY <2>a, <3>2, <4>1, <4>2 DEF Archive
    <3>3. CASE installed[p].plan # Running
      BY <2>a, <3>1, <3>3 DEF ReplacedIsRecorded
    <3> QED BY <3>2, <3>3
  <2> QED BY <2>1, <2>2, <2>3
<1>12. ASSUME ClearMarker PROVE UpgradeIsOnRecord' /\ EvidenceIsMaintenance' /\ ReplacedIsRecorded'
  <2>a. HasEvidence /\ (phase = "clear" => receipts[Running].outcome = settlement)
    BY <1>1, <1>12 DEF ClearMarker, Package, Current, HasEvidence, NoMarker
  <2>1. UpgradeIsOnRecord'  BY <1>1, <1>12, <2>a DEF ClearMarker, Package, HasEvidence
  <2>2. EvidenceIsMaintenance'  BY <1>12 DEF EvidenceIsMaintenance, ClearMarker, Package, Current, HasEvidence, NoMarker
  <2>3. ReplacedIsRecorded'  BY <1>1, <1>12 DEF ReplacedIsRecorded, ClearMarker, Package, Current, HasEvidence, NoMarker
  <2> QED BY <2>1, <2>2, <2>3
<1>13. ASSUME SettleFails PROVE UpgradeIsOnRecord' /\ EvidenceIsMaintenance' /\ ReplacedIsRecorded'
  <2>a. HasEvidence /\ (phase = "clear" => receipts[Running].outcome = settlement)
    BY <1>1, <1>13 DEF SettleFails, Package, HasEvidence, NoMarker
  <2>1. UpgradeIsOnRecord'  BY <1>1, <1>13, <2>a DEF SettleFails, Package, HasEvidence
  <2>2. EvidenceIsMaintenance'  BY <1>13 DEF EvidenceIsMaintenance, SettleFails, Package, HasEvidence, NoMarker
  <2>3. ReplacedIsRecorded'  BY <1>1, <1>13 DEF ReplacedIsRecorded, SettleFails, Package, HasEvidence, NoMarker
  <2> QED BY <2>1, <2>2, <2>3
<1>14. ASSUME Pack PROVE UpgradeIsOnRecord' /\ EvidenceIsMaintenance' /\ ReplacedIsRecorded'
  <2>1. UpgradeIsOnRecord'  BY <1>1, <1>14 DEF Pack, Package, Verified, Current, HasEvidence
  <2>2. EvidenceIsMaintenance'  BY <1>14 DEF EvidenceIsMaintenance, Pack, Package, Verified, Current, HasEvidence
  <2>3. ReplacedIsRecorded'  BY <1>1, <1>14 DEF ReplacedIsRecorded, Pack, Package, Verified, Current, HasEvidence
  <2> QED BY <2>1, <2>2, <2>3
<1> QED BY <1>2, <1>4, <1>5, <1>6, <1>7, <1>8, <1>9, <1>10, <1>11, <1>12, <1>13, <1>14, OnTailKeeps

\* Nothing is started by the tail while it is quiet, nor any right given up.
LEMMA JobsAreQuiet == ASSUME RunJob PROVE rights' = rights /\ (Quiet => children' \subseteq children)
  BY DEF RunJob, RunUpgrade, BeginUpgrade, UpgradeStopFails, UpgradeStep, UpgradePacks,
         UpgradeDone, UpgradeEnds, Begin, AdmitStart, RefuseStart, StartSpace, StopOne, StopFails,
         StopDone, ShutdownDone, exits, runtime, At, Quiet

-----------------------------------------------------------------------------
(* Types. *)

LEMMA PackageTypeKept == ASSUME PackageTypeOK, UNCHANGED package PROVE PackageTypeOK'
  BY DEF PackageTypeOK, package

\* Taking in a job.
LEMMA SubmitTypes ==
  ASSUME TypeOK, Strong, UNCHANGED package,
         \/ \E j \in Job, k \in Kind, s \in Space : Submit(j, k, s)
  PROVE  TypeOK'
<1> USE ManagerAssumption DEF TypeOK, exits, seals, jobs
<1>0. PackageTypeOK'  BY PackageTypeKept
<1>1. ASSUME NEW j \in Job, NEW k \in Kind, NEW s \in Space, Submit(j, k, s) PROVE TypeOK'
  <2> QED BY <1>1, <1>0, QueueFacts DEF Submit
<1> QED BY <1>1

\* The handlers.
LEMMA HandlerTypes ==
  ASSUME TypeOK, Strong, UNCHANGED package,
         \/ RefuseBegin
         \/ Admit
         \/ AdmitStart
         \/ RefuseStart
         \/ StartSpace
         \/ \E s \in Space : StopOne(s)
         \/ \E s \in Space : StopFails(s)
         \/ RestartGoesOn
         \/ StopEnds
         \/ ShutdownDone
  PROVE  TypeOK'
<1> USE ManagerAssumption DEF TypeOK, exits, seals, jobs
<1>0. PackageTypeOK'  BY PackageTypeKept
<1>1. ASSUME RefuseBegin PROVE TypeOK'
  <2>1. queue # <<>>  BY <1>1 DEF At, Strong, TailIsOrderly, RefuseBegin, Refused
  <2>2. Running \in Job /\ kind[Running] \in Kind /\ target[Running] \in Space
    BY <2>1, HeadIsQueued DEF Strong, TailIsOrderly
  <2>3. /\ queue' \in Seq(Job) /\ work' = "idle"
        /\ kind' = kind /\ target' = target /\ watched' = watched
        /\ status' \in [Job -> {"new", "queued", "succeeded", "failed"}] /\ durable' \subseteq Job
    BY <1>1, <2>1, SettleFacts DEF RefuseBegin, Refused
  <2> QED BY <1>1, <1>0, <2>2, <2>3 DEF RefuseBegin, Refused
<1>2. ASSUME Admit PROVE TypeOK'
  <2>1. queue # <<>>  BY <1>2 DEF At, Strong, TailIsOrderly, Admit, Refused, FirstStep, Kind
  <2>2. Running \in Job /\ kind[Running] \in Kind /\ target[Running] \in Space
    BY <2>1, HeadIsQueued DEF Strong, TailIsOrderly
  <2> QED BY <1>2, <1>0, <2>2 DEF Admit, Refused, FirstStep, Kind
<1>3. ASSUME AdmitStart PROVE TypeOK'
  <2>1. queue # <<>>  BY <1>3 DEF At, Strong, TailIsOrderly, AdmitStart
  <2>2. Running \in Job /\ kind[Running] \in Kind /\ target[Running] \in Space
    BY <2>1, HeadIsQueued DEF Strong, TailIsOrderly
  <2> QED BY <1>3, <1>0, <2>2 DEF AdmitStart
<1>4. ASSUME RefuseStart PROVE TypeOK'
  <2>1. queue # <<>>  BY <1>4 DEF At, Strong, TailIsOrderly, RefuseStart
  <2>2. Running \in Job /\ kind[Running] \in Kind /\ target[Running] \in Space
    BY <2>1, HeadIsQueued DEF Strong, TailIsOrderly
  <2>3. /\ queue' \in Seq(Job) /\ work' = "idle"
        /\ kind' = kind /\ target' = target /\ watched' = watched
        /\ status' \in [Job -> {"new", "queued", "succeeded", "failed"}] /\ durable' \subseteq Job
    BY <1>4, <2>1, SettleFacts DEF RefuseStart
  <2> QED BY <1>4, <1>0, <2>2, <2>3 DEF RefuseStart
<1>5. ASSUME StartSpace PROVE TypeOK'
  <2>1. queue # <<>>  BY <1>5 DEF At, Strong, TailIsOrderly, StartSpace
  <2>2. Running \in Job /\ kind[Running] \in Kind /\ target[Running] \in Space
    BY <2>1, HeadIsQueued DEF Strong, TailIsOrderly
  <2>3. /\ queue' \in Seq(Job) /\ work' = "idle"
        /\ kind' = kind /\ target' = target /\ watched' = watched
        /\ status' \in [Job -> {"new", "queued", "succeeded", "failed"}] /\ durable' \subseteq Job
    BY <1>5, <2>1, SettleFacts DEF StartSpace
  <2>5. children' \subseteq Space  BY <1>5, <2>2 DEF StartSpace
  <2> QED BY <1>5, <1>0, <2>2, <2>3, <2>5 DEF StartSpace
<1>6. ASSUME NEW s \in Space, StopOne(s) PROVE TypeOK'
  <2>1. queue # <<>>  BY <1>6 DEF At, Strong, TailIsOrderly, StopOne
  <2>2. Running \in Job /\ kind[Running] \in Kind /\ target[Running] \in Space
    BY <2>1, HeadIsQueued DEF Strong, TailIsOrderly
  <2> QED BY <1>6, <1>0, <2>2 DEF StopOne
<1>7. ASSUME NEW s \in Space, StopFails(s) PROVE TypeOK'
  <2>1. queue # <<>>  BY <1>7 DEF At, Strong, TailIsOrderly, StopFails
  <2>2. Running \in Job /\ kind[Running] \in Kind /\ target[Running] \in Space
    BY <2>1, HeadIsQueued DEF Strong, TailIsOrderly
  <2>3. /\ queue' \in Seq(Job) /\ work' = "idle"
        /\ kind' = kind /\ target' = target /\ watched' = watched
        /\ status' \in [Job -> {"new", "queued", "succeeded", "failed"}] /\ durable' \subseteq Job
    BY <1>7, <2>1, SettleFacts DEF StopFails
  <2>5. sealing' \in BOOLEAN /\ maintenanceBlocked' \in BOOLEAN  BY <1>7, Zenon DEF StopFails
  <2>6. handle' \in BOOLEAN /\ closed' \in BOOLEAN  BY <1>7, Zenon DEF StopFails
  <2> QED BY <1>7, <1>0, <2>2, <2>3, <2>5, <2>6 DEF StopFails
<1>8. ASSUME RestartGoesOn PROVE TypeOK'
  <2>1. queue # <<>>  BY <1>8 DEF At, Strong, TailIsOrderly, RestartGoesOn
  <2>2. Running \in Job /\ kind[Running] \in Kind /\ target[Running] \in Space
    BY <2>1, HeadIsQueued DEF Strong, TailIsOrderly
  <2> QED BY <1>8, <1>0, <2>2 DEF RestartGoesOn
<1>9. ASSUME StopEnds PROVE TypeOK'
  <2>1. queue # <<>>  BY <1>9 DEF At, Strong, TailIsOrderly, StopEnds
  <2>2. Running \in Job /\ kind[Running] \in Kind /\ target[Running] \in Space
    BY <2>1, HeadIsQueued DEF Strong, TailIsOrderly
  <2>3. /\ queue' \in Seq(Job) /\ work' = "idle"
        /\ kind' = kind /\ target' = target /\ watched' = watched
        /\ status' \in [Job -> {"new", "queued", "succeeded", "failed"}] /\ durable' \subseteq Job
    BY <1>9, <2>1, SettleFacts DEF StopEnds
  <2> QED BY <1>9, <1>0, <2>2, <2>3 DEF StopEnds
<1>10. ASSUME ShutdownDone PROVE TypeOK'
  <2>1. queue # <<>>  BY <1>10 DEF At, Strong, TailIsOrderly, ShutdownDone
  <2>2. Running \in Job /\ kind[Running] \in Kind /\ target[Running] \in Space
    BY <2>1, HeadIsQueued DEF Strong, TailIsOrderly
  <2>3. /\ queue' \in Seq(Job) /\ work' = "idle"
        /\ kind' = kind /\ target' = target /\ watched' = watched
        /\ status' \in [Job -> {"new", "queued", "succeeded", "failed"}] /\ durable' \subseteq Job
    BY <1>10, <2>1, SettleFacts DEF ShutdownDone
  <2> QED BY <1>10, <1>0, <2>2, <2>3 DEF ShutdownDone
<1> QED BY <1>1, <1>2, <1>3, <1>4, <1>5, <1>6, <1>7, <1>8, <1>9, <1>10

\* The upgrade.
LEMMA UpgradeTypes ==
  ASSUME TypeOK, Strong,
         \/ BeginUpgrade
         \/ \E s \in Space : UpgradeStopFails(s)
         \/ UpgradeDone
         \/ UpgradeEnds
  PROVE  TypeOK'
<1> USE ManagerAssumption DEF TypeOK, exits, seals, jobs
<1>1. ASSUME BeginUpgrade PROVE TypeOK'
  <2>1. queue # <<>>  BY <1>1 DEF At, Strong, TailIsOrderly, BeginUpgrade, WriteMarker, NoMarker, Package
  <2>2. Running \in Job /\ kind[Running] \in Kind /\ target[Running] \in Space
    BY <2>1, HeadIsQueued DEF Strong, TailIsOrderly
  <2>4. PackageTypeOK'
    BY <1>1, <2>2 DEF PackageTypeOK, Archives, At, Strong, UpgradeIsOnRecord, BeginUpgrade, WriteMarker, NoMarker, Package
  <2> QED BY <1>1, <2>2, <2>4 DEF BeginUpgrade, WriteMarker, NoMarker, Package
<1>2. ASSUME NEW s \in Space, UpgradeStopFails(s) PROVE TypeOK'
  <2>1. queue # <<>>  BY <1>2 DEF At, Strong, TailIsOrderly, UpgradeStopFails, Fails, Package, Current, Archive
  <2>2. Running \in Job /\ kind[Running] \in Kind /\ target[Running] \in Space
    BY <2>1, HeadIsQueued DEF Strong, TailIsOrderly
  <2>4. PackageTypeOK'
    BY <1>2, <2>2 DEF PackageTypeOK, Archives, At, Strong, UpgradeIsOnRecord, UpgradeStopFails, Fails, Package, Current, Archive
  <2> QED BY <1>2, <2>2, <2>4 DEF UpgradeStopFails, Fails, Package, Current, Archive
<1>3. ASSUME UpgradeDone PROVE TypeOK'
  <2>1. queue # <<>>  BY <1>3 DEF At, Strong, TailIsOrderly, UpgradeDone, HandedOver, Package
  <2>2. Running \in Job /\ kind[Running] \in Kind /\ target[Running] \in Space
    BY <2>1, HeadIsQueued DEF Strong, TailIsOrderly
  <2>4. PackageTypeOK'
    BY <1>3, <2>2 DEF PackageTypeOK, Archives, At, Strong, UpgradeIsOnRecord, UpgradeDone, HandedOver, Package
  <2> QED BY <1>3, <2>2, <2>4 DEF UpgradeDone, HandedOver, Package
<1>4. ASSUME UpgradeEnds PROVE TypeOK'
  <2>1. queue # <<>>  BY <1>4 DEF At, Strong, TailIsOrderly, UpgradeEnds, Return, Package, HasEvidence
  <2>2. Running \in Job /\ kind[Running] \in Kind /\ target[Running] \in Space
    BY <2>1, HeadIsQueued DEF Strong, TailIsOrderly
  <2>3. /\ queue' \in Seq(Job) /\ work' = "idle"
        /\ kind' = kind /\ target' = target /\ watched' = watched
        /\ status' \in [Job -> {"new", "queued", "succeeded", "failed"}] /\ durable' \subseteq Job
    BY <1>4, <2>1, SettleFacts DEF UpgradeEnds, Return, Package, HasEvidence
  <2>4. PackageTypeOK'
    BY <1>4, <2>2 DEF PackageTypeOK, Archives, At, Strong, UpgradeIsOnRecord, UpgradeEnds, Return, Package, HasEvidence
  <2> QED BY <1>4, <2>2, <2>3, <2>4 DEF UpgradeEnds, Return, Package, HasEvidence
<1> QED BY <1>1, <1>2, <1>3, <1>4

\* The start of the manager beside the jobs.
LEMMA StartupTypes ==
  ASSUME TypeOK, Strong, UNCHANGED package,
         \/ AdmitManager
         \/ StartManager
  PROVE  TypeOK'
<1> USE ManagerAssumption DEF TypeOK, exits, seals, jobs
<1>0. PackageTypeOK'  BY PackageTypeKept
<1>1. ASSUME AdmitManager PROVE TypeOK'
  <2> QED BY <1>1, <1>0 DEF AdmitManager
<1>2. ASSUME StartManager PROVE TypeOK'
  <2> QED BY <1>2, <1>0 DEF StartManager
<1> QED BY <1>1, <1>2

\* The continuations that give up the rights.
LEMMA LeavingTypes ==
  ASSUME TypeOK, Strong, UNCHANGED package,
         \/ \E j \in Job : AfterHandoffJob(j)
         \/ \E j \in Job : AfterShutdownJob(j)
         \/ \E j \in Job : AfterOtherJob(j)
         \/ FinishRelinquish
         \/ Transfer
         \/ Commit
  PROVE  TypeOK'
<1> USE ManagerAssumption DEF TypeOK, exits, seals, jobs
<1>0. PackageTypeOK'  BY PackageTypeKept
<1>1. ASSUME NEW j \in Job, AfterHandoffJob(j) PROVE TypeOK'
  <2> QED BY <1>1, <1>0 DEF AfterHandoffJob, Persisted
<1>2. ASSUME NEW j \in Job, AfterShutdownJob(j) PROVE TypeOK'
  <2>5. sealing' \in BOOLEAN /\ maintenanceBlocked' \in BOOLEAN  BY <1>2, Zenon DEF AfterShutdownJob, Persisted
  <2>6. handle' \in BOOLEAN /\ closed' \in BOOLEAN  BY <1>2, Zenon DEF AfterShutdownJob, Persisted
  <2> QED BY <1>2, <1>0, <2>5, <2>6 DEF AfterShutdownJob, Persisted
<1>3. ASSUME NEW j \in Job, AfterOtherJob(j) PROVE TypeOK'
  <2> QED BY <1>3, <1>0 DEF AfterOtherJob
<1>4. ASSUME FinishRelinquish PROVE TypeOK'
  <2>5. sealing' \in BOOLEAN /\ maintenanceBlocked' \in BOOLEAN  BY <1>4, Zenon DEF FinishRelinquish, DropWritable
  <2>6. handle' \in BOOLEAN /\ closed' \in BOOLEAN  BY <1>4, Zenon DEF FinishRelinquish, DropWritable
  <2> QED BY <1>4, <1>0, <2>5, <2>6 DEF FinishRelinquish, DropWritable
<1>5. ASSUME Transfer PROVE TypeOK'
  <2> QED BY <1>5, <1>0 DEF Transfer
<1>6. ASSUME Commit PROVE TypeOK'
  <2>5. sealing' \in BOOLEAN /\ maintenanceBlocked' \in BOOLEAN  BY <1>6, Zenon DEF Commit
  <2>6. handle' \in BOOLEAN /\ closed' \in BOOLEAN  BY <1>6, Zenon DEF Commit
  <2> QED BY <1>6, <1>0, <2>5, <2>6 DEF Commit
<1> QED BY <1>1, <1>2, <1>3, <1>4, <1>5, <1>6

\* close() and the end of the process.
LEMMA CloseTypes ==
  ASSUME TypeOK, Strong, UNCHANGED package,
         \/ Close
         \/ CloseIdle
         \/ \E s \in Space : CloseStopOne(s)
         \/ \E s \in Space : CloseStopFails(s)
         \/ CloseDrop
         \/ Die
  PROVE  TypeOK'
<1> USE ManagerAssumption DEF TypeOK, exits, seals, jobs
<1>0. PackageTypeOK'  BY PackageTypeKept
<1>1. ASSUME Close PROVE TypeOK'
  <2>5. sealing' \in BOOLEAN /\ maintenanceBlocked' \in BOOLEAN  BY <1>1, Zenon DEF Close
  <2>6. handle' \in BOOLEAN /\ closed' \in BOOLEAN  BY <1>1, Zenon DEF Close
  <2> QED BY <1>1, <1>0, <2>5, <2>6 DEF Close
<1>2. ASSUME CloseIdle PROVE TypeOK'
  <2> QED BY <1>2, <1>0 DEF CloseIdle
<1>3. ASSUME NEW s \in Space, CloseStopOne(s) PROVE TypeOK'
  <2> QED BY <1>3, <1>0 DEF CloseStopOne
<1>4. ASSUME NEW s \in Space, CloseStopFails(s) PROVE TypeOK'
  <2> QED BY <1>4, <1>0 DEF CloseStopFails
<1>5. ASSUME CloseDrop PROVE TypeOK'
  <2>5. sealing' \in BOOLEAN /\ maintenanceBlocked' \in BOOLEAN  BY <1>5, Zenon DEF CloseDrop, DropWritable
  <2>6. handle' \in BOOLEAN /\ closed' \in BOOLEAN  BY <1>5, Zenon DEF CloseDrop, DropWritable
  <2> QED BY <1>5, <1>0, <2>5, <2>6 DEF CloseDrop, DropWritable
<1>6. ASSUME Die PROVE TypeOK'
  <2> QED BY <1>6, <1>0 DEF Die
<1> QED BY <1>1, <1>2, <1>3, <1>4, <1>5, <1>6

\* The steps of execute() alone.
LEMMA PackageTypes ==
  ASSUME TypeOK, Strong, At("upgrade"), UNCHANGED runtime,
         \/ TakeSnapshot \/ InstallCandidate \/ InstallsTorn \/ Fails
         \/ WriteReceipt \/ ClearMarker \/ SettleFails \/ Pack
  PROVE  TypeOK'
<1>1. Running \in Job  BY HeadIsQueued DEF At
<1>2. phase \notin {"none", "over"} => Current \in Job
  BY <1>1 DEF Strong, UpgradeIsOnRecord, Current
<1> USE DEF TypeOK, PackageTypeOK
<1>3. CASE TakeSnapshot
  <2>1. marker' \in [plan : Job \cup {None}, snapshot : BOOLEAN]  BY <1>3 DEF TakeSnapshot
  <2> QED BY <1>3, <2>1 DEF TakeSnapshot, Package, runtime
<1>4. CASE InstallCandidate \/ InstallsTorn
  <2>1. \A whole \in BOOLEAN : Archive(Current, whole) \in Archives
    BY <1>2, <1>4 DEF InstallCandidate, InstallsTorn, Package, Archives, Archive
  <2>2. installed' \in [Package -> Archives]
    BY <1>4, <2>1 DEF InstallCandidate, InstallsTorn
  <2>3. phase' \in {"viewBridge", "verify"}  BY <1>4 DEF InstallCandidate, InstallsTorn
  <2>4. UNCHANGED <<marker, receipts, maintenance, settlement>>
    BY <1>4 DEF InstallCandidate, InstallsTorn
  <2> QED BY <2>2, <2>3, <2>4 DEF Package, runtime
<1>5. CASE Fails  BY <1>2, <1>5 DEF Fails, Package, Archives, Archive, runtime
<1>6. CASE WriteReceipt  BY <1>2, <1>6 DEF WriteReceipt, Package, runtime
<1>7. CASE ClearMarker \/ SettleFails \/ Pack
  <2>1. marker' \in [plan : Job \cup {None}, snapshot : BOOLEAN]
    <3>1. NoMarker \in [plan : Job \cup {None}, snapshot : BOOLEAN]  BY DEF NoMarker
    <3> QED BY <1>7, <3>1 DEF ClearMarker, SettleFails, Pack
  <2> QED BY <1>7, <2>1 DEF ClearMarker, SettleFails, Pack, runtime
<1> QED BY <1>3, <1>4, <1>5, <1>6, <1>7

-----------------------------------------------------------------------------
\* Every step keeps the types and what is proved beside them.
LEMMA StepPreserves == ASSUME TypeOK, Strong, [Next]_vars PROVE TypeOK' /\ Strong'
<1>1. ASSUME \E j \in Job, k \in Kind, s \in Space : Submit(j, k, s), UNCHANGED package
      PROVE  TypeOK' /\ Strong'
  BY <1>1, SubmitTypes, SubmitPreserves
<1>2. ASSUME \/ Begin \/ AdmitStart \/ RefuseStart \/ StartSpace
             \/ \E s \in Space : StopOne(s) \/ StopFails(s)
             \/ StopDone \/ ShutdownDone,
             UNCHANGED package
      PROVE  TypeOK' /\ Strong'
  <2>1. TypeOK'  BY <1>2, Split, HandlerTypes
  <2> QED BY <1>2, <2>1, Split, HandlerPreserves
<1>3. ASSUME RunUpgrade PROVE TypeOK' /\ Strong'
  <2>1. CASE BeginUpgrade \/ (\E s \in Space : UpgradeStopFails(s)) \/ UpgradeDone \/ UpgradeEnds
    <3>1. TypeOK'  BY <2>1, UpgradeTypes
    <3> QED BY <2>1, <3>1, UpgradePreserves
  <2>2. CASE UpgradeStep \/ UpgradePacks
    <3>1. /\ At("upgrade") /\ UNCHANGED runtime
          /\ \/ TakeSnapshot \/ InstallCandidate \/ InstallsTorn \/ Fails
             \/ WriteReceipt \/ ClearMarker \/ SettleFails \/ Pack
      BY <2>2 DEF UpgradeStep, UpgradePacks, Settling, Pack
    <3>2. TypeOK'  BY <3>1, PackageTypes
    <3> QED BY <3>1, <3>2, PackagePreserves
  <2> QED BY <1>3, <2>1, <2>2 DEF RunUpgrade
<1>4. ASSUME AdmitManager \/ StartManager, UNCHANGED package PROVE TypeOK' /\ Strong'
  <2>1. TypeOK'  BY <1>4, StartupTypes
  <2> QED BY <1>4, <2>1, StartupPreserves
<1>5. ASSUME Continue PROVE TypeOK' /\ Strong'
  <2>1. TypeOK'  BY <1>5, LeavingTypes DEF Continue
  <2> QED BY <1>5, <2>1, LeavingPreserves DEF Continue
<1>6. ASSUME \/ Close \/ CloseIdle \/ CloseDrop \/ Die
             \/ \E s \in Space : CloseStopOne(s) \/ CloseStopFails(s),
             UNCHANGED package
      PROVE  TypeOK' /\ Strong'
  <2>1. TypeOK'  BY <1>6, CloseTypes
  <2> QED BY <1>6, <2>1, ClosePreserves
<1>7. CASE UNCHANGED vars
  <2>1. TypeOK'  BY <1>7, PackageTypeKept DEF TypeOK, vars, runtime
  <2>2. UNCHANGED package /\ queue' = queue  BY <1>7 DEF vars, runtime, package
  <2>3. Aside  BY <1>7, <2>2 DEF Aside, Beside, vars, runtime
  <2>4. LeftBehind' /\ ClosingIsQuiet' /\ ShutdownIsDurable'
    BY <1>7, <2>3, AsideKeeps
    DEF Strong, LeftBehind, ClosingIsQuiet, ShutdownIsDurable, Aside, vars, runtime
  <2> QED BY <2>1, <2>3, <2>4, AsideKeeps DEF Strong
<1> QED BY <1>1, <1>2, <1>3, <1>4, <1>5, <1>6, <1>7 DEF Next, RunJob, Arrives, RunClose

\* The state a Supervisor starts in satisfies the invariant.
LEMMA InitEstablishes == Init => TypeOK /\ Strong
<1> SUFFICES ASSUME Init PROVE TypeOK /\ Strong  OBVIOUS
<1> USE DEF Init, PackageInit
<1>1. TypeOK
  BY EmptySeq DEF TypeOK, PackageTypeOK, NoMarker, NoReceipt, Archive, Archives
<1>2. TailIsOrderly /\ MarkedLeaves /\ PendingIsSealed /\ LeftBehind /\ ClosingIsQuiet
  BY EmptySeq DEF TailIsOrderly, MarkedLeaves, PendingIsSealed, LeftBehind, ClosingIsQuiet, Queued
<1>3. UpgradeIsOnRecord /\ EvidenceIsMaintenance /\ ReplacedIsRecorded /\ ShutdownIsDurable
  BY DEF UpgradeIsOnRecord, EvidenceIsMaintenance, ReplacedIsRecorded, ShutdownIsDurable,
         Package, Archive, HasEvidence
<1> QED BY <1>1, <1>2, <1>3 DEF Strong

LEMMA Parts == IInv <=> TypeOK /\ Strong
<1>1. LeftBehind => TransferIsSettled
  BY DEF LeftBehind, TransferIsSettled, Delivered
<1> QED BY <1>1 DEF IInv, Inv, Strong

-----------------------------------------------------------------------------
\* The inductive invariant holds of every behaviour of the Supervisor.
THEOREM Invariance == Spec => []IInv
<1>1. Init => IInv  BY InitEstablishes, Parts
<1>2. IInv /\ [Next]_vars => IInv'
  <2> SUFFICES ASSUME IInv, [Next]_vars PROVE IInv'  OBVIOUS
  <2>1. TypeOK' /\ Strong'  BY Parts, StepPreserves
  <2> QED BY <2>1, Parts, PTL
<1> QED BY <1>1, <1>2, PTL DEF Spec

\* A shutdown that gave up the rights is a success on disk, the evidence of an
\* upgrade keeps the Home in maintenance, whatever is installed is on record,
\* and the launcher gets the rights only for a plan that is over.
THEOREM Safety == Spec => []Inv
<1>1. IInv => Inv  BY DEF IInv
<1> QED BY <1>1, Invariance, PTL

\* The run rights are given up only when no owned process is left but the
\* manager started beside the jobs.
THEOREM RightsCover == Spec => []RightsCoverChildren
<1>1. IInv => RightsCoverChildren
  BY DEF IInv, LeftBehind, Deserted, RightsCoverChildren
<1> QED BY <1>1, Invariance, PTL

\* Whoever leaves starts nothing more but that manager, and rights that are
\* the launcher's are never released by this process.
THEOREM Leaving == Spec => LeavingIsFinal
<1> DEFINE Leave ==
      /\ leaving # "no" \/ closing \in {"stopping", "over"} =>
           children' \subseteq children \cup Beside
      /\ rights = "transferred" => rights' = "transferred"
<1>1. IInv /\ [Next]_vars => [Leave]_vars
  <2> SUFFICES ASSUME TypeOK, Strong, Next PROVE Leave  BY Parts
  <2>1. leaving # "no" \/ closing \in {"stopping", "over"} => Quiet
    BY DEF Strong, LeftBehind, ClosingIsQuiet, Deserted
  <2>2. CASE RunJob
    <3>1. Quiet => children' \subseteq children  BY <2>2, JobsAreQuiet
    <3>2. rights' = rights  BY <2>2, JobsAreQuiet
    <3> QED BY <2>1, <3>1, <3>2
  <2>3. CASE Continue
    BY <2>3 DEF Continue, AfterHandoffJob, AfterShutdownJob, AfterOtherJob, FinishRelinquish,
                DropWritable, Transfer, Commit, exits
  <2>4. CASE RunClose
    BY <2>4 DEF RunClose, CloseIdle, CloseDrop, DropWritable, CloseStopOne, CloseStopFails, exits
  <2>5. CASE Arrives
    BY <2>5, ManagerAssumption DEF Arrives, Submit, AdmitManager, StartManager, Close, Die, Beside, exits
  <2> QED BY <2>2, <2>3, <2>4, <2>5 DEF Next
<1> QED BY <1>1, Invariance, PTL DEF Spec, LeavingIsFinal
=============================================================================
