------------------------------ MODULE Supervisor ------------------------------
(***************************************************************************)
(* WorkbenchSupervisorRuntime (src/adapters/node/workbench-supervisor.ts): *)
(* how one Supervisor gives up the run rights of its Home.  Its jobs run   *)
(* one at a time; a service.shutdown or a component upgrade only prepares  *)
(* to leave, and the rights are released or transferred by a continuation  *)
(* that runs when the tail is idle and the job's success is on disk.       *)
(* close() (a signal) and the start of the manager during initWritable are *)
(* not on the tail and interleave with all of that at every await.         *)
(*                                                                         *)
(* The parts it drives are modelled elsewhere and are abstract here: the   *)
(* run lock (HomeControl) is who holds the rights, the job store           *)
(* (WorkbenchJobs) a serial tail with a durable outcome, the processes     *)
(* (ProcessManager) a child per space that is up or not, where a stop that *)
(* returns leaves no child and a stop that throws may leave one.           *)
(***************************************************************************)
EXTENDS PackageUpgrade, Sequences, FiniteSets

CONSTANTS
  Space,    \* the spaces this Supervisor owns
  Manager   \* the one that initWritable starts

ASSUME ManagerAssumption == Manager \in Space
ASSUME NoneAssumption == None \notin Job \cup Space \cup {"succeeded", "abandoned"}

VARIABLES
  rights,      \* the run rights: held, released by this process, transferred,
               \* or abandoned: the process died and its record is left
  handle,      \* this.handle and the services that dropWritable clears
  children,    \* the spaces whose process is up
  sealing, maintenanceBlocked,
  relinquish,  \* the shutdown job that is to give up the rights
  pending,     \* the upgrade job whose handoff is pending
  queue,       \* the tail of the job store: what has not finished
  work,        \* the step of the job at its head
  left,        \* the spaces a stopOwnedAll still has to stop, per caller
  kind, target, \* what each job does, and to which space
  status,      \* its outcome in memory
  durable,     \* jobs whose success is in their file
  watched,     \* plan jobs whose afterPlanJobSettled has not run
  leaving,     \* the continuation that is giving up the rights
  startup,     \* the start of the manager by initWritable: done before jobs are
               \* served, or beside them
  closing,     \* the call of close()
  closed       \* HTTP is gone and nothing is answered any more

runtime == <<rights, handle, children, sealing, maintenanceBlocked, relinquish, pending, queue,
          work, left, kind, target, status, durable, watched, leaving, startup, closing,
          closed>>
vars == <<runtime, package>>
jobs == <<queue, kind, target, status, durable, watched>>
seals == <<sealing, maintenanceBlocked, relinquish, pending>>
exits == <<rights, handle, closed>>

Kind == {"start", "stop", "restart", "shutdown", "upgrade"}
Plan == Kind \ {"start"}    \* these run as plan.execute

Init ==
  /\ rights = "held" /\ handle = TRUE /\ children = {}
  /\ sealing = FALSE /\ maintenanceBlocked = FALSE /\ relinquish = None /\ pending = None
  /\ queue = <<>> /\ work = "idle"
  /\ left = [w \in {"job", "close"} |-> {}]
  /\ kind = [j \in Job |-> None] /\ target = [j \in Job |-> None]
  /\ status = [j \in Job |-> "new"]
  /\ durable = {} /\ watched = {}
  /\ leaving = "no"
  /\ startup \in {"done", "waiting"}
  /\ closing = "no" /\ closed = FALSE
  /\ PackageInit

-----------------------------------------------------------------------------
At(step) == queue # <<>> /\ work = step
Running == Head(queue)

\* assertWritable, as startOwned uses it.
Writable == handle /\ ~maintenanceBlocked /\ (sealing => relinquish # None)

\* (mutant) the end of the job is taken for its success.
Persisted_Assumed(j) == TRUE

\* jobPersistedSuccess: the file is read again, and it may be unreadable.
Persisted(j) == status[j] = "succeeded" /\ j \in durable

\* The callback of the running job ends; a success counts once it is written.
Settle(ok) ==
  /\ queue' = Tail(queue) /\ work' = "idle"
  /\ \/ /\ ok
        /\ status' = [status EXCEPT ![Running] = "succeeded"]
        /\ durable' = durable \cup {Running}
     \/ /\ status' = [status EXCEPT ![Running] = "failed"]
        /\ UNCHANGED durable
  /\ UNCHANGED <<kind, target, watched>>

\* submit.  The shutdown, stop and upgrade plans are watched.
Submit(j, k, s) ==
  /\ status[j] = "new"
  /\ ~closed /\ ~sealing /\ relinquish = None /\ handle /\ ~maintenanceBlocked
  /\ status' = [status EXCEPT ![j] = "queued"]
  /\ kind' = [kind EXCEPT ![j] = k]
  /\ target' = [target EXCEPT ![j] = s]
  /\ queue' = Append(queue, j)
  /\ watched' = IF k \in Plan THEN watched \cup {j} ELSE watched
  /\ UNCHANGED <<rights, handle, children, seals, work, left, durable, leaving, startup,
                 closing, closed>>

\* (mutant) jobs that were queued before the Supervisor was sealed still run.
Refused_Never == FALSE

\* The guard of runCommand.
Refused == sealing

\* A restart is a stop and then a start.
FirstStep(k) == IF k = "restart" THEN "stop" ELSE k

\* The job at the head begins, unless it is refused or its plan is outdated.
\* A shutdown plan is marked as leaving first, and seals the Supervisor once
\* its phase is on disk.
Begin ==
  LET leaves == kind[Running] = "shutdown" IN
  /\ queue # <<>> /\ work = "idle"
  /\ \/ /\ Settle(FALSE)
        /\ relinquish' \in {relinquish, IF leaves /\ ~Refused THEN Running ELSE relinquish}
        /\ UNCHANGED <<sealing, left>>
     \/ /\ ~Refused /\ kind[Running] # "upgrade"
        /\ work' = FirstStep(kind[Running])
        /\ sealing' = (sealing \/ leaves)
        /\ relinquish' = IF leaves THEN Running ELSE relinquish
        /\ left' = [left EXCEPT !["job"] =
             IF leaves THEN Space ELSE {target[Running]}]
        /\ UNCHANGED jobs
  /\ UNCHANGED <<exits, children, maintenanceBlocked, pending, leaving, startup, closing>>

\* A workbench.upgrade plan, which executes the package upgrade.
BeginUpgrade ==
  /\ queue # <<>> /\ work = "idle" /\ ~Refused /\ kind[Running] = "upgrade"
  /\ WriteMarker(Running)
  /\ work' = "upgrade"
  /\ left' = [left EXCEPT !["job"] = Space]
  /\ UNCHANGED <<exits, children, seals, jobs, leaving, startup, closing>>

-----------------------------------------------------------------------------
(* The handlers. *)

\* startOwned looks once whether it may write, and then migrates settings.
AdmitStart ==
  /\ At("start") /\ Writable
  /\ work' = "admitted"
  /\ UNCHANGED <<exits, children, seals, left, jobs, leaving, startup, closing>>

RefuseStart ==
  /\ At("start") /\ Settle(FALSE)
  /\ UNCHANGED <<exits, children, seals, left, leaving, startup, closing>>

\* processes.start.  A start that fails may leave a child it could not kill.
StartSpace ==
  /\ At("admitted")
  /\ \/ /\ handle
        /\ children' = children \cup {target[Running]}
        /\ Settle(TRUE)
     \/ /\ children' \in {children, children \cup IF handle THEN {target[Running]} ELSE {}}
        /\ Settle(FALSE)
  /\ UNCHANGED <<exits, seals, left, leaving, startup, closing>>

\* stopOwned of one space on behalf of a job: stop, shutdown or upgrade.
StopOne(s) ==
  /\ work \in {"stop", "shutdown", "upgrade"} /\ s \in left["job"]
  /\ children' = children \ {s}
  /\ left' = [left EXCEPT !["job"] = @ \ {s}]
  /\ UNCHANGED <<exits, seals, work, jobs, leaving, startup, closing>>

\* stopOwned throws.  A failed shutdown opens the Supervisor again, but for
\* no more maintenance.
StopFails(s) ==
  /\ work \in {"stop", "shutdown"} /\ s \in left["job"]
  /\ children' \in {children, children \ {s}}
  /\ left' = [left EXCEPT !["job"] = {}]
  /\ Settle(FALSE)
  /\ IF work = "shutdown"
     THEN sealing' = FALSE /\ relinquish' = None /\ maintenanceBlocked' = TRUE
     ELSE UNCHANGED <<sealing, relinquish, maintenanceBlocked>>
  /\ UNCHANGED <<exits, pending, leaving, startup, closing>>

\* A stop is done; a restart goes on to its start.
StopDone ==
  /\ At("stop") /\ left["job"] = {}
  /\ IF kind[Running] = "restart" THEN work' = "start" /\ UNCHANGED jobs ELSE Settle(TRUE)
  /\ UNCHANGED <<exits, children, seals, left, leaving, startup, closing>>

\* Every child is stopped; recording the phase or the success may fail, and
\* then the Supervisor stays sealed.
ShutdownDone ==
  /\ At("shutdown") /\ left["job"] = {}
  /\ Settle(TRUE)
  /\ UNCHANGED <<exits, children, seals, left, leaving, startup, closing>>

\* The stop of a space fails during an upgrade.
UpgradeStopFails(s) ==
  /\ At("upgrade") /\ s \in left["job"]
  /\ children' \in {children, children \ {s}}
  /\ left' = [left EXCEPT !["job"] = {}]
  /\ Fails
  /\ UNCHANGED <<exits, seals, work, jobs, leaving, startup, closing>>

\* The steps of execute() that are not the Supervisor's.
UpgradeStep ==
  /\ At("upgrade") /\ left["job"] = {}
  /\ TakeSnapshot \/ InstallCandidate \/ InstallsTorn \/ Fails \/ Settling
  /\ UNCHANGED runtime

\* handoffWorkbenchPackage looks at the children once more and then packs the
\* artifacts.
UpgradePacks ==
  /\ At("upgrade") /\ phase = "verify" /\ Verified /\ children = {}
  /\ phase' = "artifacts"
  /\ UNCHANGED <<runtime, marker, receipts, installed, maintenance, settlement>>

\* The artifacts are there: sealed, and the transfer left to the continuation.
UpgradeDone ==
  /\ At("upgrade") /\ phase = "artifacts"
  /\ sealing' = TRUE
  /\ pending' = Running
  /\ HandedOver
  /\ UNCHANGED <<exits, children, maintenanceBlocked, relinquish, left, work, jobs, leaving,
                 startup, closing>>

UpgradeEnds ==
  /\ At("upgrade") /\ Return
  /\ Settle(Succeeded)
  /\ UNCHANGED <<exits, children, seals, left, leaving, startup, closing>>

-----------------------------------------------------------------------------
(* The initialization that runs beside the tail: it starts the manager. *)

AdmitManager ==
  /\ startup = "waiting"
  /\ startup' = IF Writable THEN "admitted" ELSE "over"
  /\ UNCHANGED <<exits, children, seals, work, left, jobs, leaving, closing>>

StartManager ==
  /\ startup = "admitted"
  /\ startup' = "over"
  /\ children' \in {children, children \cup IF handle THEN {Manager} ELSE {}}
  /\ UNCHANGED <<exits, seals, work, left, jobs, leaving, closing>>

-----------------------------------------------------------------------------
(* Giving up the rights. *)

\* (mutant) a lock that was transferred is released all the same.
\* dropWritable: a transferred lock is not this process's to release.
DropWritable ==
  /\ handle' = FALSE
  /\ rights' = IF handle /\ rights # "transferred" THEN "released" ELSE rights

\* afterPlanJobSettled, which waits until the tail is idle.
AfterHandoffJob(j) ==
  /\ queue = <<>> /\ j \in watched /\ pending = j
  /\ watched' = watched \ {j}
  /\ pending' = None
  /\ leaving' \in {leaving, IF Persisted(j) /\ children = {} /\ handle THEN "transfer" ELSE leaving}
  /\ UNCHANGED <<exits, children, sealing, maintenanceBlocked, relinquish, queue, kind, target,
                 status, durable, work, left, startup, closing>>

\* (mutant) a shutdown whose success cannot be read back is dropped silently.
AfterShutdownJob_Silent(j) ==
  /\ queue = <<>> /\ j \in watched /\ pending # j /\ relinquish = j
  /\ watched' = watched \ {j}
  /\ relinquish' = None
  /\ \/ Persisted(j) /\ leaving' = "drop"
     \/ UNCHANGED leaving
  /\ UNCHANGED <<rights, handle, closed, children, sealing, maintenanceBlocked, pending, queue,
                 kind, target, status, durable, work, left, startup, closing>>

AfterShutdownJob(j) ==
  /\ queue = <<>> /\ j \in watched /\ pending # j /\ relinquish = j
  /\ watched' = watched \ {j}
  /\ relinquish' = None
  /\ \/ Persisted(j) /\ leaving' = "drop" /\ UNCHANGED maintenanceBlocked
     \/ maintenanceBlocked' = TRUE /\ UNCHANGED leaving
  /\ UNCHANGED <<rights, handle, closed, children, sealing, pending, queue, kind, target,
                 status, durable, work, left, startup, closing>>

AfterOtherJob(j) ==
  /\ queue = <<>> /\ j \in watched /\ pending # j /\ relinquish # j
  /\ watched' = watched \ {j}
  /\ UNCHANGED <<exits, children, seals, queue, kind, target, status, durable, work, left,
                 leaving, startup, closing>>

\* finishRelinquish.  When the dashboard cannot be closed or the lock not be
\* released, nobody catches the error and it ends the process.
FinishRelinquish ==
  /\ leaving = "drop"
  /\ leaving' = "no"
  /\ \/ DropWritable /\ closed' = TRUE /\ sealing' = TRUE
     \/ rights = "held" /\ rights' = "abandoned" /\ UNCHANGED <<handle, closed, sealing>>
  /\ UNCHANGED <<children, maintenanceBlocked, relinquish, pending, work, left, jobs, startup,
                 closing>>

\* finalizeComponentHandoff, up to transferToLauncher: HTTP is closed and the
\* launcher spawned.  The lock refuses when the rights are gone, and any step
\* may fail; the Supervisor then stays as it is.
Transfer ==
  /\ leaving = "transfer"
  /\ \/ rights = "held" /\ rights' = "transferred" /\ leaving' = "commit"
     \/ leaving' = "no" /\ UNCHANGED rights
  /\ UNCHANGED <<handle, closed, children, seals, work, left, jobs, startup, closing>>

\* sendCommit is acknowledged, or fails.
Commit ==
  /\ leaving = "commit"
  /\ leaving' = "no"
  /\ closed' \in {closed, TRUE}
  /\ handle' = (handle /\ ~closed')
  /\ UNCHANGED <<rights, children, seals, work, left, jobs, startup, closing>>

-----------------------------------------------------------------------------
(* close(), called once by the signal handler, which the command line tool   *)
(* installs when createWorkbenchSupervisor has returned.                    *)

\* (mutant) close does not seal the Supervisor.
Close_Unsealed ==
  /\ closing = "no" /\ ~closed /\ startup \in {"done", "over"}
  /\ closing' = "waiting"
  /\ UNCHANGED <<exits, children, seals, work, left, jobs, leaving, startup>>

Close ==
  /\ closing = "no" /\ ~closed /\ startup \in {"done", "over"}
  /\ sealing' = TRUE
  /\ IF rights = "transferred"
     THEN closing' = "over" /\ closed' = TRUE /\ handle' = FALSE
     ELSE closing' = "waiting" /\ UNCHANGED <<closed, handle>>
  /\ UNCHANGED <<rights, children, maintenanceBlocked, relinquish, pending, work, left,
                 jobs, leaving, startup>>

\* jobs.whenIdle, then stopOwnedAll of what is managed at that moment.
CloseIdle ==
  /\ closing = "waiting" /\ queue = <<>>
  /\ closing' = "stopping"
  /\ left' = [left EXCEPT !["close"] = IF handle THEN Space ELSE {}]
  /\ UNCHANGED <<exits, children, seals, work, jobs, leaving, startup>>

CloseStopOne(s) ==
  /\ closing = "stopping" /\ s \in left["close"]
  /\ children' = children \ {s}
  /\ left' = [left EXCEPT !["close"] = @ \ {s}]
  /\ UNCHANGED <<exits, seals, work, jobs, leaving, startup, closing>>

CloseStopFails(s) ==
  /\ closing = "stopping" /\ s \in left["close"]
  /\ children' \in {children, children \ {s}}
  /\ maintenanceBlocked' = TRUE
  /\ closing' = "failed"
  /\ UNCHANGED <<exits, sealing, relinquish, pending, work, left, jobs, leaving, startup>>

\* The dashboard is closed and the lock released; both may throw.
CloseDrop ==
  /\ closing = "stopping" /\ left["close"] = {}
  /\ \/ DropWritable /\ closed' = TRUE /\ closing' = "over"
     \/ closing' = "failed" /\ UNCHANGED <<rights, handle, closed>>
  /\ UNCHANGED <<children, seals, work, left, jobs, leaving, startup>>

-----------------------------------------------------------------------------
\* The process is killed, or exits because close() failed.
Die ==
  /\ rights = "held" /\ rights' = "abandoned"
  /\ UNCHANGED <<handle, closed, children, seals, work, left, jobs, leaving, startup, closing>>

Up == rights # "abandoned"

RunUpgrade ==
  \/ BeginUpgrade
  \/ \E s \in Space : UpgradeStopFails(s)
  \/ UpgradeStep \/ UpgradePacks \/ UpgradeDone \/ UpgradeEnds

RunJob ==
  \/ RunUpgrade
  \/ /\ \/ Begin
        \/ AdmitStart \/ RefuseStart \/ StartSpace
        \/ \E s \in Space : StopOne(s) \/ StopFails(s)
        \/ StopDone \/ ShutdownDone
     /\ UNCHANGED package

Continue ==
  /\ \/ \E j \in Job : AfterHandoffJob(j) \/ AfterShutdownJob(j) \/ AfterOtherJob(j)
     \/ FinishRelinquish \/ Transfer \/ Commit
  /\ UNCHANGED package

RunClose ==
  /\ \/ CloseIdle \/ CloseDrop
     \/ \E s \in Space : CloseStopOne(s) \/ CloseStopFails(s)
  /\ UNCHANGED package

Arrives ==
  /\ \/ \E j \in Job, k \in Kind, s \in Space : Submit(j, k, s)
     \/ AdmitManager \/ StartManager
     \/ Close \/ Die
  /\ UNCHANGED package

Next == Up /\ (RunJob \/ Continue \/ RunClose \/ Arrives)

Spec == Init /\ [][Next]_vars

\* Promise continuations run, and everything a job, a stop or the handoff
\* waits for has a time limit in the code it calls.
FairSpec ==
  /\ Spec
  /\ WF_vars(Up /\ RunJob) /\ WF_vars(Up /\ Continue) /\ WF_vars(Up /\ RunClose)

-----------------------------------------------------------------------------
TypeOK ==
  /\ rights \in {"held", "released", "transferred", "abandoned"} /\ handle \in BOOLEAN
  /\ children \subseteq Space
  /\ sealing \in BOOLEAN /\ maintenanceBlocked \in BOOLEAN
  /\ relinquish \in Job \cup {None} /\ pending \in Job \cup {None}
  /\ queue \in Seq(Job)
  /\ work \in {"idle", "start", "admitted", "stop", "shutdown", "upgrade"}
  /\ left \in [{"job", "close"} -> SUBSET Space]
  /\ kind \in [Job -> Kind \cup {None}] /\ target \in [Job -> Space \cup {None}]
  /\ status \in [Job -> {"new", "queued", "succeeded", "failed"}]
  /\ durable \subseteq Job /\ watched \subseteq Job
  /\ leaving \in {"no", "drop", "transfer", "commit"}
  /\ startup \in {"waiting", "admitted", "over", "done"}
  /\ closing \in {"no", "waiting", "stopping", "over", "failed"}
  /\ closed \in BOOLEAN
  /\ PackageTypeOK

\* The manager, when initWritable starts it beside the first jobs: the finding
\* of RightsCoverAll.
Beside == IF startup = "done" THEN {} ELSE {Manager}

\* The run rights are given up, by a shutdown, a handoff or a signal, only
\* when no owned process is left: jobs queued behind the one that leaves,
\* and starts admitted before it, add none.
RightsCoverChildren == rights \in {"released", "transferred"} => children \subseteq Beside

\* docs/workbench.md 102: shutdown "stops the Supervisor after owned work is
\* stopped"; the start of the manager beside the jobs is owned work too.
RightsCoverAll == rights \in {"released", "transferred"} => children = {}

\* Rights that no signal gave up were released for a shutdown job
\* whose success is on disk: the client that asks for it after the Supervisor
\* has left, or the next Supervisor, does not find it failed or interrupted.
ShutdownIsDurable ==
  rights = "released" => closing = "over" \/ \E j \in durable : kind[j] = "shutdown"

\* The launcher gets the rights only for a plan that is over: its success is in
\* the job's file and in its receipt, no evidence is left that would keep the
\* next Supervisor from its Home, and both its packages are in place
\* (workbench-package-upgrade.ts 375-379, workbench-supervisor.ts 1832-1844).
TransferIsSettled ==
  rights = "transferred" =>
    /\ ~HasEvidence
    /\ \E j \in durable : /\ receipts[j].outcome = "succeeded"
                         /\ \A p \in Package : installed[p] = Archive(j, TRUE)

\* The state invariant.
Inv ==
  /\ TypeOK /\ ShutdownIsDurable /\ EvidenceIsMaintenance /\ ReplacedIsRecorded
  /\ TransferIsSettled

-----------------------------------------------------------------------------
(* The inductive invariant: what the properties above rest on. *)

\* No job is at work and none will be: what is queued will be refused, and
\* nothing more is taken in.
Quiet == work = "idle" /\ (sealing \/ (queue = <<>> /\ maintenanceBlocked))

\* Nothing but the manager beside the jobs is up, or will be.
Deserted == Quiet /\ children \subseteq Beside

\* The packages of a settled plan are in place.
Delivered(j) ==
  /\ ~HasEvidence /\ receipts[j].outcome = "succeeded"
  /\ \A p \in Package : installed[p] = Archive(j, TRUE)

Queued == {queue[i] : i \in DOMAIN queue}

\* What is queued was submitted, and what is at work is the job at the head.
TailIsOrderly ==
  /\ \A j \in Queued : status[j] # "new" /\ kind[j] \in Kind /\ target[j] \in Space
  /\ \A j \in durable : status[j] # "new"
  /\ work # "idle" => queue # <<>>
  /\ work \in {"start", "admitted"} => kind[Running] \in {"start", "restart"}
  /\ work = "stop" => kind[Running] \in {"stop", "restart"}
  /\ work = "upgrade" => kind[Running] = "upgrade"
  /\ work = "shutdown" => /\ relinquish = Running /\ sealing
                          /\ children \subseteq left["job"] \cup Beside

\* A shutdown that has succeeded has left nothing behind.
MarkedLeaves ==
  relinquish # None =>
    /\ status[relinquish] # "new" /\ kind[relinquish] = "shutdown"
    /\ status[relinquish] = "succeeded" =>
         Deserted \/ (work # "idle" /\ Running = relinquish)

\* A handoff is pending for the upgrade that runs, or ran.
PendingIsSealed ==
  pending # None =>
    /\ sealing
    /\ work = "idle" \/ (work = "upgrade" /\ Running = pending)
    /\ work = "idle" /\ status[pending] = "succeeded" => Delivered(pending)

\* Whoever is leaving, or has left, has nothing running.
LeftBehind ==
  /\ leaving # "no" \/ ~handle \/ rights = "transferred" => Deserted
  /\ leaving = "drop" => \E j \in durable : kind[j] = "shutdown"
  /\ leaving \in {"transfer", "commit"} \/ rights = "transferred" =>
       \E j \in durable : Delivered(j)
  /\ rights = "released" => ~handle

\* close() lets the tail drain before it stops what is up.
ClosingIsQuiet ==
  /\ closing = "waiting" => sealing \/ maintenanceBlocked
  /\ closing \in {"stopping", "over"} => Quiet
  /\ closing = "stopping" /\ handle => children \subseteq left["close"] \cup Beside

\* Where execute() is, on the disk.
UpgradeIsOnRecord ==
  /\ phase # "none" => maintenance /\ work = "upgrade"
  /\ phase \notin {"none", "over"} => marker.plan = Running
  /\ phase \in Package \cup {"verify", "artifacts"} => marker.snapshot
  /\ phase \in Package \cup {"snapshot", "verify", "artifacts"} => settlement = None
  /\ phase \in Package \cup {"snapshot", "verify", "artifacts", "receipt"} =>
       receipts[Running] = NoReceipt
  /\ phase = "artifacts" => Verified
  /\ phase \in {"receipt", "clear"} => settlement # None
  /\ phase \in {"receipt", "clear", "over"} /\ settlement = "succeeded" =>
       \A p \in Package : installed[p] = Archive(Running, TRUE)
  /\ phase = "clear" =>
       receipts[Running] = [outcome |-> settlement, snapshot |-> marker.snapshot]
  /\ phase = "over" /\ ~HasEvidence => receipts[Running].outcome = settlement

\* The inductive invariant.
IInv ==
  /\ Inv /\ TailIsOrderly /\ MarkedLeaves /\ PendingIsSealed /\ LeftBehind
  /\ ClosingIsQuiet /\ UpgradeIsOnRecord

-----------------------------------------------------------------------------
\* A Supervisor that gives up its rights does nothing but leave: from the moment
\* a continuation begins to, no process is started but the manager beside it; and
\* rights that are transferred to the launcher are never released by this
\* process, although close() may be half way through doing so.
LeavingIsFinal ==
  [][/\ leaving # "no" \/ closing \in {"stopping", "over"} => children' \subseteq children \cup Beside
     /\ rights = "transferred" => rights' = "transferred"]_vars

\* A shutdown that succeeded on disk ends with the rights given up, or with
\* the Supervisor blocked for the user to see, unless the process dies.
ShutdownOver ==
  (\E j \in durable : kind[j] = "shutdown") => rights # "held" \/ maintenanceBlocked

\* A signal is answered: the rights are given up, or close says it failed,
\* unless the process dies meanwhile.
CloseOver == closing \in {"no", "over", "failed"} \/ ~Up

\* Whoever asks the Supervisor to leave sees it come to an end.
LeavingEnds == <>[](ShutdownOver /\ CloseOver)
=============================================================================
