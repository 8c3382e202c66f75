# DSH Spaces in TLA+

DSH Spaces runs several isolated *spaces* (profiles with their own long-running
process) inside one *DSH Home*. One **Supervisor** process per Home holds the run
rights: only it writes the Home and starts or stops its spaces. Browsers and the
plugin host talk to it over HTTP. The policy of the program is stated in
`docs/let-it-crash.md`: nothing is retried, restarted or restored behind the
user's back; whatever cannot be proved dead is never taken over; an interrupted
job fails and is not run again; nothing may pretend to have succeeded.

This directory holds TLA+ modules translated from the source, the TLC runs that
check them and the TLAPS proofs about them. Paths below are relative to the
repository; `node/` stands for `src/adapters/node/`.

    tlc -workers 2 -config HomeControl.cfg MCHomeControl     # one run
    tlapm HomeControlProofs.tla                              # the proofs

## 1. Inventory

### Components that keep the state that matters

**Run lock of a Home** — `node/home-controller.ts`, `node/supervisor-launch.ts`.
State: on disk, `.dsh-spaces-control/run/` with `owner.json` (kind, pid, nonce,
start time, and for a handoff the phase, launcher, old owner and target), a
reclaim directory that serves as a guard, and the endpoint file the HTTP clients
attach to; in memory, a handle with the nonce.
Operations: `acquire`, `release`, `reclaimDead`, `transferToLauncher`,
`authorizeHandoff`, `acceptHandoff`, `inspect`.
Hard: no operation is atomic. Several processes run `mkdir`, `read`, `write`,
`unlink`, `rmdir` in any interleaving and die between any two; liveness is asked
of a pid, which the operating system may give away again.
Correct when: one live process at most acts as the writer; no live owner's
record is removed; a half-made or half-removed record fails closed; the endpoint
never names anyone but the current owner.

**Component handoff** — `node/component-handoff.ts`. A component upgrade replaces
the Supervisor: the old one spawns a one-shot launcher, gives it the record,
exits; the launcher reserves, waits for the exit, selects the new component,
spawns the target, authorizes it; the target accepts.
State: the phases of three processes, the record, IPC messages, a receipt.
Hard: three processes wait for each other with time limits; each may die; the
acknowledgement may be late.
Correct when: the phases only advance, nobody writes before the old owner is
gone, and a committed handoff settles.

**Home operation lock** — `node/home-operation-lock.ts`. A second, short-term
lock over one Home, for one operation at a time; reentrant for nested calls of the
same owner, with a queue within one instance and a removal of dead locks.
Hard: a descendant of an owner that outlives it, several instances in one
process, two reclaims at once, each file-system call failing.
Correct when: the lock is never taken from a live owner, a call runs inline only
under a live owner, and every call has its turn.

**Job store** — `node/workbench-jobs.ts`, `node/atomic.ts`. State: one record in
memory and one file per request, a serial tail, an abort signal for the job that
runs, an admission token for callbacks. Operations: `submit`, `cancel`,
`runExclusive`, `runAdmitted`, the run of a job, loading at start.
Hard: any record write may fail, so memory, disk and the client's answer may
disagree; the process may die at any point; calls nest.
Correct when: handlers run at most once per request for ever; outcomes are
final; what is shown as succeeded stays so; callbacks run alone; nothing wedges
the tail.

**Process manager** — `node/process-manager.ts`, `node/dsh-endpoint.ts`,
`node/terminate-process.ts`. State: instance, generation, shared start promise
and tail per space; reserved ports; a shared preparation of the Home.
Operations: `start`, `stop`, `restart`, `stopAll`, the exit and error events.
Hard: a start has a dozen awaits, a stop or the death of the child may come in any
of them, kills may fail, spaces start in parallel and share ports and the
preparation.
Correct when: no child is ever lost sight of, no cancelled start spawns, a
successful stop leaves nothing, no port leaks, every call is answered.

**Supervisor** — `node/workbench-supervisor.ts`, `packages/supervisor/src/index.ts`.
Composes the above. State: the handle, sealing flags, the job that is to
give up the rights, the pending handoff, the continuations that wait for the tail
to be idle. Operations: `submit`, job execution, `service.shutdown`, the package
upgrade, `close()`, `initWritable`.
Hard: a shutdown or a handoff is prepared by a job and finished by a continuation
*after* the job; a signal and the initialization interleave with both.
Correct when: the rights are given up only without children, once, and for a
durable reason; and a shutdown that succeeded really ends.

**Package upgrade** — `node/workbench-package-upgrade.ts`. The two packages of the
manager are replaced and the Supervisor hands over to them. State: a marker file,
receipts, the installed packages, a settlement in memory.
Hard: a failure or death at any step; the receipt is written before the handoff
commits and before the job's success is durable.
Correct when: what is half replaced is named by the marker, and a handoff is
committed only for an upgrade that is whole and settled.

**Coordinated upgrade, snapshots, maintenance** — `node/coordinated-upgrade.ts`,
`node/snapshot-store.ts`, `node/runtime-store.ts`, `node/workbench-maintenance.ts`.
Plans are previewed, stored, confirmed and executed as jobs: plugins added or
removed, snapshots, runtimes installed, the Home upgraded over staged profiles.
State: plan files, the mutation journal with copies of the profiles, the upgrade
journal, stage, backup, runtime and snapshots.
Hard: every call may fail and the process may die between any two; spaces exit
meanwhile; other plans run between preview and execution.
Correct when: a plan runs once and on what was previewed; nothing is changed
beside a running space; whatever is half changed is named by a file that blocks
further writes; a success leaves the spaces as it found them.

**Shared LLM configuration** — `core/application/global-llm-host.ts`,
`global-llm-service.ts`, `node/llm-operation-store.ts` and the stores beside it.
State: a catalog with a revision, credential records, operations, one policy per
space, the snapshot each process was launched with.
Hard: a save with a credential writes three files and may die between them; a
client sends it again; a batch restarts spaces one by one while they die.
Correct when: a save is published at most once and its operation tells the truth,
no policy comes to name a deleted connection, and a batch that ends well has
restarted what runs.

**View session of the browser** — `packages/plugin/src/workbench/view-session.ts`,
`store.ts`. State: the space shown, the one selected, the one pending, a frame per
space. Operations: selections, polls, view answers, frame messages, timers.
Hard: every answer may be late; a space restarts and the Supervisor is replaced
while a frame loads.
Correct when: the last click wins, what is shown is current, a failed switch takes
nothing away, and no loading frame waits without a timer.

**Blueprints** — `node/blueprint-workbench.ts`,
`packages/plugin/src/workbench/blueprint-session.ts`. A preview observes the Home
over several awaits and stages a plan of limited life in memory; a job consumes
the plan and creates a space in stages without a way back; a browser session
drives both.
Hard: requests of one session overlap and are given up; plans expire, are evicted
by a restart, and are previewed in a Home that other jobs, processes and an editor
change.
Correct when: a plan is applied once, under the revision it was previewed under and
before any other job changes the Home; the record of the job says what was done;
the session submits what the person sees.

### How they interact

    browser: view session, blueprint session
        │ HTTP
        v
    Supervisor.submit ─> job store tail ─> runCommand ─> process manager ─> children
        │                     │                 ├─> maintenance ─> coordinated upgrade   ^
        │                     │                 ├─> package upgrade                      │
        │                     │                 ├─> shared LLM (snapshot at spawn) ──────┘
        │                     │                 └─> blueprint application
        │          continuation after the job          (writes under the operation lock)
    signal ──> close()        v
        └──> dropWritable / finalizeComponentHandoff ─> run lock, endpoint
    plugin host ─launch─> retirePreviousSupervisor ─> reclaimDead ─> acquire

Within one process everything is JavaScript: a step runs to its next await, and
promise reactions run before the next event. Between processes the only shared
state is the file system and IPC messages.

### The rest

Spaces control, HTTP routing and products, the dashboards, the component payload,
the desktop shell, the doctor, the bridges and the scripts are listed in
`PROJECT.json` as not modelled, with the reason; see also section 8. Of blueprints
the parsing, binding and isolation checks are data here.
`core/application/maintenance-gate.ts` is exercised by tests only.

The hazards are listed in `PROJECT.json` under `hazards`, each at its line with
the properties that cover it.

## 2. Plan

| # | modules | state |
| --- | --- | --- |
| 1 | `RunRights`, `HomeControl`: the run lock, its reclaim and the handoff, the abstract right | checked; all but liveness proved |
| 2 | `JobLedger`, `WorkbenchJobs`: the job store and the ledger its files implement | checked; all but liveness proved |
| 3 | `ProcessManager`: the processes of the spaces | checked; all but liveness proved |
| 4 | `PackageUpgrade`, `Supervisor`: the composition over the abstract parts | checked; all but liveness proved |
| 5 | `HomeLock`: the operation lock, a second implementation of `RunRights` | checked; all but liveness proved |
| 6 | `CoordinatedUpgrade`, `Maintenance`: plans over a disk that survives crashes | checked; all but liveness proved |
| 7 | `SharedLlm`: begin, commit, unknown outcome, revisions, batches | checked; proved |
| 8 | `ViewSession`: the browser's selection of spaces | checked; proved |
| 9 | `BlueprintPlans`, `BlueprintSession`: preview and application | checked; proved |

Each `X` of the first seven rows has its proofs in `XProofs`; `SupervisorProofs`
covers `PackageUpgrade`, `MaintenanceProofs` covers `CoordinatedUpgrade`, and
`SessionProofs` is about both sessions of the page, `ViewSession` and
`BlueprintSession` with `BlueprintPlans`.

Next, in order of worth, are models: the dashboard hub (`core/domain/dashboard/home-backend.ts`,
`node/dashboard/supervisor.ts`); the binding and merging of blueprints
(`core/domain/blueprint.ts`) as pure operators against reference definitions;
spaces control.

## 3. Modules

### RunRights and HomeControl

`RunRights` is what a lock promises: a set of holders with at most one
member, which changes only by one process taking the right from nobody or giving
it to nobody. `HomeControl` is the code. One action is one file-system call
another process can observe, with the code in memory around it:

| code | actions |
| --- | --- |
| `acquire` | `AcqStart AcqLook AcqMkdir AcqCheck AcqCreate AcqWrite AcqFail` |
| `release` (`removeOwnedRun`) | `RelCheck RelEndpoint RelUnlink RelRmdir RelFail` |
| launch and `reclaimDead` | `Observe RecLook RecMkdir RecRead RecEndpoint RecUnlink RecRmdir RecFail RecDrop` |
| `finalizeComponentHandoff`, `transferToLauncher` | `HandoffStart SpawnLauncher XferCheck XferWrite HandoffFail SendCommit CommitFail Exit` |
| launcher | `LauncherAck Reserve WaitForOldGone SpawnTarget AuthCheck AuthWrite SendToken` |
| target | `AcceptCheck AcceptWrite Refuse` |
| operating system | `Boot Die` |

State: `runDir`, `rec`, `guard`, `endpoint` are the disk; `pc` is the point each
process has reached, `handle`, `token`, `child`, `seen` what it remembers.
`Writers` (the holders of the refinement) are the processes whose next step may
write the Home: the owner that has a handle, and the launcher between selecting
the component and handing over. A member of `Proc` is one incarnation: dead stays
dead, but `PidOf` need not be injective, so a pid can come back.
A launch whose `dropReclaim` fails, also when the catch calls it again, leaves the
guard and ends there (`dropFailed`): nothing passes or removes that guard.
Left out: symlinks, damaged records and aliases (`inspect` answers "held,
ambiguous" and all operations refuse, as for a torn record), the manager record,
the receipt's text.

### HomeLock

Again one action per file-system call. A member of `Call` is one call of `run` or,
in `Reclaimer`, of `unlockDead`; `Inst` are the `HomeOperationLock` objects and
`Proc` the processes, since one process makes several and each has its own
`active` nonce and `tail`. `ctx` is the `AsyncLocalStorage` store a call inherits,
which is how a nested call is known, and how a call that outlives its parent is
told from one. `acquire`, `finishOwnership` and `unlockDead` are synchronous, so
that calls of one process never interleave inside them. Any file-system call may
fail and any process may die. A failure that leaves something behind is counted
(`MaxFaults`), as deaths are (`MaxDeaths`); one before anything was made is a refusal
and is free. A call that made the directory and then fails to inspect it again (205),
or to remove it (`abortUncommittedLock` keeps silent about that, 397), is `stranded`:
it answers busy or throws, and the empty directory stays, the Home locked for good.
The module implements `RunRights` with the calls that act as holders.

### JobLedger and WorkbenchJobs

`JobLedger` says what a client may rely on: a request is accepted, begins at most
once, and its outcome is final. `WorkbenchJobs` has `records` (memory), `disk`
(files), the `queue` with the callback at its head, `signal`, and `direct`
mutations with their `host`. Every action that writes has a variant where the
write fails (`Put` and `RollBack` translate `write`). `Crash` keeps only `disk`
and forgets the rest, `Boot` is `loadFromDisk` with what it rewrites.

### ProcessManager

One action per await of `startOnce`, `stopOnce`, `terminate`, `reservePort` and
`abandonStart`. The event loop is modelled by a guard: actions that deliver an
outside event (`Settled`) wait until no promise reaction is due (`Reaction`), so
that the model interleaves where the code can and nowhere else. `stage` is the
await a call is in, `op` the call, `queue` the tail behind it.

### PackageUpgrade and Supervisor

In `Supervisor` the run lock is one variable (`rights`), the job store a serial
`queue` with `durable` outcomes, a space a member of `children` or not; what these
abstract from is what the modules above establish. Actions are the turns of
`runCommand`, `executePlan`, `stopOwnedAll`, the continuations after a job,
`close` and `initWritable`. `rights = "abandoned"` is the process that died with
its record left (a kill, an uncaught error after the reply, or the exit of
`packages/supervisor` after `close` failed); the next start handles the processes
it leaves (`reconcileInstanceRecords`).
`PackageUpgrade` is the state and the steps of `execute`: the marker before the
first stop, the snapshot, two packages of which each may come out torn although
the package manager reports success, verification, receipt, settlement.
`Supervisor` EXTENDS it and interleaves its steps with stops, the job's own
record and the handoff.

### CoordinatedUpgrade and Maintenance

`CoordinatedUpgrade` is one call of `upgrade()`: from the journal check to the
discarded stage, one action per call that may fail, with the catch block's
`reap` and `undo`; the disk is `journal`, `stage`, `backup`, `live`, `runtime`,
`installed`, `snaps`. The journal is written without a rename, so that a failed
write leaves a torn one, which counts as evidence. `Maintenance` adds the plans
(`plan`, on disk), the spaces (`st`, `plug`), the mutation journal (`mut`) and one
`job` whose `pc` walks through `execute`: claim, stop, mutate or upgrade, restart,
settle. `Exits`, `StartSpace`, `Expire` and `Cancel` come in between,
`Boot` keeps the disk. The start of the manager at the end of `initWritable` is not
awaited and not a job (`workbench-supervisor.ts:1056`): `Boot` only leaves it to come
(`init`), and `ManagerStarts` ends it at any time, with the manager up or not, beside
whatever job runs; `late` notes that it came up after the stops had passed it.
Commands that differ only in what they install are one kind.

### SharedLlm

The catalog, the credential records, the operations and the policies are the
disk; `tail` is the head of the job store's tail, so that the three writes of a
save (`SaveRecord`, `SavePublish`, `SaveCommit`) and the restarts of a batch are
separate steps that a crash or an exit can come between. `snapshot` is frozen at
`Spawn`; `applied` is what the Supervisor says it is, which a start sets at its very
end: a start that fails once its process is up (`StartFail`) leaves a running space
with the `applied` of before. A save names any credential record of a well-formed id, of
its own connection, of another or of none. `published` is a history variable.
`Restart` may leave the lock directory of the file that was being written, and
processes. The start of the manager at boot, which is not on the tail, is left out:
every start here is a job's.

### ViewSession

`views` holds the fields of `ViewSession`; its methods are operators on that
record (`RequestSpace`, `CommitHome`, ...) and the actions are what
`WorkbenchController` does with them when the person clicks, a poll or a view is
answered, a frame sends a message or the timer fires. The Supervisor is reduced to
statuses, generations and an epoch, which change at any time. `restore` is the
selection an earlier page kept (`restoreId`), begun by the first state if that space
runs; a click on Home before that state does not clear it. `last` is history: the
space that was asked for last, by the person or by that restoration.

### BlueprintPlans and BlueprintSession

`BlueprintPlans` is the Supervisor: `calls` are requests and answers under way, a
preview reads what it observes in one step and stages in a later one, and `work`
is the application: `look`, `observe`, `check`, `create`, `package`, `presets`,
`policy`, `default`, `provenance`, each of which may fail before or after its effect. `spaces` is what
each space really holds, against which the job's outcome is compared. The revision
is a pair: what jobs change (`home.rev`) and what processes do (`home.runs`).
`OtherJob` changes the first, between two applications; `ProcessChanges` the second
at any time, since a space may exit, or the manager come up, beside the tail.
`BlueprintSession` EXTENDS it with `ui`, the snapshot of `BlueprintSession`, its
buttons (`Send` is a request of `run`, `GiveUp` its abort by `begin`), the answers
it takes or drops, and polling. A poll shows the session every job, oldest first;
since it hears of one job only, the one it has or takes first, `Heard` says so in
one step. An inspection is served as it is answered; when the connection breaks, or
after `RestartSupervisor`, a request that has not been answered is refused, unless
it was given up, and then nothing is left of it.

## 4. Runs

| run | instance | what it shows |
| --- | --- | --- |
| `HomeControl` | 3 processes, 3 nonces, fair; 172k states | inductive invariant, exclusion, endpoint, who may remove a record, handoff phases, fail closed, refinement of `RunRights`, launches settle |
| `HomeLock` | 2 live processes over the lock of a dead one, 2 reclaimers, 2 failing calls, 2 deaths, fair; 155k states | a live owner keeps the lock, what is left behind has a cause, inline only under a live owner, refinement of `RunRights`, calls settle |
| `WorkbenchJobs` | 2 requests, 2 direct mutations, 2 starts, fair; 345k states | durability, at most once, isolation, finality, refinement of `JobLedger`, the tail drains |
| `ProcessManager` | 2 spaces, 2 ports, one stopped twice, one only started, fair; 392k states | no orphan, no leaked port, stops and cancellations mean it, calls are answered |
| `Supervisor` | 2 jobs of any kind, the manager and a space, fair; 1.39M states | rights cover children, leaving is final and settled, a shutdown or a signal ends |
| `Maintenance` | 2 plans, 2 spaces, 2 snapshots, 2 faults or a restart and 1 fault, fair; 705k states | evidence of what is half changed, a plan runs once on what was previewed, at rest only but for a late manager; a success restarts the spaces; jobs end |
| `SharedLlm` | 2 connections, 2 operations, 2 spaces, 3 revisions, 1 restart, focussed; 791k states | operations tell the truth, catalog and policies are sound, an older catalog is shown as pending, a batch is applied |
| `ViewSession` | 2 spaces, 3 selections, 2 changes; 2.06M states | shown is current, last click wins, a failure keeps the view, a load has a timer |
| `Blueprint` | 2 contents, 2 names, 2 requests, 1 package, 2 plans, 2 jobs, focussed; 480k states | inductive invariant (consumed once, the form is shown), the record is honest, created under the revision that was previewed, submitted as shown |
| `ProcessManagerPorts`, `SupervisorStartup`, `BlueprintSuccess` | as above | the three disagreements of section 7 |

Bounds, and why they are enough to be interesting.

* `HomeControl`: three incarnations are the smallest number for an owner, launcher
  and target, and for two launches that race for a dead owner; `MaxNonce` = 3
  allows an owner, its successor and one more. Their pids differ: that a pid comes
  back is left to the proofs, which do not assume `PidOf` injective.
* `HomeLock`: one process has two calls on one instance (queue and nesting) and a
  reclaimer, another one call and a reclaimer; both reclaimers find the lock of
  the third, which is dead. Two failing calls and two deaths reach every leftover,
  and two of them at once.
* `WorkbenchJobs`: two requests and two direct mutations give every order of a
  callback, one behind it and one nested in it; `MaxBoots` = 2 a restart after every
  prefix.
* `ProcessManager`: two spaces and two ports are needed for every port conflict;
  `MaxGen` bounds how often a space's starts are cancelled: twice for `a`, so that
  a start between two stops is stale when its turn comes. Deadlock is checked.
* `Supervisor`: two jobs are one that leaves and one before or behind it; the
  package upgrade, its failure at each step and a signal at any time are free.
* `Maintenance`: two plans are needed for one that runs between the preview and the
  execution of another; `MaxFaults` = 2 for a failure and one in its clean-up, or a
  crash after a failure or a failure after a restart (`Focus`: a restart counts
  as one of the two); two snapshots for the upgrade's and the one deleted. The
  manager's start is to come after the restart, while plans run.
* `SharedLlm`: the constraint `Focus` explores three regions: everything a client
  may do with credentials and no space, one space and one save with a credential, or
  all spaces and one connection without. A batch needs two spaces, a retried save
  two operations. With a borrowed credential, or one never written, two revisions.
  `MaxRevision` = 3 is a connection, its change and its removal. Deadlock is checked.
* `ViewSession`: three selections are the smallest number for one that overtakes two;
  two changes are a restart of a space while its frame loads, or of the Supervisor.
  The page begins with or without a selection to restore.
* `Blueprint`: with no event of the environment and no edit, two applications or one
  behind an older job; with one event or one edit, one application (with an event
  one request at a time). The session goes on beside an application until that
  writes into its space, and after one that succeeded.

`CHECK_DEADLOCK FALSE` is set where a bound or the death of the process really
stops the model. Symmetry is used only in runs without liveness properties.
`Inv` is in each module but `HomeControl` the conjunction of the type invariant and
the named parts beside it (for example `NoOrphan`, `NoPortLeak`, `Alone`,
`ReplacedIsRecorded`, `TransferIsSettled`, `HangIsTimed`, `ConsumedOnce`,
`FormIsShown`). `IInv` adds what these rest on (section 6); the runs check `IInv`, so
that what is proved inductive is also evaluated on every state of an instance. In
`BlueprintSession` the two are `BlueprintInv` and `BlueprintIInv`, and the
specification is `BlueprintSpec`.

## 5. Fairness

* `HomeControl`: weak fairness of the steps a live process takes without
  anybody else: its reclaim steps, sending the commit, exiting, the launcher's and
  the target's steps. Crashing, booting and launching are not fair. The code's
  waits poll with a time limit; a timeout is a failure step, so fairness never
  assumes a peer's answer.
* `HomeLock`: weak fairness of `Continue` over all calls together: some call of a
  live process goes on. Every such step brings a call nearer its end, so that this
  suffices; it assumes that an action under the lock ends.
* `WorkbenchJobs`: weak fairness that the tail calls its next callback, and that
  handlers and direct callbacks return or throw. The store sets no time limit
  itself, so that a handler ends is an assumption about the operations it calls
  (starts, stops and commands have their own time limits).
* `ProcessManager`: weak fairness of promise reactions; strong fairness of the
  awaited event of each space, since reactions of the other space intervene
  between its deliveries. Every await has a timer (`prepareHome`, the
  configuration dump, `readyTimeoutMs`, the two kills), and an event that stays
  due is delivered.
* `Supervisor`: weak fairness of the running job, of the continuations and of
  `close`. Signals, submissions and the manager's start are not fair.
* `Maintenance`: weak fairness of `Work`, the next step of the job that runs.
* `SharedLlm`, `ViewSession`, `Blueprint` state no fairness and no liveness.

## 6. Proofs

| module | proved of every behaviour of `Spec` |
| --- | --- |
| `HomeControlProofs` | `Typing`, `Invariance`, `Exclusion`, `EndpointIsCurrent`, `OwnerKeepsRecord`, `HandoffAdvances`, `IncompleteStays`, `Refinement` |
| `HomeLockProofs` | `Invariance`, `Safety`, `NestedRunsUnderOwner`, `Refinement` |
| `WorkbenchJobsProofs` | `Invariance`, `Safety`, `FinalOutcomes`, `Refinement` |
| `ProcessManagerProofs` | `Invariance`, `Safety`, `StopsAreReal`, `CancelsAreReal` |
| `SupervisorProofs` | `Invariance`, `Safety`, `RightsCover`, `Leaving` |
| `MaintenanceProofs` | `Invariance`, `Safety`, `Confirmed`, `Evident`, `Rest`, `Restarted` |
| `SharedLlmProofs` | `Invariance`, `Safety`, `BatchEnds`, `References` |
| `SessionProofs` | of `ViewSession`: `ViewInvariance`, `ViewSafety`, `LastClick`, `Failures`; of `BlueprintSession`: `BlueprintInvariance`, `BlueprintSafety`, `RecordsAreHonest`, `SpacesAreAsPreviewed`, `ShownIsSubmitted` |

They hold for every value of the constants: any number of processes, calls, jobs,
spaces, ports, plans, snapshots, connections, selections, blueprints, packages,
previews and requests, any bound. `Invariance` is `Spec => []IInv`, `Safety` is
`Spec => []Inv`; the others state the invariants, the action properties and refinements of section 4. `Inv` is nowhere inductive: `IInv` says,
point by point, what the disk and the memory are between two steps. Preservation
is a lemma per group of actions of the code, with one step per action and one per
conjunct the action can disturb. An action property follows step by step from
`IInv`, and so does a refinement: the initial states map to initial ones, every
step to a step or a stutter.

The assumptions are the named `ASSUME`s of the modules. They say that the null
values (`NoProc`, `NoPid`, `NoCall`, `None`, `NoPlan`, `NoSnap`, `NoSpace`,
`External`, the file choices `All` and `NoFile`) are none of the things they stand
beside, that bounds are natural numbers, that there is a port, that a call has an
instance and an instance a process, that the manager is not a space a plan may
change (and is one of those the Supervisor starts and stops), that plans and
snapshots are numbered in the order they are drawn, and that the blueprints with a
model are blueprints. Other than that sets may be empty or infinite.

**HomeControl.** `PidOf` is not assumed injective; inside the model, `Fresh` assumes
what the operating system guarantees: two *live* processes never share a pid.
Exclusion is not inductive: that a process is an owner says nothing about the disk.
`IInv` adds that an owner's record is its own (`OwnRecord`), so that two owners would
share a pid and `PidsDistinct` makes them one; the launcher's record is its own
and it writes only when no process is left that was the old owner; one process at
most works on a directory without a record (`OneMaker`), so nobody can complete a
record in another's directory; one launch at most is behind the guard, and between
its second read and the unlink the record cannot change and has no live owner
(`OneReclaimer`); whoever gives the record away has removed the endpoint
(`EndpointGone`); `HasChild` is what the two transfers need. `AcqCheck` is where
`OneMaker` and `OneReclaimer` meet: an acquirer that made the directory looks for
the guard again, and leaves it to the reclaimer if there is one.

**HomeLock.** The same argument, with the same names, for calls and records that
name their call; `LeftoversExplained` says of which call each directory is, at work on
it or ended by a death or a failing call, so that a refusal or a lost race without
one leaves nothing; in addition an instance's active nonce is that of a call of its
own that acts (`ActiveActs`), which is why a nested call runs inline only under a
live owner.

**WorkbenchJobs.** A record and its file differ in one way only (`Agree`): memory holds
a failure or a cancellation that could not be written. With `AtWork` (the job at
the head is a running one), `Accounted` and `Uncalled` (no handler was called for
what the file does not call begun) durability follows, and a restart, which
knows only the files, can rewrite what it finds without a second call. The
refinement maps the ledger to the statuses on disk.

**ProcessManager.** A child is the child of the instance its space has (`NoOrphan`)
because a start that has not spawned works for a space without an instance
(`NothingYet`), there is one child of a space (`OneChild`), and a space is at rest
exactly when it executes no call (`StageHasACall`). No port leaks because each
reserved port belongs to an instance or to a start that is still to release it
(`PortsAreHeld`, `ProbesAPort`); that it belongs to *one* is false, which is the
disagreement 1 of section 7. `WaitsForALiveOne` is about the shared preparation.

**Supervisor.** The rights cover the children because whoever is leaving, or has
left, is `Deserted` (`LeftBehind`): no job at work, none that will be admitted, only
the manager's start beside the jobs up. This needs what each job at work is and
has stopped (`TailIsOrderly`), that a shutdown which succeeded has left nothing
behind (`MarkedLeaves`), that a pending handoff is sealed and its plan delivered
(`PendingIsSealed`), how far `close()` is (`ClosingIsQuiet`), and where
`execute()` of the package upgrade is on the disk (`UpgradeIsOnRecord`).

**Maintenance.** `PlanIsRunning` ties the step of the job to its plan on the disk;
`StaysDown` says that what was stopped for a change stays down until it is made,
although spaces are stopped one by one and others start, except for a manager that
comes up late (`job.late`); `MutationIsHeld` and
`UpgradeIsInOrder` say what the two journals hold at each step, `ProfilesAreInPlace`
where the profiles are, `PrintHolds` that what is still to be changed is as it was
previewed, `RestartsAll` that what was stopped is still to be started.

**SharedLlm.** A save is between three writes: `SaveIsOnRecord` says what each step
finds, `RecordsAreNoted` that a record never precedes its operation. The catalog
stands still while a batch runs (`BatchIsUnderWay`) and while a space starts on
the tail (`StartsOnTail`). That an older catalog is shown as pending (`PendingIsShown`)
survives a start that fails late because no space is said to run with a revision that
is still to come (`AppliedIsPast`), and revisions only grow.

**ViewSession.** Tokens are drawn in order (`TokensAreOld`), a selection that waits for
its start has asked for no view (`StartHasNoRequest`), and the pending selection
is the one made last (`PendingIsLast`), so an answer that carries the current token
is an answer to the last click.

**Blueprints.** `BlueprintInv` is not inductive, for three reasons, and
`BlueprintIInv` adds three things to it.
*The application.* An honest record needs more than an honest record: `WorkIsTold`
says, for each stage of the application that runs, what it has published (`Told`)
and what is in its space (`Done`), so that the two differ by the effect of the step
that is under way and by nothing else; and that the space is its own
(`JobsAreRecorded`), although other jobs may have made one of the same name while
the plan was previewed. Every step of the application then ends it, with a record
that is honest of the space as the step leaves it, or advances it to the next stage.
Until the space is there, `WorkIsTold` also keeps what `consumePlan` compared: the plan
was observed under the revision the job has seen, and of that the part that jobs
change, the service epoch and the catalog still hold. No other job runs meanwhile, and
a restart ends the application. What processes do, and the patch file of the
Home, may change at any time, so nothing is said of them after the job has looked.
*The plans.* Ids are given out in order (`PlansAreIssued`): a plan that is staged is
none that a job or a request has, and a consumed one does not come back.
*The session.* A preview that is answered brings a plan that nobody has seen and
no other answer brings (`AnswersAreNew`), in the service epoch its answer says,
because a preview that is being served was read in the present one (`CallIsSound`: a
restart refuses it). So the session knows of the plan it shows whether it was
submitted (`ShownIsKnown`), and with `canApply` it follows that no plan is submitted
twice, and with `FormIsShown` that it is that of the form. That the plan shown is
still staged is neither true nor needed. A step of the session leaves every request
as it was, gives it up or opens a new one, but for two: an answer that is shown, and
the click.

Only model-checked: the liveness properties (`LaunchesSettle`, `CallsSettle`,
`TailDrains`, `CallsAreAnswered`, `LeavingEnds`, `JobEnds`), since liveness under
fairness is beyond the prover. Every invariant and every action property of the
passing runs, and both refinements of `RunRights` and that of `JobLedger`, are proved.

## 7. Where the code and its documents disagree

1. `ProcessManagerPorts`: `abandonStart` frees a port by its number. When the child
   died early its port was already freed and may be reserved by another start;
   that reservation is deleted, and a third start takes the same port.
   `tasks/acceptance.md:45` and `tests/process-manager.test.ts:320` promise distinct ports.
2. `SupervisorStartup`: the manager's start in `initWritable` is not on the job
   tail. A shutdown during it can release the run rights with the manager up,
   against `docs/workbench.md:102`.
3. `BlueprintSuccess`: while the answer to `submitApply` is awaited, or after it was
   refused, `onApplyJob` takes any `blueprint.apply` job of a poll for its own and
   shows its success, against `tasks/blueprint-implementation.md:92`.

### Observations

Seen while modelling and kept in the models as the code has them; no run is
devoted to them.

Processes and supervision:
* A start that failed and could not kill its child leaves its instance; the next
  `start` finds it and reports success although the process never served
  (`process-manager.ts:376`; `docs/let-it-crash.md:15`).
* `stopAll` forgets the shared preparation when its stops are over, so that
  `prepareHome` may run beside a start queued behind them (`process-manager.ts:400`).
* If the settlement fails after the handoff port is taken, or the success is not
  persisted, the Supervisor stays sealed with the rights held, and
  `service.shutdown` is refused too. A handoff that fails after HTTP was closed
  leaves a live owner nobody can reach (`workbench-supervisor.ts:1962`).
* After a failed `workbench.upgrade` all spaces stay stopped, and a package may be
  half replaced; the marker names it.
* `unlockDead` has one caller in production (`supervisor-bootstrap.ts:225`). It does not
  remove a lock directory without a record, so an `acquire` whose second `inspect`
  throws, or whose `rmdir` fails silently, locks the Home for good
  (`home-operation-lock.ts:205`, `:397`); likewise for the run lock.

Maintenance:
* A snapshot or an upgrade that stops everything may copy the Home beside a manager that
  `initWritable` started (`workbench-supervisor.ts:1056`): the start comes up after the
  stops have passed it. `ChangesAtRest` excepts it (`job.late`).
* A plugin plan cancelled between two stops leaves the stopped spaces down
  (`workbench-maintenance.ts:959`); in `tests/workbench-maintenance.test.ts:438`, with
  one space and a cancellation at its stop, it is started again. A
  mutation-journal conflict likewise fails after the stops.
* Stops skip processes that are left unmanaged. After a failure with evidence other
  plans and starts still execute.
* `snapshot.delete` may delete the snapshot a journal names. `discardStage` failing
  after the commit reports "failed" although the upgrade was applied. A cancelled
  snapshot is "failed", with maintenance kept. A failed `writePluginMutation` leaves
  its evidence files.

Shared LLM:
* `deleteConnection` looks at policies only: a connection in the launch snapshot of
  a running space can be deleted once its policy has changed
  (`docs/plans/global-llm-connections.md:405`, `:530`).
* A start that fails once its process is up (no port, a replaced view, an instance
  record that cannot be written, `workbench-supervisor.ts:1664-1675`) leaves the space
  running with the applied revision of before, or none: it is shown as waiting for a
  restart although it is up to date. The converse is excluded (`PendingIsShown`).
* A save may name a credential of another connection or one that was never written
  (`global-llm-service.ts:299`): the catalog then has a connection without a key.
* No pending restart is shown after a policy change (`policyRevision` is always
  null). The manager's first start, beside the tail, may note a later revision
  than its snapshot. `llmBusy` is never set.
* `space.delete` with `removeData` false keeps the policy file: a space created
  again may have a policy that names a deleted connection, or fail on
  `expectedRevision` 0 after it was created.
* A failed save of an existing connection's credential leaves its record, and later
  saves are refused as immutable. A crash inside `withExclusiveDir` leaves the lock
  directory. Defaults of spaces are not checked against deleted connections.

Views:
* A click on Home before the first state is overridden by the selection an earlier
  page kept, if that space runs: `selectHome` does not clear `restoreId`
  (`store.ts:466`, `:1295`). `LastClickWins` counts the restoration as asking.
* A selection stays pending when a start fails after a poll saw it begin
  (`store.ts:1404`, `view-session.ts:237`; `docs/workbench.md:20`).
* The removal of the selected space also cancels a click that is pending and leaves
  `ui.pendingId`. A selected space that is restarted stays blank until clicked
  again. A late view of the previous epoch is accepted until the next poll. A
  silent frame selected again while its space starts has a start timer only, which
  is ignored once the space runs.

Blueprints:
* The job looks at the revision once (`blueprint-workbench.ts:705`); `consumePlan`
  compares that, and `createSpace` (532) follows several awaits later. A space that
  exits, or the manager that comes up, in between changes the revision
  (`workbench-protocol.ts:71`) and is not noticed. `CreatedAsPreviewed` claims the rest.
* `preview()` clears `previewInvalid` while the old preview stays: an old plan can be
  applied while a newer preview loads or after it failed.
* Concurrent previews exceed `BLUEPRINT_PLAN_MAX_COUNT`: the check
  (`blueprint-workbench.ts:334`) precedes an await.
* Editing while a preview or an inspection loads leaves its status "loading".
* `bindModel` may leave the policy set and report the model "failed". A crash during
  an application leaves its space and a failed job without an outcome; a failed one
  keeps its space. An application whose name another job took during the preview
  names that space in its failed outcome. Once running it cannot be cancelled.

## 8. Not modelled, and why

* Contents: configuration files, blueprint texts and their binding, logs, HTTP
  bodies, digests. They are members of small sets, valid or refused.
* File systems that lose or reorder completed calls. The code relies on
  atomic rename, `wx` creation and `mkdir`, and never calls `fsync`: what a power
  loss does to completed writes is outside the models, the death of a process is inside.
* Of modelled components: the manager record of the Home (`ensureManager`), receipt
  texts and IPC parsing of the handoff; views and fingerprints of `Supervisor`; the
  catalog cache and the listings of `Maintenance`; downloads and the candidate of
  the package upgrade; defaults of single spaces, imports and probes of the LLM
  configuration; commands, persistence and rendering of the workbench page;
  generating a blueprint from a space.
* Dashboards, spaces control, HTTP and products, component payload, diagnostics,
  doctor, desktop shell, bridges, plugin host, scripts: see `PROJECT.json` for each.
  Much of the repository is of this kind: it parses, validates, renders, copies or
  packages, and keeps no state across steps that the components above do not keep.
  So the modules stand for a small part of its lines.
