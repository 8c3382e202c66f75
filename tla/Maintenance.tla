------------------------------ MODULE Maintenance ------------------------------
(***************************************************************************)
(* WorkbenchMaintenance (src/adapters/node/workbench-maintenance.ts): the  *)
(* preview and the execution of maintenance plans, with the ports the      *)
(* Supervisor gives it and CoordinatedUpgrade.  A plan is previewed, stored*)
(* on the disk, confirmed, and executed as a job of the serial job store   *)
(* (WorkbenchJobs) under the home lock (HomeLock).  Between two awaits of a *)
(* job spaces exit on their own, plans expire and the job is cancelled.    *)
(* Commands that differ only in what they install are one kind here:       *)
(*   install   plugin.install, and plugin.toggle on                        *)
(*   remove    plugin.remove, plugin.toggle off, plugin.cleanup-manager    *)
(*   snapshot, delete, runtime, upgrade   the kinds of these names         *)
(***************************************************************************)
EXTENDS CoordinatedUpgrade, FiniteSets

CONSTANTS
  Space, Manager,  \* the ordinary spaces and the manager
  Plan, NoPlan,    \* plan ids, in the order they are drawn
  Has,             \* the spaces that have the plugin at first
  MaxBoots         \* bound: how often the Supervisor is started again

ASSUME SpaceAssumption == Manager \notin Space /\ Has \subseteq Space
ASSUME PlanAssumption  == Plan \subseteq Nat /\ NoPlan \notin Plan /\ MaxBoots \in Nat

VARIABLES
  st,       \* instance -> is its process running
  plug,     \* space -> the plugin in its profile
  plan,     \* plan id -> the stored plan
  mut,      \* plugin-mutation.json and plugin-mutation-files/
  job,      \* the job that runs
  maint,    \* maintenanceFlag
  locked,   \* a dead process left the home lock
  init,     \* the start of the manager at the end of initWritable is still to come
  boots

service == <<st, plug, plan, mut, job, maint, locked, init, boots>>
vars == <<service, upgrade, faults>>

-----------------------------------------------------------------------------
(* Commands, plans, jobs. *)

Instance == Space \cup {Manager}
Home == {"snapshot", "delete", "runtime", "upgrade"}

Command(kind, spaces, snap) == [kind |-> kind, spaces |-> spaces, snap |-> snap]
Commands ==
  {Command("install", ss, NoSnap) : ss \in SUBSET Space \ {{}}}
    \cup {Command("remove", {s}, NoSnap) : s \in {t \in Space : plug[t] = "with"}}
    \cup {Command(k, Instance, NoSnap) : k \in {"snapshot", "runtime", "upgrade"}}
    \cup {Command("delete", Instance, id) : id \in Published}

\* fingerprintFor: the affected spaces with their plugins, the runtime, the
\* upgrade journal, the snapshot.
Fingerprint(cmd) ==
  [spaces   |-> [s \in cmd.spaces |-> <<st[s], IF s \in Space THEN plug[s] ELSE "with">>],
   runtime  |-> runtime,
   journal  |-> journal.phase,
   snapshot |-> IF cmd.snap \in Published THEN snaps[cmd.snap] ELSE Unused]

\* An unreadable upgrade journal refuses every plan, a deleted snapshot its own.
Buildable(cmd) ==
  /\ journal.phase # "torn"
  /\ cmd.kind = "delete" => cmd.snap \in Published
  /\ cmd.kind = "remove" => \A s \in cmd.spaces : plug[s] = "with"

Blank == [status |-> "blank"]
NoMutation == [plan |-> NoPlan, before |-> <<>>]
Running(ss) == {s \in ss : st[s] = "running"}
Owned == {s \in Instance : st[s] # "left"}

\* cmd, print: of the plan as execute read it.  todo: instances still to stop,
\* change or start.  was: the running spaces.  down: those of them it stopped and
\* did not start again.  late: the manager, when the initialization started it
\* after the stops had passed it.  firm: irreversible.  err: the error to be caught.
NoJob == [plan |-> NoPlan, pc |-> "none", cmd |-> Blank, print |-> Blank,
          todo |-> {}, was |-> {}, down |-> {}, late |-> {},
          aborted |-> FALSE, firm |-> FALSE, err |-> "none"]
Cmd == job.cmd

Init ==
  /\ UpInit /\ faults = 0
  /\ st = [s \in Instance |-> "running"]
  /\ plug = [s \in Space |-> IF s \in Has THEN "with" ELSE "without"]
  /\ plan = [p \in Plan |-> Blank] /\ mut = NoMutation
  /\ job = NoJob /\ maint = FALSE /\ locked = FALSE /\ init = FALSE /\ boots = 0

-----------------------------------------------------------------------------
(* Steps of the job.  A failed call takes it to the catch block. *)

Fault == faults < MaxFaults /\ faults' = faults + 1
Idle == job.pc = "none"
In(pc) == job.pc = pc
Go(pc) == job' = [job EXCEPT !.pc = pc]
GoWith(pc, todo) == job' = [job EXCEPT !.pc = pc, !.todo = todo]
Throw(err) == job' = [job EXCEPT !.pc = "catch", !.err = err]
\* A call of a port, or the persistence of the job's progress.
ThrowSome == \E err \in {"plain", "uncertain"} : Throw(err)

\* Of a plan that is not previewed any more nothing but the status is read again.
Mark(p, status) == plan' = [plan EXCEPT ![p] = [status |-> status]]

\* "stale" is a plan stored as previewed that assertPlanIdentity or assertFresh
\* refuses.  Any start or stop moves a generation, and with it the revision.
Previewed == {p \in Plan : plan[p].status = "previewed"}
Touched == [p \in Plan |-> IF p \in Previewed THEN [status |-> "stale"] ELSE plan[p]]
Set(s, status) == st' = [st EXCEPT ![s] = status] /\ plan' = Touched

\* stopSpace and startSpace of the next instance.  The error may be a
\* ProcessTerminationError, which leaves the maintenance uncertain; either call
\* may throw after the process was stopped or started.
StopNext_As(from, to) ==
  /\ In(from)
  /\ \E s \in Running(job.todo) :
       \/ /\ Set(s, "stopped") /\ UNCHANGED faults
          /\ job' = [job EXCEPT !.todo = @ \ {s}, !.down = @ \cup ({s} \cap job.was),
                                !.pc = IF job.todo = {s} THEN to ELSE @]
       \/ Fault /\ ThrowSome /\ (UNCHANGED <<st, plan>> \/ Set(s, "stopped"))
StopNext(from, to) ==
  /\ In(from)
  /\ \E s \in job.todo :
       \/ /\ Set(s, "stopped") /\ UNCHANGED faults
          /\ job' = [job EXCEPT !.todo = @ \ {s}, !.down = @ \cup ({s} \cap job.was),
                                !.pc = IF job.todo = {s} THEN to ELSE @]
       \/ Fault /\ ThrowSome /\ (UNCHANGED <<st, plan>> \/ Set(s, "stopped"))

StartNext_As(from, to, e) ==
  /\ In(from)
  /\ \/ /\ job.todo = {}
        /\ (IF e = "none" THEN Go(to) ELSE Throw(e)) /\ UNCHANGED <<st, plan, faults>>
     \/ \E s \in job.todo :
          \/ /\ Set(s, "running") /\ UNCHANGED faults
             /\ job' = [job EXCEPT !.todo = @ \ {s}, !.down = @ \ {s}]
          \/ /\ Fault /\ (UNCHANGED <<st, plan>> \/ Set(s, "running"))
             /\ job' = [job EXCEPT !.todo = @ \ {s}]
StartNext(from, to, e) ==
  /\ In(from)
  /\ \/ /\ job.todo = {}
        /\ (IF e = "none" THEN Go(to) ELSE Throw(e)) /\ UNCHANGED <<st, plan, faults>>
     \/ \E s \in job.todo :
          \/ /\ Set(s, "running") /\ UNCHANGED faults
             /\ job' = [job EXCEPT !.todo = @ \ {s}, !.down = @ \ {s}]
          \/ /\ Fault /\ (UNCHANGED <<st, plan>> \/ Set(s, "running"))
             /\ Throw("plain")

-----------------------------------------------------------------------------
(* preview, and the entry of execute. *)

Preview(p, cmd) ==
  /\ \A other \in Plan : plan[other] = Blank <=> other >= p
  /\ Idle /\ ~locked
  /\ Buildable(cmd)
  /\ plan' = [plan EXCEPT ![p] = [status |-> "previewed", cmd |-> cmd,
                                   print |-> Fingerprint(cmd)]]
  /\ UNCHANGED <<st, plug, mut, job, maint, locked, init, boots, upgrade, faults>>

Expire(p) ==
  /\ p \in Previewed
  /\ Mark(p, "stale")
  /\ UNCHANGED <<st, plug, mut, job, maint, locked, init, boots, upgrade, faults>>

\* The job of plan.execute takes the home lock.
Execute(p) ==
  /\ Idle /\ ~locked /\ plan[p] # Blank
  /\ job' = [NoJob EXCEPT !.plan = p, !.pc = "check"]
  /\ UNCHANGED <<st, plug, plan, mut, maint, locked, init, boots, upgrade, faults>>

\* readPlan, assertPlanIdentity and assertFresh, before the await of buildPlan.
Check ==
  /\ In("check")
  /\ job' = IF job.plan \in Previewed
            THEN [job EXCEPT !.pc = "rebuild", !.cmd = plan[job.plan].cmd,
                                               !.print = plan[job.plan].print]
            ELSE NoJob
  /\ UNCHANGED <<st, plug, plan, mut, maint, locked, init, boots, upgrade, faults>>

\* The plan is built again and compared; then it is stored as running.  Until
\* the next await nothing can cancel the job.
Unchanged_As == Buildable(job.cmd)
Unchanged == Buildable(job.cmd) /\ Fingerprint(job.cmd) = job.print

FirstStep(cmd) ==
  CASE cmd.kind \in {"install", "remove"} -> IF Running(cmd.spaces) = {} THEN "journal" ELSE "stop"
    [] cmd.kind = "snapshot" -> IF Owned = {} THEN "snapshot" ELSE "stopAll"
    [] OTHER -> cmd.kind

\* mutatePlugins stops what runs; stopOwnedAll goes over all it owns.
FirstTodo(cmd) ==
  IF cmd.kind \in {"snapshot", "upgrade"} THEN Owned ELSE Running(cmd.spaces)

Rebuild ==
  /\ In("rebuild")
  /\ \/ /\ ~Unchanged
        /\ job' = NoJob
        /\ UNCHANGED <<plan, maint, up, phase, faults>>
     \/ /\ Unchanged
        /\ UNCHANGED faults
        /\ Mark(job.plan, "running")
        /\ job' = [job EXCEPT !.pc = FirstStep(Cmd), !.todo = FirstTodo(Cmd),
                              !.was = Running(Cmd.spaces), !.late = {},
                              !.firm = Cmd.kind \in Home]
        /\ maint' = (maint \/ Cmd.kind \in {"snapshot", "upgrade"})
        /\ up' = IF Cmd.kind = "upgrade" THEN "assert" ELSE up
        /\ UNCHANGED phase
     \/ /\ Unchanged
        /\ Fault /\ job' = NoJob
        /\ UNCHANGED <<plan, maint, up, phase>>
  /\ UNCHANGED <<st, plug, mut, locked, init, boots, disk, candidate>>

-----------------------------------------------------------------------------
(* mutatePlugins. *)

\* throwIfAborted comes before each stop, and again after the last one.
Stop ==
  /\ \/ /\ job.aborted /\ In("stop") /\ Throw("abort")
        /\ UNCHANGED <<st, plan, faults>>
     \/ /\ ~job.aborted /\ StopNext("stop", "journal")
  /\ UNCHANGED <<plug, mut, maint, locked, init, boots, upgrade>>

\* writePluginMutation: the profile files are copied, then the journal written.
WriteMutation ==
  /\ In("journal")
  /\ \/ /\ job.aborted /\ GoWith("undoStart", job.was)
        /\ UNCHANGED <<mut, faults>>
     \/ /\ ~job.aborted /\ mut.plan # NoPlan
        /\ Throw("plain") /\ UNCHANGED <<mut, faults>>
     \/ /\ ~job.aborted /\ mut.plan = NoPlan
        /\ mut' = [plan |-> job.plan, before |-> [s \in Cmd.spaces |-> plug[s]]]
        /\ GoWith(IF Cmd.kind = "install" THEN "download" ELSE "mutate", Cmd.spaces)
        /\ UNCHANGED faults
     \/ ~job.aborted /\ Fault /\ ThrowSome /\ UNCHANGED mut
  /\ UNCHANGED <<st, plug, plan, maint, locked, init, boots, upgrade>>

\* ensureExactNpmLibrary, the last look at the signal, and the point of no
\* return.
Download ==
  /\ In("download")
  /\ \/ /\ UNCHANGED faults
        /\ IF job.aborted THEN job' = [job EXCEPT !.pc = "mutFail", !.err = "abort"]
                          ELSE Go("mutate")
     \/ Fault /\ job' = [job EXCEPT !.pc = "mutFail", !.err = "plain"]
  /\ UNCHANGED <<st, plug, plan, mut, maint, locked, init, boots, upgrade>>

Wanted == IF Cmd.kind = "install" THEN "with" ELSE "without"

\* runBatch, or the one removal: the CLI changes a profile, fails half way, or
\* returns although it did not do it.
Mutate ==
  /\ In("mutate")
  /\ \E s \in job.todo :
       \/ /\ plug' = [plug EXCEPT ![s] = Wanted] /\ UNCHANGED faults
          /\ job' = [job EXCEPT !.firm = TRUE, !.todo = @ \ {s},
                                !.pc = IF job.todo = {s} THEN "verify" ELSE @]
       \/ /\ Fault /\ plug' \in {plug, [plug EXCEPT ![s] = "torn"]}
          /\ \/ job' = [job EXCEPT !.firm = TRUE, !.pc = "mutFail", !.err = "plain"]
             \/ job' = [job EXCEPT !.firm = TRUE, !.todo = @ \ {s},
                                   !.pc = IF job.todo = {s} THEN "verify" ELSE @]
  /\ UNCHANGED <<st, plan, mut, maint, locked, init, boots, upgrade>>

\* verifyPluginReadback of every space of the plan, then clearPluginMutation.
Verified == \A s \in Cmd.spaces : plug[s] = Wanted

Verify ==
  /\ In("verify")
  /\ \/ /\ Verified /\ UNCHANGED faults
        /\ mut' = NoMutation /\ GoWith("restart", job.was)
     \/ /\ ~Verified /\ UNCHANGED <<mut, faults>>
        /\ job' = [job EXCEPT !.pc = "mutFail", !.err = "plain"]
     \/ /\ Verified /\ Fault
        /\ mut' \in {mut, NoMutation}
        /\ job' = [job EXCEPT !.pc = "mutFail", !.err = "plain"]
  /\ UNCHANGED <<st, plug, plan, maint, locked, init, boots, upgrade>>

\* The catch block: an abort that left the profiles as they were is undone,
\* anything else stays, with its journal, for a person to look at.
Untouched == \A s \in DOMAIN mut.before : plug[s] = mut.before[s]

MutationFails ==
  /\ In("mutFail")
  /\ IF job.err = "abort" /\ Untouched
     THEN mut' = NoMutation /\ GoWith("undoStart", job.was)
     ELSE Throw("uncertain") /\ UNCHANGED mut
  /\ UNCHANGED <<st, plug, plan, maint, locked, init, boots, upgrade, faults>>

\* startRequired: after the change, or after the abort.
Restart ==
  /\ \/ StartNext("restart", "settle", "none")
     \/ StartNext("undoStart", "catch", "abort")
  /\ UNCHANGED <<plug, mut, maint, locked, init, boots, upgrade>>

-----------------------------------------------------------------------------
(* The plans of the whole Home. *)

\* stopAll of runSnapshotCreate; a cancellation is seen after it.
StopAll ==
  /\ StopNext("stopAll", "snapshot")
  /\ UNCHANGED <<plug, mut, maint, locked, init, boots, upgrade>>

TakeSnapshot ==
  /\ In("snapshot")
  /\ \/ /\ job.aborted /\ Throw("abort") /\ UNCHANGED <<snaps, faults>>
     \/ /\ ~job.aborted /\ UNCHANGED faults
        /\ (\E id \in SnapId : Create(id)) /\ Go("reinit")
     \/ ~job.aborted /\ Fault /\ ThrowSome /\ UNCHANGED snaps
  /\ UNCHANGED <<st, plug, plan, mut, maint, locked, init, boots, up, phase,
                 journal, live, backup, stage, runtime, installed, candidate>>

DeleteSnapshot ==
  /\ In("delete")
  /\ \/ Delete(Cmd.snap) /\ Go("settle") /\ UNCHANGED faults
     \/ Fault /\ ThrowSome /\ UNCHANGED snaps
  /\ UNCHANGED <<st, plug, plan, mut, maint, locked, init, boots, up, phase,
                 journal, live, backup, stage, runtime, installed, candidate>>

GetRuntime ==
  /\ In("runtime")
  /\ \/ Install /\ Go("settle") /\ UNCHANGED faults
     \/ Fault /\ ThrowSome /\ UNCHANGED installed
  /\ UNCHANGED <<st, plug, plan, mut, maint, locked, init, boots, up, phase,
                 journal, live, backup, stage, runtime, snaps, candidate>>

\* runRuntimeUpgrade: upgrade() stops the instances one by one ...
UpgradeStop_As ==
  /\ In("upgrade") /\ up = "stop"
  /\ \/ /\ job.todo \subseteq {Manager} /\ up' = "snapshot" /\ UNCHANGED <<st, plan, job>>
     \/ \E s \in job.todo \ {Manager} :
          Set(s, "stopped") /\ GoWith("upgrade", job.todo \ {s}) /\ UNCHANGED up
  /\ UNCHANGED <<plug, mut, maint, locked, init, boots, phase, disk, candidate, faults>>
UpgradeStop ==
  /\ In("upgrade") /\ up = "stop"
  /\ \/ /\ job.todo = {} /\ up' = "snapshot" /\ UNCHANGED <<st, plan, job>>
     \/ \E s \in job.todo :
          Set(s, "stopped") /\ GoWith("upgrade", job.todo \ {s}) /\ UNCHANGED up
  /\ UNCHANGED <<plug, mut, maint, locked, init, boots, phase, disk, candidate, faults>>

\* ... does its own steps ...
UpgradeStep ==
  /\ In("upgrade") /\ Upgrading
  /\ UNCHANGED service

\* ... and returns or throws.
UpgradeEnds ==
  /\ In("upgrade") /\ up \in Ended
  /\ up' = "idle"
  /\ CASE up = "ok"     -> Go("reinit")
       [] up = "failed" -> Throw("plain")
       [] OTHER         -> Throw("uncertain")
  /\ UNCHANGED <<st, plug, plan, mut, maint, locked, init, boots, phase, disk, candidate, faults>>

\* reinitializeManager starts the manager, unless a dead Supervisor left it
\* running; then withMaintenance ends.  A manager that came up meanwhile is
\* stopped first.
Reinit ==
  /\ In("reinit")
  /\ IF st[Manager] = "left"
     THEN maint' = FALSE /\ Go("settle") /\ UNCHANGED <<st, plan, faults>>
     ELSE \/ Set(Manager, "running") /\ maint' = FALSE /\ Go("settle") /\ UNCHANGED faults
          \/ /\ Fault /\ ThrowSome /\ UNCHANGED maint
             /\ UNCHANGED <<st, plan>> \/ \E how \in {"stopped", "running"} : Set(Manager, how)
  /\ UNCHANGED <<plug, mut, locked, init, boots, upgrade>>

-----------------------------------------------------------------------------
(* The end of the job. *)

\* markPlan succeeded, still inside the try block.
Settle ==
  /\ In("settle")
  /\ \/ Mark(job.plan, "succeeded") /\ job' = NoJob /\ UNCHANGED faults
     \/ Fault /\ Throw("uncertain") /\ UNCHANGED plan
  /\ UNCHANGED <<st, plug, mut, maint, locked, init, boots, upgrade>>

\* withMaintenance keeps the flag for the plans that set it, and uncertain
\* errors raise it and leave the plan "running".
KeepsMaintenance ==
  maint \/ job.err = "uncertain" \/ Cmd.kind \in {"snapshot", "upgrade"}

Catch ==
  /\ In("catch")
  /\ job' = NoJob
  /\ maint' = KeepsMaintenance
  /\ \/ /\ UNCHANGED faults
        /\ Mark(job.plan, CASE job.err = "uncertain"           -> "running"
                              [] job.err = "abort" /\ ~job.firm -> "cancelled"
                              [] OTHER                          -> "failed")
     \/ job.err # "uncertain" /\ Fault /\ Mark(job.plan, "running")
  /\ UNCHANGED <<st, plug, mut, locked, init, boots, upgrade>>

-----------------------------------------------------------------------------
(* What else happens. *)

\* jobs.cancel, during an await that the context says can be cancelled.
Cancel ==
  /\ \/ job.pc \in {"stop", "download", "stopAll"}
     \/ job.pc \in {"journal", "snapshot"} /\ job.was # {}
  /\ ~job.aborted
  /\ job' = [job EXCEPT !.aborted = TRUE]
  /\ UNCHANGED <<st, plug, plan, mut, maint, locked, init, boots, upgrade, faults>>

\* The process of an instance exits.
Exits(s) ==
  /\ st[s] = "running" /\ Fault
  /\ Set(s, "stopped")
  /\ UNCHANGED <<plug, mut, job, maint, locked, init, boots, upgrade>>

\* The job of space.start.
StartSpace(s) ==
  /\ Idle /\ ~locked /\ st[s] = "stopped"
  /\ Set(s, "running")
  /\ UNCHANGED <<plug, mut, job, maint, locked, init, boots, upgrade, faults>>

MaintenanceEvidence == Evidence \/ mut.plan # NoPlan

\* The Supervisor stops or dies and is started again: memory is gone, the lock
\* of a job stays, plans belong to an old epoch.  The manager is to be started
\* unless the disk shows unfinished maintenance or something was left running.
Boot ==
  /\ boots < MaxBoots /\ boots' = boots + 1
  /\ job' = NoJob /\ maint' = FALSE
  /\ plan' = Touched
  /\ locked' = (locked \/ ~Idle)
  /\ UpgradeDies
  /\ \E left \in {{}, Running(Instance)} :
       /\ st' = [s \in Instance |-> IF s \in left THEN "left" ELSE "stopped"]
       /\ init' = (left = {} /\ ~candidate' /\ ~locked' /\ mut.plan = NoPlan /\ ~Evidence')
  /\ UNCHANGED <<plug, mut, faults>>

\* That start is no job: it comes to its end, or fails, beside whatever job runs.
ManagerStarts ==
  /\ init /\ init' = FALSE
  /\ \/ /\ st[Manager] = "stopped" /\ Set(Manager, "running")
        /\ job' = IF Idle THEN job ELSE [job EXCEPT !.late = @ \cup ({Manager} \ job.todo)]
     \/ UNCHANGED <<st, plan, job>>
  /\ UNCHANGED <<plug, mut, maint, locked, boots, upgrade, faults>>

Work == Check \/ Rebuild \/ Stop \/ WriteMutation \/ Download \/ Mutate \/ Verify
        \/ MutationFails \/ Restart \/ StopAll \/ TakeSnapshot \/ DeleteSnapshot
        \/ GetRuntime \/ UpgradeStop \/ UpgradeStep \/ UpgradeEnds \/ Reinit
        \/ Settle \/ Catch

Next ==
  \/ \E p \in Plan, cmd \in Commands : Preview(p, cmd)
  \/ \E p \in Plan : Expire(p) \/ Execute(p)
  \/ Work \/ Cancel \/ Boot \/ ManagerStarts
  \/ \E s \in Instance : Exits(s) \/ StartSpace(s)

Spec == Init /\ [][Next]_vars
FairSpec == Spec /\ WF_vars(Work)

-----------------------------------------------------------------------------
(* The job in terms of what the properties speak of. *)

Kinds == {"install", "remove"} \cup Home
CommandType ==
  [kind : {"install", "remove"}, spaces : SUBSET Space, snap : {NoSnap}]
    \cup [kind : Home, spaces : {Instance}, snap : SnapId \cup {NoSnap}]

\* The steps of mutatePlugins, those of a plan of the whole Home, and all that come
\* after the plan was stored as running.
OfPlugins == {"stop", "journal", "download", "mutate", "verify", "mutFail", "restart", "undoStart"}
OfHome == {"stopAll", "snapshot", "delete", "runtime", "upgrade", "reinit"}
Working == OfPlugins \cup OfHome \cup {"settle", "catch"}

-----------------------------------------------------------------------------
(* Properties. *)

Statuses == {"blank", "previewed", "stale", "running", "succeeded", "failed", "cancelled"}

Pc == {"none", "check", "rebuild", "stop", "journal", "download", "mutate", "verify",
       "mutFail", "restart", "undoStart", "stopAll", "snapshot", "delete", "runtime",
       "upgrade", "reinit", "settle", "catch"}

TypeOK ==
  /\ UpTypeOK /\ faults \in 0..MaxFaults /\ boots \in 0..MaxBoots
  /\ st \in [Instance -> {"running", "stopped", "left"}]
  /\ plug \in [Space -> {"with", "without", "torn"}]
  /\ DOMAIN plan = Plan /\ \A p \in Plan : plan[p].status \in Statuses
  /\ mut.plan \in Plan \cup {NoPlan} /\ DOMAIN mut.before \subseteq Space
  /\ DOMAIN job = DOMAIN NoJob
  /\ job.plan \in Plan \cup {NoPlan} /\ job.pc \in Pc
  /\ job.todo \subseteq Instance /\ job.was \subseteq Instance
  /\ job.down \subseteq job.was /\ job.late \subseteq {Manager}
  /\ maint \in BOOLEAN /\ locked \in BOOLEAN /\ init \in BOOLEAN

\* A profile the package manager left half changed is named by the mutation
\* journal, which holds what it was before (948-983, 1458-1495).
TornHasEvidence == \A s \in Space : plug[s] = "torn" => s \in DOMAIN mut.before

\* The state invariant: what is unfinished on the disk says so.
Inv == TypeOK /\ TornHasEvidence /\ MixedHasEvidence /\ ProfilesNeverLost

\* A plan begins once, across failures and restarts, and what it changes is
\* what the person confirmed, although other plans ran meanwhile and this one is
\* built again over an await (449-462): the profile it changes has the plugins,
\* the runtime it replaces is the one, of the preview.  What is changed has a
\* plan on the disk that says it is running.
ConfirmedOnce ==
  [][/\ \A p \in Plan : plan'[p].status = "running"
                          => plan[p].status \in {"previewed", "stale", "running"}
     /\ \A s \in Space : plug'[s] # plug[s] => plug[s] = job.print.spaces[s][2]
     /\ runtime' # runtime => runtime = job.print.runtime
     /\ <<plug, live, runtime, snaps>>' # <<plug, live, runtime, snaps>>
          => job.plan \in Plan /\ plan[job.plan].status = "running"]_vars

\* Evidence of an unfinished change is never overwritten by a later change, and
\* only the job that wrote it removes it (1458, 1487, coordinated-upgrade 259).
EvidenceKept ==
  [][/\ mut' # mut => mut.plan = NoPlan \/ mut.plan = job.plan
     /\ Evidence /\ journal'.snap # journal.snap =>
          job.plan \in Plan /\ phase # "none" /\ journal' = NoJournal]_vars

\* When the Home is copied nothing in it runs that the stops have passed, and the
\* files of a profile are changed while its space is stopped (958-971, 1010-1025,
\* coordinated-upgrade 177-183): spaces are stopped one by one, some exit on their
\* own, one was stopped before this job asked.  The exception is the manager, when
\* the start that initWritable left to itself comes to its end after the stops.
ChangesAtRest ==
  [][/\ (\E id \in SnapId : snaps[id] = Unused /\ snaps'[id] # Unused)
          => Running(Instance) \subseteq job.late
     /\ \A s \in Space : plug'[s] # plug[s] => st[s] # "running"]_vars

\* A plugin plan that succeeded has started every space it stopped (949-1008).
SuccessRestartsSpaces ==
  [][\A p \in Plan : plan[p].status = "running" /\ plan'[p].status = "succeeded"
       => p = job.plan /\ (job.cmd.kind \in {"install", "remove"} => job.down = {})]_vars

\* A job ends, whatever fails in it (449-545).
JobEnds == ~Idle ~> Idle

-----------------------------------------------------------------------------
(* The inductive invariant: what the job has read, written and stopped,      *)
(* between two of its steps.                                                 *)

\* The plan of a working job is stored as running, with a command that fits the
\* step; a plan that is looked at may have gone stale.
PlanIsRunning ==
  /\ \A p \in Previewed : plan[p].cmd \in CommandType
  /\ ~Idle => job.plan \in Plan
  /\ job.pc \in {"check", "rebuild"} => job.down = {}
  /\ job.pc \in {"rebuild"} \cup Working => Cmd \in CommandType
  /\ In("rebuild") => plan[job.plan].status \in {"previewed", "stale"}
  /\ job.pc \in Working => plan[job.plan].status = "running"
  /\ job.pc \in OfPlugins => Cmd.kind \notin Home
  /\ job.pc \in OfHome => Cmd.kind \in Home
  /\ up # "idle" => In("upgrade")

\* What is stopped for a change stays down until it is made; only the manager may
\* come up late.
StaysDown ==
  /\ In("stop") => Running(Cmd.spaces) \subseteq job.todo
  /\ job.pc \in {"journal", "download", "mutate"} => Running(Cmd.spaces) = {}
  /\ In("stopAll") \/ up \in {"assert", "stop"} => Running(Instance) \subseteq job.todo \cup job.late
  /\ In("snapshot") \/ up = "snapshot" => job.todo = {} /\ Running(Instance) \subseteq job.late
  /\ job.pc \in {"stop", "restart"} => job.todo \subseteq job.was

\* The mutation journal while its job is at work, and what any journal holds.
MutationIsHeld ==
  /\ job.pc \in {"download", "mutate", "verify"} \/ (In("mutFail") /\ job.err = "abort") =>
       mut.plan = job.plan /\ DOMAIN mut.before = Cmd.spaces
  /\ job.pc \in {"download", "mutate"} => job.todo \subseteq Cmd.spaces
  /\ mut.plan = NoPlan => DOMAIN mut.before = {}
  /\ \A s \in DOMAIN mut.before : mut.before[s] # "torn"

\* What is still to be changed is as it was in the preview.
PrintHolds ==
  /\ job.pc \in {"stop", "journal", "download"} =>
       \A s \in Cmd.spaces : plug[s] = job.print.spaces[s][2]
  /\ In("mutate") => \A s \in job.todo : plug[s] = job.print.spaces[s][2]
  /\ up \in Begun \ {"clear", "discard"} => runtime = job.print.runtime

\* Every space the job stopped is still to be started, or was.
RestartsAll ==
  /\ In("restart") => job.down \subseteq job.todo
  /\ In("settle") /\ Cmd.kind \notin Home => job.down = {}

IInv ==
  /\ Inv /\ UpgradeIsInOrder /\ ProfilesAreInPlace
  /\ PlanIsRunning /\ StaysDown /\ MutationIsHeld /\ PrintHolds /\ RestartsAll
===============================================================================
