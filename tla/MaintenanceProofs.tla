--------------------------- MODULE MaintenanceProofs ---------------------------
(***************************************************************************)
(* Proofs about Maintenance and CoordinatedUpgrade for every set of spaces *)
(* and plans and any number of failures and restarts.  They rest on the    *)
(* inductive invariant IInv: what the job has read, written and stopped so *)
(* far, and where the profiles are between two steps of upgrade().         *)
(***************************************************************************)
EXTENDS Maintenance, TLAPS

-----------------------------------------------------------------------------
(* upgrade() by itself.                                                      *)

UpInv == /\ UpgradeIsInOrder /\ ProfilesAreInPlace
         /\ MixedHasEvidence /\ ProfilesNeverLost

\* The snapshot a run took is one.
LEMMA TakenIsOne ==
  ASSUME NEW a \in SnapId, NEW b \in SnapId, Taken(a), Taken(b)
  PROVE  a = b
<1>1. a \in Nat /\ b \in Nat  BY SnapAssumption
<1>2. ~ (a < b) /\ ~ (b < a)  BY DEF Taken, Published
<1> QED BY <1>1, <1>2

\* A step that leaves the journal and the files alone.
LEMMA UpgradeKept ==
  ASSUME UpInv, UNCHANGED <<up, phase, journal, live, backup, runtime, snaps>>
  PROVE  UpInv'
<1>1. Matched' = Matched /\ Evidence' = Evidence /\ \A id : Taken(id)' = Taken(id)
  BY DEF Matched, Evidence, Taken, Published
<1> QED BY <1>1 DEF UpInv, UpgradeIsInOrder, ProfilesAreInPlace, MixedHasEvidence, ProfilesNeverLost

\* ... between two upgrades, where the snapshots may change.
LEMMA NoUpgrade ==
  ASSUME UpInv, up' \in {"idle", "assert"}, phase' \in {phase, "none"},
         UNCHANGED <<live, backup, runtime>>,
         journal' = journal \/ (phase' = "none" /\ Matched)
  PROVE  UpInv'
<1>1. Matched' = Matched  BY DEF Matched
<1> QED BY <1>1 DEF UpInv, UpgradeIsInOrder, ProfilesAreInPlace, MixedHasEvidence, ProfilesNeverLost

LEMMA CountedFaults == ASSUME UpTypeOK, faults \in 0..MaxFaults
  PROVE /\ \A a, b : At(a, b) => faults' \in 0..MaxFaults
        /\ \A a, b : FailsAt(a, b) => faults' \in 0..MaxFaults
        /\ Fault => faults' \in 0..MaxFaults
  BY SnapAssumption DEF At, FailsAt, Fault

LEMMA UpgradingTypes ==
  ASSUME UpTypeOK, faults \in 0..MaxFaults, Upgrading
  PROVE  UpTypeOK' /\ faults' \in 0..MaxFaults
<1> USE CountedFaults DEF UpTypeOK, Begun, Caught, Ended
<1>1. CASE AssertClear  BY <1>1 DEF AssertClear, At, disk
<1>2. ASSUME NEW id \in SnapId, Snapshot(id) PROVE UpTypeOK' /\ faults' \in 0..MaxFaults
  BY <1>2 DEF Snapshot, At, Create
<1>3. CASE Prepare  BY <1>3 DEF Prepare, At, FailsAt, Journal, Garbled
<1>4. CASE InstallRuntime \/ MakeStage \/ Smoke
  <2>1. installed' = TRUE \/ installed' = installed
    BY <1>4 DEF InstallRuntime, Install, MakeStage, Smoke, disk
  <2>2. installed' \in BOOLEAN  BY <2>1
  <2> QED BY <1>4, <2>2 DEF InstallRuntime, MakeStage, Smoke, At, disk
<1>5. CASE Commit  BY <1>5 DEF Commit, At, FailsAt, Journal, Garbled
<1>6. CASE Backup \/ Swap \/ Retarget \/ Select
  BY <1>6, ZenonT(60) DEF Backup, Swap, Retarget, Select, At
<1>7. CASE ClearJournal \/ DiscardStage
  <2>1. backup' = FALSE \/ backup' = backup
    BY <1>7 DEF ClearJournal, DiscardStage
  <2>2. backup' \in BOOLEAN  BY <2>1
  <2> QED BY <1>7, <2>2 DEF ClearJournal, DiscardStage, At, NoJournal
<1>8. CASE FailsBefore  BY <1>8 DEF FailsBefore, FailsAt, disk
<1>9. CASE FailsStaging  BY <1>9 DEF FailsStaging, FailsAt
<1>10. CASE FailsCommitting  BY <1>10 DEF FailsCommitting, FailsAt, disk
<1>11. CASE Reap
  <2>1. candidate' = FALSE \/ candidate' = candidate  BY <1>11 DEF Reap
  <2>2. candidate' \in BOOLEAN  BY <2>1
  <2> QED BY <1>11, <2>2 DEF Reap, At, FailsAt, disk
<1>12. CASE Undo
  <2>1. backup' = FALSE \/ backup' = backup  BY <1>12 DEF Undo
  <2>2. backup' \in BOOLEAN  BY <2>1
  <2> QED BY <1>12, <2>2 DEF Undo, At, FailsAt, NoJournal
<1> QED BY <1>1, <1>2, <1>3, <1>4, <1>5, <1>6, <1>7, <1>8, <1>9, <1>10, <1>11, <1>12
    DEF Upgrading

LEMMA UpgradingPreserves ==
  ASSUME UpTypeOK, UpInv, Upgrading
  PROVE  UpInv'
<1> USE DEF UpInv, UpgradeIsInOrder, ProfilesAreInPlace, MixedHasEvidence, ProfilesNeverLost,
            At, FailsAt, UpTypeOK
<1>1. CASE AssertClear
  BY <1>1 DEF AssertClear, disk, Matched, Evidence
<1>2. ASSUME NEW id \in SnapId, Snapshot(id) PROVE UpInv'
  BY <1>2 DEF Snapshot, Create, Matched, Evidence
<1>3. CASE Prepare
  <2>1. Matched /\ Matched'  BY <1>3 DEF Prepare, Matched
  <2>2. PICK id \in SnapId : Prepare!(id)  BY <1>3 DEF Prepare
  <2>3. Taken(id)'  BY <2>2 DEF Taken, Published
  <2>4. CASE up' = "install"
    <3>1. journal' = [phase |-> "preparing", snap |-> id] /\ phase' = "preparing"
      BY <2>2, <2>4 DEF Journal
    <3>2. journal'.snap = id /\ journal'.phase = "preparing"  BY <3>1
    <3>3. Taken(journal.snap)'  BY <2>3, <3>2 DEF Taken, Published
    <3> QED BY <2>1, <2>2, <2>4, <3>1, <3>2, <3>3
  <2>5. CASE up' = "failed"
    <3>1. phase' = phase /\ phase # "committing"
      BY <1>3, <2>2, <2>5 DEF Evidence, Prepare
    <3> QED BY <2>1, <2>2, <2>5, <3>1
  <2> QED BY <2>2, <2>4, <2>5
<1>4. CASE InstallRuntime \/ MakeStage
  <2>1. Matched' = Matched /\ Taken(journal.snap)' = Taken(journal.snap)
    BY <1>4 DEF InstallRuntime, MakeStage, Matched, Taken, Published
  <2> QED BY <1>4, <2>1 DEF InstallRuntime, MakeStage
<1>5. CASE Smoke
  <2>1. Matched' = Matched /\ Taken(journal.snap)' = Taken(journal.snap)
    BY <1>5 DEF Smoke, disk, Matched, Taken, Published
  <2> QED BY <1>5, <2>1 DEF Smoke, disk
<1>6. CASE Commit
  BY <1>6 DEF Commit, Matched, Journal, Garbled
<1>7. CASE Backup \/ Swap \/ Retarget \/ Select
  BY <1>7 DEF Backup, Swap, Retarget, Select, Matched
<1>8. CASE ClearJournal \/ DiscardStage
  BY <1>8 DEF ClearJournal, DiscardStage, Matched, NoJournal
<1>9. CASE FailsBefore
  BY <1>9 DEF FailsBefore, disk, Matched
<1>10. CASE FailsStaging
  BY <1>10 DEF FailsStaging, Matched
<1>11. CASE FailsCommitting
  BY <1>11 DEF FailsCommitting, disk, Matched
<1>12. CASE Reap
  BY <1>12 DEF Reap, Undoable, disk, Matched
<1>13. CASE Undo
  BY <1>13 DEF Undo, Matched, NoJournal
<1> QED BY <1>1, <1>2, <1>3, <1>4, <1>5, <1>6, <1>7, <1>8, <1>9, <1>10, <1>11, <1>12, <1>13
    DEF Upgrading

LEMMA UpgradeDying ==
  ASSUME UpTypeOK, UpInv, UpgradeDies
  PROVE  UpTypeOK' /\ UpInv' /\ up' = "idle" /\ UNCHANGED <<live, runtime, snaps>>
<1>1. up' = "idle" /\ phase' = "none" /\ UNCHANGED <<live, backup, stage, runtime, installed, snaps>>
  BY DEF UpgradeDies
<1>2. journal' = journal \/ Matched
  BY DEF UpgradeDies, UpInv, ProfilesAreInPlace
<1>3. UpInv'  BY <1>1, <1>2, NoUpgrade
<1>4. UpTypeOK'  BY <1>1 DEF UpgradeDies, UpTypeOK, Garbled, Journal
<1> QED BY <1>1, <1>3, <1>4

-----------------------------------------------------------------------------
(* The job and its plan.                                                     *)

JobInv == /\ TornHasEvidence /\ PlanIsRunning /\ StaysDown
          /\ MutationIsHeld /\ PrintHolds /\ RestartsAll

\* What the types say beside those of the upgrade.
JobOK == /\ DOMAIN job = DOMAIN NoJob
         /\ job.plan \in Plan \cup {NoPlan} /\ job.pc \in Pc
         /\ job.todo \subseteq Instance /\ job.was \subseteq Instance
         /\ job.down \subseteq job.was /\ job.late \subseteq {Manager}
PlansOK == DOMAIN plan = Plan /\ \A p \in Plan : plan[p].status \in Statuses
StOK == st \in [Instance -> {"running", "stopped", "left"}]

LEMMA CommandFacts ==
  ASSUME NEW cmd \in CommandType
  PROVE  /\ cmd.spaces \subseteq Instance /\ cmd.kind \in Kinds
         /\ cmd.kind \notin Home => cmd.kind \in {"install", "remove"} /\ cmd.spaces \subseteq Space
         /\ cmd.kind \in Home => cmd.spaces = Instance
  BY DEF CommandType, Kinds, Home, Instance

LEMMA NoJobShape ==
  DOMAIN NoJob = {"plan", "pc", "cmd", "print", "todo", "was", "down", "late", "aborted", "firm", "err"}
  BY DEF NoJob

\* What stays of a job when it goes on.
Kept == /\ DOMAIN job' = DOMAIN NoJob /\ job'.plan = job.plan /\ job'.cmd = job.cmd
        /\ job'.print = job.print /\ job'.was = job.was /\ job'.late = job.late

LEMMA Moves ==
  ASSUME DOMAIN job = DOMAIN NoJob, NEW pc, NEW todo, NEW err
  PROVE  /\ Go(pc) => /\ Kept /\ job'.pc = pc /\ job'.todo = job.todo /\ job'.down = job.down
                      /\ job'.err = job.err
         /\ GoWith(pc, todo) => /\ Kept /\ job'.pc = pc /\ job'.todo = todo
                                /\ job'.down = job.down /\ job'.err = job.err
         /\ Throw(err) => /\ Kept /\ job'.pc = "catch" /\ job'.todo = job.todo
                          /\ job'.down = job.down /\ job'.err = err
  BY NoJobShape DEF Go, GoWith, Throw, Kept

\* Plans grow old while they are only previewed.
PlansAge == /\ DOMAIN plan' = DOMAIN plan
            /\ \A p \in Plan : \/ plan'[p] = plan[p]
                               \/ plan[p].status = "previewed" /\ plan'[p].status = "stale"

LEMMA SetFacts ==
  ASSUME TypeOK, NEW s \in Instance, NEW status \in {"running", "stopped"}, Set(s, status)
  PROVE  /\ PlansAge /\ StOK'
         /\ st'[s] = status /\ \A t \in Instance \ {s} : st'[t] = st[t]
<1>1. plan' = Touched  BY DEF Set
<1>2. PlansAge  BY <1>1 DEF PlansAge, Touched, Previewed, TypeOK
<1> QED BY <1>2 DEF Set, TypeOK, StOK

LEMMA MarkFacts ==
  ASSUME TypeOK, NEW p \in Plan, NEW status, Mark(p, status)
  PROVE  /\ DOMAIN plan' = Plan /\ plan'[p].status = status
         /\ \A q \in Plan \ {p} : plan'[q] = plan[q]
  BY DEF Mark, TypeOK

LEMMA AgeFacts ==
  ASSUME TypeOK, PlansAge
  PROVE  /\ PlansOK'
         /\ \A p \in Plan : plan[p].status \notin {"previewed"} => plan'[p] = plan[p]
         /\ \A p \in Plan : plan[p].status \in {"previewed", "stale"}
                              => plan'[p].status \in {"previewed", "stale"}
         /\ \A p \in Plan : plan'[p].status = "previewed" => plan'[p] = plan[p]
  BY DEF TypeOK, PlansAge, PlansOK, Statuses

\* A job that works has a plan that runs, and no upgrade goes on beside it.
LEMMA AtWork ==
  ASSUME TypeOK, JobInv, job.pc \in Working
  PROVE  /\ job.plan \in Plan /\ plan[job.plan].status = "running" /\ Cmd \in CommandType
         /\ Cmd.spaces \subseteq Instance /\ Cmd.kind \in Kinds
         /\ Cmd.kind \notin Home => Cmd.kind \in {"install", "remove"} /\ Cmd.spaces \subseteq Space
         /\ Cmd.kind \in Home => Cmd.spaces = Instance
         /\ job.pc \in OfPlugins => Cmd.kind \notin Home
         /\ job.pc \in OfHome => Cmd.kind \in Home
         /\ job.pc # "upgrade" => up = "idle"
<1>1. job.pc # "none"  BY DEF Working, OfPlugins, OfHome
<1>2. Cmd \in CommandType  BY DEF JobInv, PlanIsRunning
<1> QED BY <1>1, <1>2, CommandFacts DEF JobInv, PlanIsRunning, Idle, In

\* The job goes on with its plan.
LEMMA WorksOn ==
  ASSUME TypeOK, JobInv, job.pc \in Working, Kept, PlansAge,
         job'.pc \in Working,
         job'.pc \in OfPlugins => Cmd.kind \notin Home,
         job'.pc \in OfHome => Cmd.kind \in Home,
         up' # "idle" => job'.pc = "upgrade"
  PROVE  PlanIsRunning'
<1>1. Cmd' = Cmd  BY DEF Cmd, Kept
<1>2. job.plan \in Plan /\ plan[job.plan].status = "running" /\ Cmd \in CommandType  BY AtWork
<1>3. plan'[job'.plan].status = "running" /\ job'.plan \in Plan  BY <1>2, AgeFacts DEF Kept
<1>4. \A p \in Previewed' : plan'[p].cmd \in CommandType
  BY AgeFacts DEF Previewed, JobInv, PlanIsRunning
<1>5. job'.pc \notin {"none", "check", "rebuild"}  BY DEF Working, OfPlugins, OfHome
<1> QED BY <1>1, <1>2, <1>3, <1>4, <1>5 DEF PlanIsRunning, Idle, In

\* ... to a step that asks nothing of the spaces or the profiles.
LEMMA Calmly ==
  ASSUME TypeOK, JobInv, job.pc \in Working, Kept, PlansAge, UNCHANGED plug,
         mut' = mut \/ (mut' = NoMutation /\ \A s \in Space : plug[s] # "torn"),
         job'.pc \in {"catch", "undoStart", "mutFail", "reinit", "delete", "runtime", "settle"},
         job'.pc \in {"undoStart", "mutFail"} => Cmd.kind \notin Home,
         job'.pc \in {"reinit", "delete", "runtime"} => Cmd.kind \in Home,
         job'.pc = "settle" => Cmd.kind \in Home \/ job'.down = {},
         job'.pc = "mutFail" => job'.err # "abort",
         up' = "idle"
  PROVE  JobInv'
<1>1. Cmd' = Cmd  BY DEF Cmd, Kept
<1>2. PlanIsRunning'  BY WorksOn DEF Working, OfPlugins, OfHome
<1>3. StaysDown' /\ PrintHolds'  BY DEF StaysDown, PrintHolds, In, Begun
<1>4. MutationIsHeld' /\ TornHasEvidence'
  BY DEF MutationIsHeld, TornHasEvidence, JobInv, In, NoMutation
<1>5. RestartsAll'  BY <1>1 DEF RestartsAll, In
<1> QED BY <1>2, <1>3, <1>4, <1>5 DEF JobInv

\* A job that is over, or that has only been taken from the queue.
LEMMA AtRest ==
  ASSUME JobInv, job'.pc \in {"none", "check", "rebuild"}, UNCHANGED plug, UNCHANGED mut, up' = "idle"
  PROVE  TornHasEvidence' /\ StaysDown' /\ MutationIsHeld' /\ PrintHolds' /\ RestartsAll'
<1>1. TornHasEvidence'  BY DEF TornHasEvidence, JobInv
<1>2. StaysDown' /\ PrintHolds' /\ RestartsAll'
  BY DEF StaysDown, PrintHolds, RestartsAll, In, Begun
<1>3. MutationIsHeld'  BY DEF MutationIsHeld, JobInv, In
<1> QED BY <1>1, <1>2, <1>3

LEMMA Over ==
  ASSUME TypeOK, JobInv, job' = NoJob, UNCHANGED plug, UNCHANGED mut, up' = "idle",
         DOMAIN plan' = Plan,
         \A p \in Plan : plan'[p].status = "previewed" => plan'[p] = plan[p]
  PROVE  JobInv' /\ JobOK'
<1>1. job'.pc = "none" /\ job'.down = {}  BY DEF NoJob
<1>2. \A p \in Previewed' : plan'[p].cmd \in CommandType
  BY DEF Previewed, JobInv, PlanIsRunning
<1>3. PlanIsRunning'  BY <1>1, <1>2 DEF PlanIsRunning, Idle, In, Working, OfPlugins, OfHome
<1>4. JobOK'  BY DEF JobOK, NoJob, Pc
<1> QED BY <1>1, <1>3, <1>4, AtRest DEF JobInv

\* The types of the job, while it goes on.
LEMMA JobTypes ==
  ASSUME TypeOK, Kept, job'.pc \in Pc, job'.todo \subseteq Instance,
         job'.down \subseteq job.was
  PROVE  JobOK'
  BY DEF TypeOK, JobOK, Kept

LEMMA Types ==
  ASSUME TypeOK, UpTypeOK', faults' \in 0..MaxFaults, boots' \in 0..MaxBoots, StOK',
         plug' \in [Space -> {"with", "without", "torn"}], PlansOK',
         mut'.plan \in Plan \cup {NoPlan}, DOMAIN mut'.before \subseteq Space, JobOK',
         maint' \in BOOLEAN, locked' \in BOOLEAN, init' \in BOOLEAN
  PROVE  TypeOK'
  BY DEF TypeOK, StOK, PlansOK, JobOK

LEMMA SameUpgrade == ASSUME TypeOK, UNCHANGED upgrade PROVE UpTypeOK' /\ up' = up
  BY DEF TypeOK, UpTypeOK, upgrade, disk

-----------------------------------------------------------------------------
(* mutatePlugins.                                                            *)

\* What the steps of mutatePlugins leave alone.
Plugins == /\ UNCHANGED upgrade /\ UNCHANGED <<maint, locked, init, boots>>
           /\ faults' \in 0..MaxFaults

LEMMA PluginTypes ==
  ASSUME TypeOK, Plugins, StOK', PlansOK', JobOK',
         plug' \in [Space -> {"with", "without", "torn"}],
         mut'.plan \in Plan \cup {NoPlan}, DOMAIN mut'.before \subseteq Space
  PROVE  TypeOK'
  BY SameUpgrade, Types DEF TypeOK, Plugins

LEMMA SameService ==
  ASSUME TypeOK
  PROVE  /\ UNCHANGED st => StOK'
         /\ UNCHANGED plan => PlansOK' /\ PlansAge
         /\ UNCHANGED plug => plug' \in [Space -> {"with", "without", "torn"}]
         /\ UNCHANGED mut => mut'.plan \in Plan \cup {NoPlan} /\ DOMAIN mut'.before \subseteq Space
         /\ UNCHANGED faults => faults' \in 0..MaxFaults
         /\ Fault => faults' \in 0..MaxFaults
  BY CountedFaults DEF TypeOK, StOK, PlansOK, PlansAge

LEMMA PcFacts ==
  /\ OfPlugins \subseteq Working /\ OfHome \subseteq Working /\ Working \subseteq Pc
  /\ "none" \notin Working /\ "catch" \in Working /\ "settle" \in Working
  /\ {"stop", "journal", "download", "mutate", "verify", "mutFail", "restart", "undoStart"} = OfPlugins
  /\ {"stopAll", "snapshot", "delete", "runtime", "upgrade", "reinit"} = OfHome
  /\ {"settle", "catch", "check", "rebuild", "none"} \cap (OfPlugins \cup OfHome) = {}
  /\ OfPlugins \cap OfHome = {} /\ {"none", "check", "rebuild"} \subseteq Pc
  /\ {"settle", "catch"} \subseteq Pc
  BY DEF OfPlugins, OfHome, Working, Pc

\* What a call of a port has done to the instances when it throws.
Sets == UNCHANGED <<st, plan>> \/ \E s \in Instance, how \in {"stopped", "running"} : Set(s, how)

LEMMA SetsFacts == ASSUME TypeOK, Sets PROVE PlansAge /\ StOK' /\ PlansOK'
<1>1. CASE UNCHANGED <<st, plan>>  BY <1>1, SameService
<1>2. ASSUME NEW s \in Instance, NEW how \in {"stopped", "running"}, Set(s, how)
      PROVE  PlansAge /\ StOK' /\ PlansOK'
  BY <1>2, SetFacts, AgeFacts
<1> QED BY <1>1, <1>2 DEF Sets

\* A call throws.
LEMMA Throws ==
  ASSUME TypeOK, JobInv, job.pc \in Working, NEW err, Throw(err), Sets,
         UNCHANGED <<plug, mut>>, up' = "idle"
  PROVE  JobInv' /\ JobOK' /\ StOK' /\ PlansOK'
<1>1. Kept /\ job'.pc = "catch" /\ job'.todo = job.todo /\ job'.down = job.down
  BY Moves DEF TypeOK
<1>2. PlansAge /\ StOK' /\ PlansOK'  BY SetsFacts
<1>3. JobOK'  BY <1>1, JobTypes DEF TypeOK, Pc
<1> QED BY <1>1, <1>2, <1>3, Calmly

\* One more instance is stopped.
LEMMA StopsOne ==
  ASSUME TypeOK, JobInv, NEW from \in {"stop", "stopAll"}, NEW to \in {"journal", "snapshot"},
         job.pc = from, to \in OfPlugins <=> from \in OfPlugins,
         NEW s \in job.todo, Set(s, "stopped"), UNCHANGED <<plug, mut>>, UNCHANGED up,
         job' = [job EXCEPT !.todo = @ \ {s}, !.down = @ \cup ({s} \cap job.was),
                            !.pc = IF job.todo = {s} THEN to ELSE @]
  PROVE  JobInv' /\ JobOK' /\ StOK' /\ PlansOK'
<1>1. /\ Kept /\ job'.todo = job.todo \ {s} /\ job'.down = job.down \cup ({s} \cap job.was)
      /\ job'.pc = IF job.todo = {s} THEN to ELSE from
  BY NoJobShape DEF TypeOK, Kept
<1>2. from = "stop" => job.todo \subseteq job.was  BY DEF JobInv, StaysDown
<1>3. s \in Instance /\ job.todo \subseteq Instance /\ job.down \subseteq job.was  BY DEF TypeOK
<1>4. /\ PlansAge /\ StOK' /\ PlansOK'
      /\ st'[s] = "stopped" /\ \A t \in Instance \ {s} : st'[t] = st[t]
  BY <1>3, SetFacts, AgeFacts
<1>5. JobOK'  BY <1>1, <1>3, JobTypes DEF TypeOK, Pc
<1>6. /\ job.plan \in Plan /\ Cmd.spaces \subseteq Instance /\ up = "idle" /\ job.pc \in Working
      /\ from \in OfPlugins => Cmd.kind \notin Home
      /\ from \in OfHome => Cmd.kind \in Home
  BY AtWork, PcFacts
<1>7. Cmd' = Cmd  BY <1>1 DEF Cmd, Kept
<1>8. PlanIsRunning'
  <2>1. from \in OfPlugins \/ from \in OfHome  BY PcFacts
  <2>2. to \in OfPlugins \/ to \in OfHome  BY PcFacts
  <2>3. OfPlugins \cap OfHome = {} /\ OfPlugins \subseteq Working /\ OfHome \subseteq Working  BY PcFacts
  <2> QED BY <1>1, <1>4, <1>6, <2>1, <2>2, <2>3, WorksOn
<1>9. StaysDown'
  <2>2. CASE from = "stop"
    <3>1. Running(Cmd.spaces) \subseteq job.todo  BY <2>2 DEF JobInv, StaysDown, In
    <3>2. Running(Cmd.spaces)' = Running(Cmd.spaces) \ {s}  BY <1>6, <1>7, <1>4 DEF Running
    <3>3. to = "journal"  BY <2>2, PcFacts
    <3> QED BY <1>1, <1>2, <1>6, <2>2, <3>1, <3>2, <3>3 DEF StaysDown, In, Kept
  <2>3. CASE from = "stopAll"
    <3>1. Running(Instance) \subseteq job.todo \cup job.late  BY <2>3 DEF JobInv, StaysDown, In
    <3>2. Running(Instance)' = Running(Instance) \ {s}  BY <1>4 DEF Running
    <3>3. to = "snapshot"  BY <2>3, PcFacts
    <3>4. Running(Instance)' \subseteq job'.todo \cup job'.late  BY <1>1, <3>1, <3>2 DEF Kept
    <3>5. job'.pc = "snapshot" => job'.todo = {} /\ Running(Instance)' \subseteq job'.late
      BY <1>1, <2>3, <3>1, <3>2 DEF Kept
    <3> QED BY <1>1, <1>6, <2>3, <3>3, <3>4, <3>5 DEF StaysDown, In
  <2> QED BY <2>2, <2>3
<1>10. MutationIsHeld' /\ TornHasEvidence'
  BY <1>1 DEF JobInv, MutationIsHeld, TornHasEvidence, In
<1>11. PrintHolds'
  <2>1. job'.pc \in {"stop", "journal"} => job.pc = "stop"
    BY <1>1, PcFacts
  <2> QED BY <1>1, <1>6, <1>7, <2>1 DEF JobInv, PrintHolds, In, Kept, Begun
<1>12. RestartsAll'  BY <1>1 DEF RestartsAll, In
<1> QED BY <1>4, <1>5, <1>8, <1>9, <1>10, <1>11, <1>12 DEF JobInv

LEMMA StopPreserves == ASSUME TypeOK, JobInv, Stop PROVE TypeOK' /\ JobInv'
<1>1. job.pc = "stop" /\ job.pc \in Working  BY PcFacts DEF Stop, StopNext, In
<1>2. up = "idle" /\ up' = "idle"  BY <1>1, AtWork, SameUpgrade DEF Stop
<1>3. Plugins /\ UNCHANGED <<plug, mut>>
  BY SameService DEF Stop, Plugins, StopNext
<1>4. CASE \E err \in {"abort", "plain", "uncertain"} : Throw(err) /\ Sets
  <2>1. JobInv' /\ JobOK' /\ StOK' /\ PlansOK'  BY <1>1, <1>2, <1>3, <1>4, Throws
  <2> QED BY <1>3, <2>1, PluginTypes, SameService
<1>5. ASSUME NEW s \in job.todo, Set(s, "stopped"),
             job' = [job EXCEPT !.todo = @ \ {s}, !.down = @ \cup ({s} \cap job.was),
                                !.pc = IF job.todo = {s} THEN "journal" ELSE @]
      PROVE  TypeOK' /\ JobInv'
  <2>1. "journal" \in OfPlugins /\ "stop" \in OfPlugins  BY PcFacts
  <2>2. JobInv' /\ JobOK' /\ StOK' /\ PlansOK'  BY <1>1, <1>2, <1>3, <1>5, <2>1, StopsOne
  <2> QED BY <1>3, <2>2, PluginTypes, SameService
<1>6. CASE \E err \in {"plain", "uncertain"} : Throw(err) /\ \E s \in job.todo : Set(s, "stopped")
  BY <1>4, <1>6 DEF Sets, TypeOK
<1>7. CASE \E err \in {"abort", "plain", "uncertain"} : Throw(err) /\ UNCHANGED <<st, plan>>
  BY <1>4, <1>7 DEF Sets
<1> QED BY <1>5, <1>6, <1>7 DEF Stop, StopNext, ThrowSome

LEMMA WriteMutationPreserves == ASSUME TypeOK, JobInv, WriteMutation PROVE TypeOK' /\ JobInv'
<1>1. job.pc = "journal" /\ job.pc \in Working  BY PcFacts DEF WriteMutation, In
<1>2. up = "idle" /\ up' = "idle"  BY <1>1, AtWork, SameUpgrade DEF WriteMutation
<1>3. Plugins /\ UNCHANGED <<st, plan, plug>>
  BY SameService DEF WriteMutation, Plugins
<1>4. PlansAge /\ StOK' /\ PlansOK' /\ plug' \in [Space -> {"with", "without", "torn"}]
  BY <1>3, SameService
<1>5. /\ job.plan \in Plan /\ Cmd.spaces \subseteq Space /\ Cmd.kind \notin Home
      /\ Running(Cmd.spaces) = {}
      /\ \A s \in Cmd.spaces : plug[s] = job.print.spaces[s][2]
  BY <1>1, AtWork, PcFacts DEF JobInv, StaysDown, PrintHolds
<1>6. CASE GoWith("undoStart", job.was) /\ UNCHANGED mut
  <2>1. Kept /\ job'.pc = "undoStart" /\ job'.todo = job.was /\ job'.down = job.down
    BY <1>6, Moves DEF TypeOK
  <2>2. JobOK'  BY <2>1, JobTypes DEF TypeOK, Pc
  <2>3. JobInv'  BY <1>1, <1>2, <1>3, <1>4, <1>5, <1>6, <2>1, Calmly
  <2> QED BY <1>3, <1>4, <1>6, <2>2, <2>3, PluginTypes, SameService
<1>7. CASE \E err \in {"plain", "uncertain"} : Throw(err) /\ UNCHANGED mut
  <2>1. JobInv' /\ JobOK'  BY <1>1, <1>2, <1>3, <1>7, Throws DEF Sets
  <2> QED BY <1>3, <1>4, <1>7, <2>1, PluginTypes, SameService
<1>8. CASE /\ mut.plan = NoPlan
           /\ mut' = [plan |-> job.plan, before |-> [s \in Cmd.spaces |-> plug[s]]]
           /\ GoWith(IF Cmd.kind = "install" THEN "download" ELSE "mutate", Cmd.spaces)
  <2>1. /\ Kept /\ job'.pc \in {"download", "mutate"} /\ job'.todo = Cmd.spaces
        /\ job'.down = job.down
    BY <1>8, Moves DEF TypeOK
  <2>2. /\ mut'.plan = job.plan /\ DOMAIN mut'.before = Cmd.spaces
        /\ \A s \in Cmd.spaces : mut'.before[s] = plug[s]
    BY <1>8
  <2>3. JobOK'
    <3>1. Cmd.spaces \subseteq Instance  BY <1>5 DEF Instance
    <3> QED BY <2>1, <3>1, JobTypes DEF TypeOK, Pc
  <2>4. Cmd' = Cmd  BY <2>1 DEF Cmd, Kept
  <2>5. PlanIsRunning'  BY <1>1, <1>2, <1>4, <1>5, <2>1, WorksOn, PcFacts
  <2>6. StaysDown'
    <3>1. Running(Cmd.spaces)' = {}  BY <1>3, <1>5, <2>4 DEF Running
    <3> QED BY <1>2, <2>1, <3>1 DEF StaysDown, In
  <2>7. MutationIsHeld'
    <3>1. \A s \in Space : plug[s] # "torn"
      BY <1>8 DEF JobInv, TornHasEvidence, MutationIsHeld
    <3>2. mut'.plan # NoPlan  BY <1>5, <2>2, PlanAssumption
    <3> QED BY <1>5, <2>1, <2>2, <2>4, <3>1, <3>2 DEF MutationIsHeld, In, Kept
  <2>8. TornHasEvidence'
    BY <1>3, <1>8 DEF JobInv, TornHasEvidence, MutationIsHeld
  <2>9. PrintHolds'  BY <1>2, <1>3, <1>5, <2>1, <2>4 DEF PrintHolds, In, Kept, Begun
  <2>10. RestartsAll'  BY <2>1 DEF RestartsAll, In
  <2>11. mut'.plan \in Plan \cup {NoPlan} /\ DOMAIN mut'.before \subseteq Space  BY <1>5, <2>2
  <2> QED BY <1>3, <1>4, <2>3, <2>5, <2>6, <2>7, <2>8, <2>9, <2>10, <2>11, PluginTypes DEF JobInv
<1> QED BY <1>6, <1>7, <1>8 DEF WriteMutation, ThrowSome

LEMMA DownloadPreserves == ASSUME TypeOK, JobInv, Download PROVE TypeOK' /\ JobInv'
<1>1. job.pc = "download" /\ job.pc \in Working  BY PcFacts DEF Download, In
<1>2. up = "idle" /\ up' = "idle"  BY <1>1, AtWork, SameUpgrade DEF Download
<1>3. Plugins /\ UNCHANGED <<st, plan, plug, mut>>
  BY SameService DEF Download, Plugins
<1>4. /\ PlansAge /\ StOK' /\ PlansOK' /\ plug' \in [Space -> {"with", "without", "torn"}]
      /\ mut'.plan \in Plan \cup {NoPlan} /\ DOMAIN mut'.before \subseteq Space
  BY <1>3, SameService
<1>5. /\ Cmd.spaces \subseteq Space /\ Cmd.kind \notin Home /\ Running(Cmd.spaces) = {}
      /\ \A s \in Cmd.spaces : plug[s] = job.print.spaces[s][2]
      /\ mut.plan = job.plan /\ DOMAIN mut.before = Cmd.spaces
  BY <1>1, AtWork, PcFacts DEF JobInv, StaysDown, PrintHolds, MutationIsHeld, In
<1>6. CASE Go("mutate")
  <2>1. Kept /\ job'.pc = "mutate" /\ job'.todo = job.todo /\ job'.down = job.down
    BY <1>6, Moves DEF TypeOK
  <2>2. JobOK'  BY <2>1, JobTypes DEF TypeOK, Pc
  <2>3. Cmd' = Cmd  BY <2>1 DEF Cmd, Kept
  <2>4. PlanIsRunning'  BY <1>1, <1>2, <1>4, <1>5, <2>1, WorksOn, PcFacts
  <2>5. StaysDown'
    <3>1. Running(Cmd.spaces)' = {}  BY <1>3, <1>5, <2>3 DEF Running
    <3> QED BY <1>2, <2>1, <3>1 DEF StaysDown, In
  <2>6. job.todo \subseteq Cmd.spaces  BY <1>1 DEF JobInv, MutationIsHeld
  <2>7. MutationIsHeld' /\ TornHasEvidence'
    BY <1>3, <1>5, <2>1, <2>3, <2>6 DEF JobInv, MutationIsHeld, TornHasEvidence, In, Kept
  <2>8. PrintHolds'  BY <1>2, <1>3, <1>5, <2>1, <2>6 DEF PrintHolds, In, Kept, Begun
  <2>9. RestartsAll'  BY <2>1 DEF RestartsAll, In
  <2> QED BY <1>3, <1>4, <2>2, <2>4, <2>5, <2>7, <2>8, <2>9, PluginTypes DEF JobInv
<1>7. ASSUME NEW err \in {"abort", "plain"}, job' = [job EXCEPT !.pc = "mutFail", !.err = err]
      PROVE  TypeOK' /\ JobInv'
  <2>1. /\ Kept /\ job'.pc = "mutFail" /\ job'.todo = job.todo /\ job'.down = job.down
        /\ job'.err = err
    BY <1>7, NoJobShape DEF TypeOK, Kept
  <2>2. JobOK'  BY <2>1, JobTypes DEF TypeOK, Pc
  <2>3. Cmd' = Cmd  BY <2>1 DEF Cmd, Kept
  <2>4. PlanIsRunning'  BY <1>1, <1>2, <1>4, <1>5, <2>1, WorksOn, PcFacts
  <2>5. StaysDown' /\ PrintHolds' /\ RestartsAll'
    BY <1>2, <2>1 DEF StaysDown, PrintHolds, RestartsAll, In, Begun
  <2>6. MutationIsHeld' /\ TornHasEvidence'
    BY <1>3, <1>5, <2>1, <2>3 DEF JobInv, MutationIsHeld, TornHasEvidence, In, Kept
  <2> QED BY <1>3, <1>4, <2>2, <2>4, <2>5, <2>6, PluginTypes DEF JobInv
<1> QED BY <1>6, <1>7 DEF Download

\* One profile is changed, or is left as the failed call left it.
LEMMA MutatePreserves == ASSUME TypeOK, JobInv, Mutate PROVE TypeOK' /\ JobInv'
<1>1. job.pc = "mutate" /\ job.pc \in Working  BY PcFacts DEF Mutate, In
<1>2. up = "idle" /\ up' = "idle"  BY <1>1, AtWork, SameUpgrade DEF Mutate
<1>3. Plugins /\ UNCHANGED <<st, plan, mut>>
  BY SameService DEF Mutate, Plugins
<1>4. /\ PlansAge /\ StOK' /\ PlansOK'
      /\ mut'.plan \in Plan \cup {NoPlan} /\ DOMAIN mut'.before \subseteq Space
  BY <1>3, SameService
<1>5. /\ Cmd.spaces \subseteq Space /\ Cmd.kind \notin Home /\ Running(Cmd.spaces) = {}
      /\ \A s \in job.todo : plug[s] = job.print.spaces[s][2]
      /\ mut.plan = job.plan /\ DOMAIN mut.before = Cmd.spaces /\ job.todo \subseteq Cmd.spaces
  BY <1>1, AtWork, PcFacts DEF JobInv, StaysDown, PrintHolds, MutationIsHeld, In
<1>6. PICK s \in job.todo :
        /\ plug' \in {plug, [plug EXCEPT ![s] = Wanted], [plug EXCEPT ![s] = "torn"]}
        /\ \/ job' = [job EXCEPT !.firm = TRUE, !.pc = "mutFail", !.err = "plain"]
           \/ job' = [job EXCEPT !.firm = TRUE, !.todo = @ \ {s},
                                 !.pc = IF job.todo = {s} THEN "verify" ELSE @]
  BY DEF Mutate
<1>7. s \in Space /\ s \in DOMAIN mut.before  BY <1>5
<1>8. plug' \in [Space -> {"with", "without", "torn"}]
      /\ \A t \in Space \ {s} : plug'[t] = plug[t]
  BY <1>6, <1>7 DEF TypeOK, Wanted
<1>9. TornHasEvidence'
  <2>1. \A t \in Space : plug'[t] = "torn" => t \in DOMAIN mut.before
    BY <1>7, <1>8 DEF JobInv, TornHasEvidence
  <2> QED BY <1>3, <2>1 DEF TornHasEvidence
<1>10. CASE job' = [job EXCEPT !.firm = TRUE, !.pc = "mutFail", !.err = "plain"]
  <2>1. /\ Kept /\ job'.pc = "mutFail" /\ job'.todo = job.todo /\ job'.down = job.down
        /\ job'.err = "plain"
    BY <1>10, NoJobShape DEF TypeOK, Kept
  <2>2. JobOK'  BY <2>1, JobTypes DEF TypeOK, Pc
  <2>3. PlanIsRunning'  BY <1>1, <1>2, <1>4, <1>5, <2>1, WorksOn, PcFacts
  <2>4. StaysDown' /\ PrintHolds' /\ RestartsAll'
    BY <1>2, <2>1 DEF StaysDown, PrintHolds, RestartsAll, In, Begun
  <2>5. MutationIsHeld'  BY <1>3, <2>1 DEF JobInv, MutationIsHeld, In
  <2> QED BY <1>3, <1>4, <1>8, <1>9, <2>2, <2>3, <2>4, <2>5, PluginTypes DEF JobInv
<1>11. CASE job' = [job EXCEPT !.firm = TRUE, !.todo = @ \ {s},
                               !.pc = IF job.todo = {s} THEN "verify" ELSE @]
  <2>1. /\ Kept /\ job'.pc \in {"mutate", "verify"} /\ job'.todo = job.todo \ {s}
        /\ job'.down = job.down
    BY <1>1, <1>11, NoJobShape DEF TypeOK, Kept
  <2>2. JobOK'  BY <2>1, JobTypes DEF TypeOK, Pc
  <2>3. Cmd' = Cmd  BY <2>1 DEF Cmd, Kept
  <2>4. PlanIsRunning'  BY <1>1, <1>2, <1>4, <1>5, <2>1, WorksOn, PcFacts
  <2>5. StaysDown'
    <3>1. Running(Cmd.spaces)' = {}  BY <1>3, <1>5, <2>3 DEF Running
    <3> QED BY <1>2, <2>1, <3>1 DEF StaysDown, In
  <2>6. MutationIsHeld'
    BY <1>3, <1>5, <2>1, <2>3 DEF JobInv, MutationIsHeld, In, Kept
  <2>7. PrintHolds'
    <3>1. \A t \in job'.todo : plug'[t] = job'.print.spaces[t][2]
      BY <1>5, <1>8, <2>1 DEF Kept
    <3> QED BY <1>2, <2>1, <3>1 DEF PrintHolds, In, Begun
  <2>8. RestartsAll'  BY <2>1 DEF RestartsAll, In
  <2> QED BY <1>3, <1>4, <1>8, <1>9, <2>2, <2>4, <2>5, <2>6, <2>7, <2>8, PluginTypes DEF JobInv
<1> QED BY <1>6, <1>10, <1>11

LEMMA VerifyPreserves == ASSUME TypeOK, JobInv, Verify PROVE TypeOK' /\ JobInv'
<1>1. job.pc = "verify" /\ job.pc \in Working  BY PcFacts DEF Verify, In
<1>2. up = "idle" /\ up' = "idle"  BY <1>1, AtWork, SameUpgrade DEF Verify
<1>3. Plugins /\ UNCHANGED <<st, plan, plug>>
  BY SameService DEF Verify, Plugins
<1>4. PlansAge /\ StOK' /\ PlansOK' /\ plug' \in [Space -> {"with", "without", "torn"}]
  BY <1>3, SameService
<1>5. Cmd.kind \notin Home /\ DOMAIN mut.before = Cmd.spaces
  BY <1>1, AtWork, PcFacts DEF JobInv, MutationIsHeld
<1>6. mut' = mut \/ (mut' = NoMutation /\ \A s \in Space : plug[s] # "torn")
  <2>1. Verified => \A s \in Space : plug[s] # "torn"
    BY <1>5 DEF Verified, Wanted, JobInv, TornHasEvidence
  <2> QED BY <2>1 DEF Verify
<1>7. mut'.plan \in Plan \cup {NoPlan} /\ DOMAIN mut'.before \subseteq Space
  BY <1>6, SameService DEF NoMutation
<1>8. CASE job' = [job EXCEPT !.pc = "mutFail", !.err = "plain"]
  <2>1. /\ Kept /\ job'.pc = "mutFail" /\ job'.todo = job.todo /\ job'.down = job.down
        /\ job'.err = "plain"
    BY <1>8, NoJobShape DEF TypeOK, Kept
  <2>2. JobOK'  BY <2>1, JobTypes DEF TypeOK, Pc
  <2>3. JobInv'  BY <1>1, <1>2, <1>3, <1>4, <1>5, <1>6, <2>1, Calmly
  <2> QED BY <1>3, <1>4, <1>7, <2>2, <2>3, PluginTypes
<1>9. CASE mut' = NoMutation /\ GoWith("restart", job.was)
  <2>1. Kept /\ job'.pc = "restart" /\ job'.todo = job.was /\ job'.down = job.down
    BY <1>9, Moves DEF TypeOK
  <2>2. JobOK'  BY <2>1, JobTypes DEF TypeOK, Pc
  <2>3. PlanIsRunning'  BY <1>1, <1>2, <1>4, <1>5, <2>1, WorksOn, PcFacts
  <2>4. StaysDown' /\ PrintHolds'
    BY <1>2, <2>1 DEF StaysDown, PrintHolds, In, Begun, Kept
  <2>5. MutationIsHeld' /\ TornHasEvidence'
    BY <1>3, <1>6, <2>1 DEF JobInv, MutationIsHeld, TornHasEvidence, In, NoMutation
  <2>6. RestartsAll'  BY <2>1 DEF RestartsAll, In, TypeOK
  <2> QED BY <1>3, <1>4, <1>7, <2>2, <2>3, <2>4, <2>5, <2>6, PluginTypes DEF JobInv
<1> QED BY <1>8, <1>9 DEF Verify

LEMMA MutationFailsPreserves == ASSUME TypeOK, JobInv, MutationFails PROVE TypeOK' /\ JobInv'
<1>1. job.pc = "mutFail" /\ job.pc \in Working  BY PcFacts DEF MutationFails, In
<1>2. up = "idle" /\ up' = "idle"  BY <1>1, AtWork, SameUpgrade DEF MutationFails
<1>3. Plugins /\ UNCHANGED <<st, plan, plug>>
  BY SameService DEF MutationFails, Plugins
<1>4. PlansAge /\ StOK' /\ PlansOK' /\ plug' \in [Space -> {"with", "without", "torn"}]
  BY <1>3, SameService
<1>5. Cmd.kind \notin Home  BY <1>1, AtWork, PcFacts
<1>6. CASE Untouched /\ mut' = NoMutation /\ GoWith("undoStart", job.was)
  <2>1. Kept /\ job'.pc = "undoStart" /\ job'.todo = job.was /\ job'.down = job.down
    BY <1>6, Moves DEF TypeOK
  <2>2. JobOK'  BY <2>1, JobTypes DEF TypeOK, Pc
  <2>3. \A s \in Space : plug[s] # "torn"
    BY <1>6 DEF Untouched, JobInv, TornHasEvidence, MutationIsHeld
  <2>4. JobInv'  BY <1>1, <1>2, <1>3, <1>4, <1>5, <1>6, <2>1, <2>3, Calmly
  <2>5. mut'.plan \in Plan \cup {NoPlan} /\ DOMAIN mut'.before \subseteq Space
    BY <1>6 DEF NoMutation
  <2> QED BY <1>3, <1>4, <2>2, <2>4, <2>5, PluginTypes
<1>7. CASE Throw("uncertain") /\ UNCHANGED mut
  <2>1. JobInv' /\ JobOK'  BY <1>1, <1>2, <1>3, <1>7, Throws DEF Sets
  <2> QED BY <1>3, <1>4, <1>7, <2>1, PluginTypes, SameService
<1> QED BY <1>6, <1>7 DEF MutationFails

LEMMA RestartPreserves == ASSUME TypeOK, JobInv, Restart PROVE TypeOK' /\ JobInv'
<1>1. job.pc \in {"restart", "undoStart"} /\ job.pc \in Working
  BY PcFacts DEF Restart, StartNext, In
<1>2. up = "idle" /\ up' = "idle"  BY <1>1, AtWork, SameUpgrade DEF Restart
<1>3. Plugins /\ UNCHANGED <<plug, mut>>
  BY SameService DEF Restart, StartNext, Plugins
<1>4. /\ plug' \in [Space -> {"with", "without", "torn"}]
      /\ mut'.plan \in Plan \cup {NoPlan} /\ DOMAIN mut'.before \subseteq Space
  BY <1>3, SameService
<1>5. Cmd.kind \notin Home  BY <1>1, AtWork, PcFacts
<1>6. CASE \E err \in {"abort", "plain"} : Throw(err) /\ Sets
  <2>1. JobInv' /\ JobOK' /\ StOK' /\ PlansOK'  BY <1>1, <1>2, <1>3, <1>6, Throws
  <2> QED BY <1>3, <1>4, <2>1, PluginTypes
<1>7. CASE job.pc = "restart" /\ job.todo = {} /\ Go("settle") /\ UNCHANGED <<st, plan>>
  <2>1. Kept /\ job'.pc = "settle" /\ job'.todo = job.todo /\ job'.down = job.down
    BY <1>7, Moves DEF TypeOK
  <2>2. PlansAge /\ StOK' /\ PlansOK'  BY <1>7, SameService
  <2>3. JobOK'  BY <2>1, JobTypes DEF TypeOK, Pc
  <2>4. job.down = {}  BY <1>7 DEF JobInv, RestartsAll, In
  <2>5. JobInv'  BY <1>1, <1>2, <1>3, <1>5, <2>1, <2>2, <2>4, Calmly
  <2> QED BY <1>3, <1>4, <2>2, <2>3, <2>5, PluginTypes
<1>8. ASSUME NEW s \in job.todo, Set(s, "running"),
             job' = [job EXCEPT !.todo = @ \ {s}, !.down = @ \ {s}]
      PROVE  TypeOK' /\ JobInv'
  <2>1. /\ Kept /\ job'.pc = job.pc /\ job'.todo = job.todo \ {s} /\ job'.down = job.down \ {s}
    BY <1>8, NoJobShape DEF TypeOK, Kept
  <2>2. s \in Instance  BY DEF TypeOK, Instance
  <2>3. PlansAge /\ StOK' /\ PlansOK'  BY <1>8, <2>2, SetFacts, AgeFacts
  <2>4. JobOK'  BY <2>1, JobTypes DEF TypeOK, Pc
  <2>5. Cmd' = Cmd  BY <2>1 DEF Cmd, Kept
  <2>6. PlanIsRunning'  BY <1>1, <1>2, <1>5, <2>1, <2>3, WorksOn, PcFacts
  <2>7. StaysDown' /\ PrintHolds'
    BY <1>1, <1>2, <2>1 DEF JobInv, StaysDown, PrintHolds, In, Begun, Kept
  <2>8. MutationIsHeld' /\ TornHasEvidence'
    BY <1>1, <1>3, <2>1 DEF JobInv, MutationIsHeld, TornHasEvidence, In
  <2>9. RestartsAll'  BY <1>1, <2>1 DEF JobInv, RestartsAll, In
  <2> QED BY <1>3, <1>4, <2>3, <2>4, <2>6, <2>7, <2>8, <2>9, PluginTypes DEF JobInv
<1>9. CASE \E err \in {"abort", "plain"} : Throw(err) /\ UNCHANGED <<st, plan>>
  BY <1>6, <1>9 DEF Sets
<1>10. CASE Throw("plain") /\ \E s \in job.todo : Set(s, "running")
  BY <1>6, <1>10 DEF Sets, TypeOK
<1> QED BY <1>7, <1>8, <1>9, <1>10 DEF Restart, StartNext, In

-----------------------------------------------------------------------------
(* The plans of the whole Home.                                              *)

LEMMA StopAllPreserves == ASSUME TypeOK, JobInv, StopAll PROVE TypeOK' /\ JobInv'
<1>1. job.pc = "stopAll" /\ job.pc \in Working  BY PcFacts DEF StopAll, StopNext, In
<1>2. up = "idle" /\ up' = "idle"  BY <1>1, AtWork, SameUpgrade DEF StopAll
<1>3. Plugins /\ UNCHANGED <<plug, mut>>
  BY SameService DEF StopAll, Plugins, StopNext
<1>4. CASE \E err \in {"plain", "uncertain"} : Throw(err) /\ Sets
  <2>1. JobInv' /\ JobOK' /\ StOK' /\ PlansOK'  BY <1>1, <1>2, <1>3, <1>4, Throws
  <2> QED BY <1>3, <2>1, PluginTypes, SameService
<1>5. ASSUME NEW s \in job.todo, Set(s, "stopped"),
             job' = [job EXCEPT !.todo = @ \ {s}, !.down = @ \cup ({s} \cap job.was),
                                !.pc = IF job.todo = {s} THEN "snapshot" ELSE @]
      PROVE  TypeOK' /\ JobInv'
  <2>1. "snapshot" \notin OfPlugins /\ "stopAll" \notin OfPlugins  BY PcFacts
  <2>2. JobInv' /\ JobOK' /\ StOK' /\ PlansOK'  BY <1>1, <1>2, <1>3, <1>5, <2>1, StopsOne
  <2> QED BY <1>3, <2>2, PluginTypes, SameService
<1>6. CASE \E err \in {"plain", "uncertain"} : Throw(err) /\ \E s \in job.todo : Set(s, "stopped")
  BY <1>4, <1>6 DEF Sets, TypeOK
<1>7. CASE \E err \in {"plain", "uncertain"} : Throw(err) /\ UNCHANGED <<st, plan>>
  BY <1>4, <1>7 DEF Sets
<1> QED BY <1>5, <1>6, <1>7 DEF StopAll, StopNext, ThrowSome

\* A single call of a store while no upgrade goes on.
LEMMA StorePreserves ==
  ASSUME TypeOK, JobInv, UpInv, TakeSnapshot \/ DeleteSnapshot \/ GetRuntime
  PROVE  TypeOK' /\ JobInv' /\ UpInv'
<1>1. job.pc \in {"snapshot", "delete", "runtime"} /\ job.pc \in Working
  BY PcFacts DEF TakeSnapshot, DeleteSnapshot, GetRuntime, In
<1>2. up = "idle" /\ up' = "idle" /\ Cmd.kind \in Home
  BY <1>1, AtWork, PcFacts DEF TakeSnapshot, DeleteSnapshot, GetRuntime
<1>3. /\ UNCHANGED <<st, plug, plan, mut, maint, locked, init, boots>>
      /\ UNCHANGED <<phase, journal, live, backup, stage, runtime, candidate>>
      /\ faults' \in 0..MaxFaults
  BY SameService DEF TakeSnapshot, DeleteSnapshot, GetRuntime
<1>4. UpInv'  BY <1>2, <1>3, NoUpgrade
<1>5. installed' \in BOOLEAN
  <2>1. installed' = TRUE \/ installed' = installed
    BY DEF TakeSnapshot, DeleteSnapshot, GetRuntime, Install
  <2> QED BY <2>1 DEF TypeOK, UpTypeOK
<1>6. DOMAIN snaps' = SnapId
  BY DEF TypeOK, UpTypeOK, TakeSnapshot, DeleteSnapshot, GetRuntime, Create, Delete
<1>7. UpTypeOK'  BY <1>2, <1>3, <1>5, <1>6 DEF TypeOK, UpTypeOK
<1>8. PlansAge /\ StOK' /\ PlansOK'  BY <1>3, SameService
<1>9. JobInv' /\ JobOK'
  <2>1. CASE \E err \in {"abort", "plain", "uncertain"} : Throw(err)
    BY <1>1, <1>2, <1>3, <2>1, Throws DEF Sets
  <2>2. CASE Go("reinit") \/ Go("settle")
    <3>1. /\ Kept /\ job'.pc \in {"reinit", "settle"}
          /\ job'.todo = job.todo /\ job'.down = job.down
      BY <2>2, Moves DEF TypeOK
    <3>2. JobOK'  BY <3>1, JobTypes DEF TypeOK, Pc
    <3> QED BY <1>1, <1>2, <1>3, <1>8, <3>1, <3>2, Calmly
  <2> QED BY <2>1, <2>2 DEF TakeSnapshot, DeleteSnapshot, GetRuntime, ThrowSome
<1> QED BY <1>3, <1>4, <1>7, <1>8, <1>9, Types, SameService DEF TypeOK

\* What happens beside the job: a process exits, a plan expires, a job is cancelled,
\* the initialization starts the manager.
Same == /\ Kept /\ job'.pc = job.pc /\ job'.todo = job.todo /\ job'.down = job.down
        /\ job'.err = job.err

Bystands == /\ DOMAIN job' = DOMAIN NoJob /\ job'.plan = job.plan /\ job'.cmd = job.cmd
            /\ job'.print = job.print /\ job'.was = job.was /\ job'.pc = job.pc
            /\ job'.todo = job.todo /\ job'.down = job.down /\ job'.err = job.err
            /\ job.late \subseteq job'.late /\ job'.late \subseteq {Manager}

LEMMA Beside ==
  ASSUME TypeOK, JobInv, Bystands, PlansAge, UNCHANGED <<plug, mut>>, UNCHANGED <<up, runtime>>,
         \A t \in Instance : st'[t] = "running" =>
             st[t] = "running" \/ (t = Manager /\ Manager \in job.todo \cup job'.late)
  PROVE  JobInv' /\ JobOK'
<1>1. Cmd' = Cmd  BY DEF Cmd, Bystands
<1>2. job.pc \in OfPlugins => Cmd.spaces \subseteq Space
  BY PcFacts, AtWork
<1>3. Running(Instance)' \subseteq Running(Instance) \cup ({Manager} \cap (job.todo \cup job'.late))
  BY DEF Running
<1>4. job.pc \in OfPlugins => Running(Cmd.spaces)' \subseteq Running(Cmd.spaces)
  BY <1>1, <1>2, SpaceAssumption DEF Running, Instance
<1>5. PlanIsRunning'
  <2>1. \A p \in Previewed' : plan'[p].cmd \in CommandType
    BY AgeFacts DEF Previewed, JobInv, PlanIsRunning
  <2>2. job.pc \in {"rebuild"} \cup Working => job.plan \in Plan
    BY DEF JobInv, PlanIsRunning, Idle, In, Working, OfPlugins, OfHome
  <2>3. /\ job.pc = "rebuild" => plan'[job.plan].status \in {"previewed", "stale"}
        /\ job.pc \in Working => plan'[job.plan].status = "running"
    BY <2>2, AgeFacts DEF JobInv, PlanIsRunning, In
  <2> QED BY <1>1, <2>1, <2>3 DEF JobInv, PlanIsRunning, Idle, In, Bystands
<1>6. StaysDown'
  <2>1. In("stop") => Running(Cmd.spaces)' \subseteq job.todo
    BY <1>4, PcFacts DEF JobInv, StaysDown, In
  <2>2. job.pc \in {"journal", "download", "mutate"} => Running(Cmd.spaces)' = {}
    BY <1>4, PcFacts DEF JobInv, StaysDown
  <2>3. In("stopAll") \/ up \in {"assert", "stop"} => Running(Instance)' \subseteq job.todo \cup job'.late
    BY <1>3 DEF JobInv, StaysDown, Bystands
  <2>4. In("snapshot") \/ up = "snapshot" => job.todo = {} /\ Running(Instance)' \subseteq job'.late
    BY <1>3 DEF JobInv, StaysDown, Bystands
  <2> QED BY <1>1, <2>1, <2>2, <2>3, <2>4 DEF JobInv, StaysDown, In, Bystands
<1>7. MutationIsHeld' /\ TornHasEvidence'
  BY <1>1 DEF JobInv, MutationIsHeld, TornHasEvidence, In, Bystands
<1>8. PrintHolds' /\ RestartsAll'
  BY <1>1 DEF JobInv, PrintHolds, RestartsAll, In, Bystands
<1>9. JobOK'  BY DEF TypeOK, JobOK, Bystands
<1> QED BY <1>5, <1>6, <1>7, <1>8, <1>9 DEF JobInv

LEMMA Onlooker == ASSUME TypeOK, Same PROVE Bystands
  BY DEF TypeOK, Same, Kept, Bystands

LEMMA SameJob == ASSUME TypeOK, job' = job PROVE Same
  BY DEF TypeOK, Same, Kept

\* upgrade() has stopped one more instance, or goes on to its snapshot.
LEMMA UpgradeStopPreserves ==
  ASSUME TypeOK, JobInv, UpInv, UpgradeStop PROVE TypeOK' /\ JobInv' /\ UpInv'
<1>1. /\ job.pc = "upgrade" /\ job.pc \in Working /\ up = "stop" /\ up' \in {"stop", "snapshot"}
      /\ UNCHANGED <<plug, mut, maint, locked, init, boots, faults>>
      /\ UNCHANGED <<phase, journal, live, backup, stage, runtime, installed, snaps, candidate>>
  BY PcFacts DEF UpgradeStop, In, disk
<1>2. /\ Kept /\ job'.pc = job.pc /\ job'.down = job.down
      /\ PlansAge /\ StOK' /\ PlansOK' /\ job'.todo \subseteq Instance
      /\ Running(Instance)' \subseteq job'.todo \cup job'.late
      /\ up' = "snapshot" => job'.todo = {} /\ Running(Instance)' \subseteq job'.late
  <2>1. Running(Instance) \subseteq job.todo \cup job.late /\ job.todo \subseteq Instance
    BY <1>1 DEF JobInv, StaysDown, TypeOK
  <2>2. CASE job.todo = {} /\ up' = "snapshot" /\ UNCHANGED <<st, plan, job>>
    <3>1. Same  BY <2>2, SameJob
    <3> QED BY <1>1, <2>1, <2>2, <3>1, SameService DEF Same, Running
  <2>3. ASSUME NEW s \in job.todo, Set(s, "stopped"), GoWith("upgrade", job.todo \ {s}), UNCHANGED up
        PROVE  /\ Kept /\ job'.pc = job.pc /\ job'.down = job.down
               /\ PlansAge /\ StOK' /\ PlansOK' /\ job'.todo \subseteq Instance
               /\ Running(Instance)' \subseteq job'.todo \cup job'.late
               /\ up' = "snapshot" => job'.todo = {} /\ Running(Instance)' \subseteq job'.late
    <3>1. /\ Kept /\ job'.pc = "upgrade" /\ job'.todo = job.todo \ {s} /\ job'.down = job.down
      BY <2>3, Moves DEF TypeOK
    <3>2. s \in Instance  BY <2>1
    <3>3. /\ PlansAge /\ StOK' /\ PlansOK'
          /\ st'[s] = "stopped" /\ \A t \in Instance \ {s} : st'[t] = st[t]
      BY <2>3, <3>2, SetFacts, AgeFacts
    <3>4. Running(Instance)' \subseteq Running(Instance) \ {s}  BY <3>3 DEF Running
    <3>5. Running(Instance)' \subseteq job'.todo \cup job'.late
      BY <2>1, <3>1, <3>4 DEF Kept
    <3> QED BY <1>1, <2>1, <2>3, <3>1, <3>3, <3>5
  <2> QED BY <2>2, <2>3 DEF UpgradeStop
<1>3. Cmd' = Cmd  BY <1>2 DEF Cmd, Kept
<1>4. UpTypeOK'  BY <1>1 DEF TypeOK, UpTypeOK, Begun
<1>5. UpInv'
  <2>1. Matched' = Matched /\ Evidence' = Evidence /\ \A id : Taken(id)' = Taken(id)
    BY <1>1 DEF Matched, Evidence, Taken, Published
  <2> QED BY <1>1, <2>1
      DEF UpInv, UpgradeIsInOrder, ProfilesAreInPlace, MixedHasEvidence, ProfilesNeverLost
<1>6. PlanIsRunning'  BY <1>1, <1>2, AtWork, WorksOn, PcFacts
<1>7. StaysDown'  BY <1>1, <1>2 DEF StaysDown, In
<1>8. MutationIsHeld' /\ TornHasEvidence'
  BY <1>1, <1>2 DEF JobInv, MutationIsHeld, TornHasEvidence, In
<1>9. PrintHolds' /\ RestartsAll'
  BY <1>1, <1>2 DEF JobInv, PrintHolds, RestartsAll, In, Begun, Kept
<1>10. JobOK'  BY <1>2, JobTypes DEF TypeOK
<1> QED BY <1>1, <1>2, <1>4, <1>5, <1>6, <1>7, <1>8, <1>9, <1>10, Types, SameService
    DEF TypeOK, JobInv

\* A step of upgrade() that replaces the runtime is its last but two; the stops come
\* after the look at the journal.
LEMMA UpgradingFacts ==
  ASSUME Upgrading
  PROVE  /\ up' # "snapshot"
         /\ up' \in {"assert", "stop"} => up = "assert"
         /\ up' \in Begun \ {"clear", "discard"} =>
              up \in Begun \ {"clear", "discard"} /\ runtime' = runtime
  BY DEF Upgrading, AssertClear, Snapshot, Prepare, InstallRuntime, MakeStage, Smoke, Commit,
         Backup, Swap, Retarget, Select, ClearJournal, DiscardStage, FailsBefore,
         FailsStaging, FailsCommitting, Reap, Undo, At, FailsAt, disk, Begun

LEMMA UpgradeStepPreserves ==
  ASSUME TypeOK, JobInv, UpInv, UpgradeStep PROVE TypeOK' /\ JobInv' /\ UpInv'
<1>1. /\ job.pc = "upgrade" /\ job.pc \in Working /\ Upgrading
      /\ UNCHANGED <<st, plug, plan, mut, job, maint, locked, init, boots>>
  BY PcFacts DEF UpgradeStep, In, service
<1>2. UpTypeOK' /\ faults' \in 0..MaxFaults  BY <1>1, UpgradingTypes DEF TypeOK
<1>3. UpInv'  BY <1>1, UpgradingPreserves DEF TypeOK
<1>4. Same /\ Cmd' = Cmd  BY <1>1, SameJob DEF Cmd
<1>5. PlansAge /\ StOK' /\ PlansOK'  BY <1>1, SameService
<1>6. PlanIsRunning'  BY <1>1, <1>4, <1>5, AtWork, WorksOn, PcFacts DEF Same
<1>7. StaysDown'
  <2>1. UNCHANGED <<st, job>> /\ Running(Instance)' = Running(Instance)  BY <1>1 DEF Running
  <2> QED BY <1>1, <2>1, UpgradingFacts DEF JobInv, StaysDown, In
<1>8. MutationIsHeld' /\ TornHasEvidence'
  BY <1>1 DEF JobInv, MutationIsHeld, TornHasEvidence, In
<1>9. PrintHolds' /\ RestartsAll'
  BY <1>1, UpgradingFacts DEF JobInv, PrintHolds, RestartsAll, In
<1>10. JobOK'  BY <1>4, JobTypes DEF TypeOK, Same
<1> QED BY <1>1, <1>2, <1>3, <1>5, <1>6, <1>7, <1>8, <1>9, <1>10, Types, SameService
    DEF TypeOK, JobInv

LEMMA UpgradeEndsPreserves ==
  ASSUME TypeOK, JobInv, UpInv, UpgradeEnds PROVE TypeOK' /\ JobInv' /\ UpInv'
<1>1. /\ job.pc = "upgrade" /\ job.pc \in Working /\ up' = "idle"
      /\ UNCHANGED <<st, plug, plan, mut, maint, locked, init, boots, faults>>
      /\ UNCHANGED <<phase, journal, live, backup, stage, runtime, installed, snaps, candidate>>
  BY PcFacts DEF UpgradeEnds, In, disk
<1>2. UpInv'  BY <1>1, NoUpgrade
<1>3. UpTypeOK'  BY <1>1 DEF TypeOK, UpTypeOK
<1>4. Go("reinit") \/ Throw("plain") \/ Throw("uncertain")
  BY DEF UpgradeEnds, Ended
<1>5. Kept /\ job'.pc \in {"reinit", "catch"} /\ job'.todo = job.todo /\ job'.down = job.down
  BY <1>4, Moves DEF TypeOK
<1>6. JobOK'  BY <1>5, JobTypes DEF TypeOK, Pc
<1>7. PlansAge /\ StOK' /\ PlansOK'  BY <1>1, SameService
<1>8. Cmd.kind \in Home  BY <1>1, AtWork, PcFacts
<1>9. JobInv'  BY <1>1, <1>5, <1>7, <1>8, Calmly
<1> QED BY <1>1, <1>2, <1>3, <1>6, <1>7, <1>9, Types, SameService DEF TypeOK

LEMMA ReinitPreserves == ASSUME TypeOK, JobInv, Reinit PROVE TypeOK' /\ JobInv'
<1>1. job.pc = "reinit" /\ job.pc \in Working  BY PcFacts DEF Reinit, In
<1>2. up = "idle" /\ up' = "idle" /\ UpTypeOK'  BY <1>1, AtWork, SameUpgrade DEF Reinit
<1>3. Cmd.kind \in Home  BY <1>1, AtWork, PcFacts
<1>4. /\ UNCHANGED <<plug, mut, locked, init, boots>> /\ faults' \in 0..MaxFaults
      /\ maint' = FALSE \/ maint' = maint
  BY SameService DEF Reinit
<1>5. maint' \in BOOLEAN  BY <1>4 DEF TypeOK
<1>6. PlansAge /\ StOK' /\ PlansOK'
  <2>1. Manager \in Instance  BY DEF Instance
  <2>2. Sets  BY <2>1 DEF Reinit, Sets
  <2> QED BY <2>2, SetsFacts
<1>7. JobInv' /\ JobOK'
  <2>1. CASE ThrowSome
    <3>1. Sets  BY DEF Reinit, Sets, Instance
    <3> QED BY <1>1, <1>2, <1>4, <2>1, <3>1, Throws DEF ThrowSome
  <2>2. CASE Go("settle")
    <3>1. Kept /\ job'.pc = "settle" /\ job'.todo = job.todo /\ job'.down = job.down
      BY <2>2, Moves DEF TypeOK
    <3>2. JobOK'  BY <3>1, JobTypes DEF TypeOK, Pc
    <3> QED BY <1>1, <1>2, <1>3, <1>4, <1>6, <3>1, <3>2, Calmly
  <2> QED BY <2>1, <2>2 DEF Reinit
<1> QED BY <1>2, <1>4, <1>5, <1>6, <1>7, Types, SameService DEF TypeOK

-----------------------------------------------------------------------------
(* The end of a job, and its beginning.                                      *)

LEMMA EndPreserves == ASSUME TypeOK, JobInv, Settle \/ Catch PROVE TypeOK' /\ JobInv'
<1>1. job.pc \in {"settle", "catch"} /\ job.pc \in Working  BY PcFacts DEF Settle, Catch, In
<1>2. up = "idle" /\ up' = "idle" /\ UpTypeOK'  BY <1>1, AtWork, SameUpgrade DEF Settle, Catch
<1>3. UNCHANGED <<st, plug, mut, locked, init, boots>> /\ faults' \in 0..MaxFaults
  BY SameService DEF Settle, Catch
<1>4. maint' \in BOOLEAN
  <2>1. maint' = maint \/ maint' = KeepsMaintenance  BY DEF Settle, Catch
  <2>2. KeepsMaintenance \in BOOLEAN
    <3>1. KeepsMaintenance = TRUE \/ KeepsMaintenance = FALSE
      BY DEF KeepsMaintenance, TypeOK
    <3> QED BY <3>1
  <2> QED BY <2>1, <2>2 DEF TypeOK
<1>5. job.plan \in Plan  BY <1>1, AtWork
<1>6. ASSUME NEW status \in {"running", "succeeded", "failed", "cancelled"},
             Mark(job.plan, status), job' = NoJob
      PROVE  TypeOK' /\ JobInv'
  <2>1. /\ DOMAIN plan' = Plan /\ plan'[job.plan].status = status
        /\ \A q \in Plan \ {job.plan} : plan'[q] = plan[q]
    BY <1>5, <1>6, MarkFacts
  <2>2. PlansOK' /\ \A p \in Plan : plan'[p].status = "previewed" => plan'[p] = plan[p]
    BY <1>5, <2>1 DEF TypeOK, PlansOK, Statuses
  <2>3. JobInv' /\ JobOK'  BY <1>2, <1>3, <1>6, <2>1, <2>2, Over
  <2> QED BY <1>2, <1>3, <1>4, <2>2, <2>3, Types, SameService DEF TypeOK
<1>7. CASE Throw("uncertain") /\ UNCHANGED plan /\ maint' = maint
  <2>1. JobInv' /\ JobOK' /\ StOK' /\ PlansOK'  BY <1>1, <1>2, <1>3, <1>7, Throws DEF Sets
  <2> QED BY <1>2, <1>3, <1>4, <2>1, Types, SameService DEF TypeOK
<1>8. CASE Settle  BY <1>6, <1>7, <1>8 DEF Settle
<1>9. CASE Catch
  <2>1. job' = NoJob /\ \E status \in {"running", "succeeded", "failed", "cancelled"} :
                          Mark(job.plan, status)
    <3>1. CASE Mark(job.plan, "running")  BY <1>9, <3>1 DEF Catch
    <3>2. CASE Mark(job.plan, CASE job.err = "uncertain"           -> "running"
                                [] job.err = "abort" /\ ~job.firm -> "cancelled"
                                [] OTHER                          -> "failed")
      <4>1. CASE job.err = "uncertain"  BY <1>9, <3>2, <4>1 DEF Catch
      <4>2. CASE job.err = "abort" /\ ~job.firm
        BY <1>9, <3>2, <4>2 DEF Catch
      <4>3. CASE ~(job.err = "uncertain") /\ ~(job.err = "abort" /\ ~job.firm)
        BY <1>9, <3>2, <4>3 DEF Catch
      <4> QED BY <4>1, <4>2, <4>3
    <3> QED BY <1>9, <3>1, <3>2 DEF Catch
  <2> QED BY <1>6, <2>1
<1> QED BY <1>8, <1>9

LEMMA CheckPreserves == ASSUME TypeOK, JobInv, Check PROVE TypeOK' /\ JobInv'
<1>1. /\ job.pc = "check" /\ job.plan \in Plan /\ job.down = {} /\ up = "idle"
      /\ UNCHANGED <<st, plug, plan, mut, maint, locked, init, boots, faults>>
  BY DEF Check, In, JobInv, PlanIsRunning, Idle
<1>2. up' = "idle" /\ UpTypeOK'  BY <1>1, SameUpgrade DEF Check
<1>3. StOK' /\ PlansOK'  BY <1>1, SameService
<1>4. JobInv' /\ JobOK'
  <2>1. CASE job' = NoJob
    BY <1>1, <1>2, <2>1, Over DEF TypeOK
  <2>2. CASE job.plan \in Previewed
    <3>1. job' = [job EXCEPT !.pc = "rebuild", !.cmd = plan[job.plan].cmd,
                             !.print = plan[job.plan].print]
      BY <2>2 DEF Check
    <3>2. /\ DOMAIN job' = DOMAIN NoJob /\ job'.pc = "rebuild" /\ job'.cmd = plan[job.plan].cmd
          /\ job'.plan = job.plan /\ job'.was = job.was /\ job'.todo = job.todo
          /\ job'.down = job.down /\ job'.late = job.late
      BY <3>1, NoJobShape DEF TypeOK
    <3>3. JobOK'  BY <3>2 DEF TypeOK, JobOK, Pc
    <3>4. PlanIsRunning'
      <4>1. job'.cmd \in CommandType /\ plan[job.plan].status = "previewed"
        BY <2>2, <3>2 DEF JobInv, PlanIsRunning, Previewed
      <4>2. \A p \in Previewed' : plan'[p].cmd \in CommandType
        BY <1>1 DEF JobInv, PlanIsRunning, Previewed
      <4> QED BY <1>1, <1>2, <3>2, <4>1, <4>2
          DEF PlanIsRunning, Idle, In, Cmd, Working, OfPlugins, OfHome
    <3> QED BY <1>1, <1>2, <3>2, <3>3, <3>4, AtRest DEF JobInv
  <2> QED BY <2>1, <2>2 DEF Check
<1> QED BY <1>1, <1>2, <1>3, <1>4, Types, SameService DEF TypeOK

\* The plan that was built again is the one of the preview, and is stored as
\* running before anything is stopped.
LEMMA RebuildPreserves ==
  ASSUME TypeOK, JobInv, UpInv, Rebuild PROVE TypeOK' /\ JobInv' /\ UpInv'
<1>1. /\ job.pc = "rebuild" /\ job.plan \in Plan /\ job.down = {} /\ up = "idle"
      /\ Cmd \in CommandType /\ job.cmd = Cmd
      /\ UNCHANGED <<st, plug, mut, locked, init, boots>>
      /\ UNCHANGED <<phase, journal, live, backup, stage, runtime, installed, snaps, candidate>>
      /\ faults' \in 0..MaxFaults
  BY SameService DEF Rebuild, In, JobInv, PlanIsRunning, Idle, disk, Cmd
<1>2. up' \in {"idle", "assert"}  BY <1>1 DEF Rebuild
<1>3. UpInv' /\ UpTypeOK'
  BY <1>1, <1>2, NoUpgrade DEF TypeOK, UpTypeOK, Begun
<1>4. CASE job' = NoJob /\ UNCHANGED <<plan, maint, up>>
  <2>1. StOK' /\ PlansOK'  BY <1>1, <1>4, SameService
  <2>2. JobInv' /\ JobOK'  BY <1>1, <1>4, Over DEF TypeOK
  <2> QED BY <1>1, <1>3, <1>4, <2>1, <2>2, Types, SameService DEF TypeOK
<1>5. CASE /\ Unchanged /\ Mark(job.plan, "running")
           /\ job' = [job EXCEPT !.pc = FirstStep(Cmd), !.todo = FirstTodo(Cmd),
                                 !.was = Running(Cmd.spaces), !.late = {},
                                 !.firm = Cmd.kind \in Home]
           /\ maint' = (maint \/ Cmd.kind \in {"snapshot", "upgrade"})
           /\ up' = IF Cmd.kind = "upgrade" THEN "assert" ELSE up
  <2>1. /\ DOMAIN job' = DOMAIN NoJob /\ job'.plan = job.plan /\ job'.cmd = job.cmd
        /\ job'.print = job.print /\ job'.pc = FirstStep(Cmd) /\ job'.down = {}
        /\ job'.todo = FirstTodo(Cmd) /\ job'.was = Running(Cmd.spaces) /\ job'.late = {}
    BY <1>1, <1>5, NoJobShape DEF TypeOK
  <2>2. /\ Cmd.spaces \subseteq Instance /\ Cmd.kind \in Kinds
        /\ Cmd.kind \notin Home => Cmd.kind \in {"install", "remove"} /\ Cmd.spaces \subseteq Space
        /\ Cmd.kind \in Home => Cmd.spaces = Instance
    BY <1>1, CommandFacts
  <2>3. /\ DOMAIN plan' = Plan /\ plan'[job.plan].status = "running"
        /\ \A q \in Plan \ {job.plan} : plan'[q] = plan[q]
    BY <1>1, <1>5, MarkFacts
  <2>4. PlansOK' /\ StOK'  BY <1>1, <2>3, SameService DEF TypeOK, PlansOK, Statuses
  <2>5. Cmd' = Cmd /\ \A ss : Running(ss)' = Running(ss)
    BY <1>1, <2>1 DEF Cmd, Running
  <2>6. \/ /\ Cmd.kind \notin Home
           /\ job'.pc = IF Running(Cmd.spaces) = {} THEN "journal" ELSE "stop"
        \/ /\ Cmd.kind = "snapshot"
           /\ job'.pc = IF Owned = {} THEN "snapshot" ELSE "stopAll"
        \/ Cmd.kind \in {"delete", "runtime", "upgrade"} /\ job'.pc = Cmd.kind
    <3>1. CASE Cmd.kind \in {"install", "remove"}
      BY <2>1, <3>1 DEF FirstStep, Home
    <3>2. CASE Cmd.kind = "snapshot"  BY <2>1, <3>2 DEF FirstStep
    <3>3. CASE Cmd.kind \in {"delete", "runtime", "upgrade"}
      BY <2>1, <3>3 DEF FirstStep
    <3> QED BY <2>2, <3>1, <3>2, <3>3 DEF Kinds, Home
  <2>7. /\ job'.pc \in OfPlugins \cup OfHome
        /\ job'.pc \in OfPlugins => Cmd.kind \notin Home
        /\ job'.pc \in OfHome => Cmd.kind \in Home
    BY <2>6 DEF OfPlugins, OfHome, Home
  <2>8. up' # "idle" => job'.pc = "upgrade"
    BY <1>1, <1>5, <2>6 DEF Home
  <2>9. JobOK'
    <3>1. Running(Cmd.spaces) \subseteq Instance /\ FirstTodo(Cmd) \subseteq Instance
      BY <2>2 DEF Running, Owned, FirstTodo
    <3> QED BY <1>1, <2>1, <2>7, <3>1, PcFacts DEF JobOK
  <2>10. PlanIsRunning'
    <3>1. \A p \in Previewed' : plan'[p].cmd \in CommandType
      BY <1>1, <2>3 DEF JobInv, PlanIsRunning, Previewed
    <3>2. job'.pc \notin {"none", "check", "rebuild"}  BY <2>7, PcFacts
    <3> QED BY <1>1, <2>1, <2>3, <2>5, <2>7, <2>8, <3>1, <3>2 DEF PlanIsRunning, Idle, In
  <2>11. StaysDown'
    <3>1. up' # "snapshot" /\ up' \in {"idle", "assert"}  BY <1>2
    <3>2. Running(Instance) \subseteq Owned  BY DEF Running, Owned
    <3>3. job'.pc = "stopAll" \/ up' = "assert" => job'.todo = Owned
      BY <1>1, <1>5, <2>1, <2>6 DEF FirstTodo, Home
    <3>4. job'.pc \in {"journal", "download", "mutate"} => Running(Cmd.spaces) = {}
      BY <2>6
    <3>5. job'.pc = "snapshot" => job'.todo = {} /\ Running(Instance) = {}
      BY <2>1, <2>6, <3>2 DEF FirstTodo, Home
    <3>6. job'.pc \in {"stop", "restart"} => job'.todo = job'.was
      BY <2>1, <2>6 DEF FirstTodo, Home
    <3>7. job'.pc = "stop" => job'.todo = Running(Cmd.spaces)
      BY <2>1, <3>6
    <3> QED BY <2>5, <3>1, <3>2, <3>3, <3>4, <3>5, <3>6, <3>7 DEF StaysDown, In
  <2>12. MutationIsHeld' /\ TornHasEvidence'
    <3>1. job'.pc \notin {"download", "mutate", "verify", "mutFail"}  BY <2>6
    <3> QED BY <1>1, <3>1 DEF JobInv, MutationIsHeld, TornHasEvidence, In
  <2>13. PrintHolds'
    <3>1. Fingerprint(Cmd) = job.print  BY <1>1, <1>5 DEF Unchanged
    <3>2. job.print.runtime = runtime /\
          job.print.spaces = [s \in Cmd.spaces |-> <<st[s], IF s \in Space THEN plug[s] ELSE "with">>]
      BY <3>1 DEF Fingerprint
    <3>3. Cmd.spaces \subseteq Space => \A s \in Cmd.spaces : plug[s] = job.print.spaces[s][2]
      BY <3>2
    <3>4. job'.pc \in {"stop", "journal"} => Cmd.spaces \subseteq Space
      BY <2>2, <2>6 DEF Home
    <3>5. job'.pc \notin {"download", "mutate"}  BY <2>6
    <3> QED BY <1>1, <2>1, <2>5, <3>2, <3>3, <3>4, <3>5 DEF PrintHolds, In
  <2>14. RestartsAll'  BY <2>1, <2>6 DEF RestartsAll, In
  <2>15. maint' \in BOOLEAN
    <3>1. (maint \/ Cmd.kind \in {"snapshot", "upgrade"}) \in BOOLEAN  OBVIOUS
    <3> QED BY <1>5, <3>1
  <2> QED BY <1>1, <1>3, <2>4, <2>9, <2>10, <2>11, <2>12, <2>13, <2>14, <2>15,
             Types, SameService DEF TypeOK, JobInv
<1> QED BY <1>4, <1>5 DEF Rebuild

\* A preview is stored, or a job of plan.execute is taken from the queue.
LEMMA PreviewPreserves ==
  ASSUME TypeOK, JobInv, NEW p \in Plan,
         \/ \E cmd \in Commands : Preview(p, cmd)
         \/ Execute(p)
  PROVE  TypeOK' /\ JobInv'
<1>1. /\ job.pc = "none" /\ up = "idle" /\ up' = "idle" /\ UpTypeOK'
      /\ UNCHANGED <<st, plug, mut, maint, locked, init, boots, faults>>
  BY SameUpgrade DEF Preview, Execute, Idle, JobInv, PlanIsRunning, In
<1>2. \A q \in Previewed : plan[q].cmd \in CommandType  BY DEF JobInv, PlanIsRunning
<1>3. ASSUME NEW cmd \in Commands, Preview(p, cmd) PROVE TypeOK' /\ JobInv'
  <2>1. /\ DOMAIN plan' = Plan /\ plan'[p].status = "previewed" /\ plan'[p].cmd = cmd
        /\ \A q \in Plan \ {p} : plan'[q] = plan[q]
        /\ job' = job
    BY <1>3 DEF Preview, TypeOK
  <2>2. cmd \in CommandType
    BY DEF Commands, Command, CommandType, Published, Home
  <2>3. StOK' /\ PlansOK'  BY <1>1, <2>1, SameService DEF TypeOK, PlansOK, Statuses
  <2>4. \A q \in Previewed' : plan'[q].cmd \in CommandType
    BY <1>2, <2>1, <2>2 DEF Previewed
  <2>5. PlanIsRunning'
    BY <1>1, <2>1, <2>4 DEF PlanIsRunning, Idle, In, Working, OfPlugins, OfHome
  <2>6. JobOK'  BY <2>1 DEF TypeOK, JobOK
  <2> QED BY <1>1, <2>1, <2>3, <2>5, <2>6, AtRest, Types, SameService DEF TypeOK, JobInv
<1>4. CASE Execute(p)
  <2>1. /\ DOMAIN job' = DOMAIN NoJob /\ job'.plan = p /\ job'.pc = "check" /\ job'.down = {}
        /\ job'.todo = {} /\ job'.was = {} /\ job'.late = {}
    BY <1>4, NoJobShape DEF Execute, NoJob
  <2>2. UNCHANGED plan /\ StOK' /\ PlansOK'  BY <1>1, <1>4, SameService DEF Execute
  <2>3. JobOK'  BY <2>1 DEF JobOK, Pc
  <2>4. PlanIsRunning'
    BY <1>1, <1>2, <2>1, <2>2 DEF PlanIsRunning, Previewed, Idle, In, Working, OfPlugins, OfHome
  <2> QED BY <1>1, <2>1, <2>2, <2>3, <2>4, AtRest, Types, SameService DEF TypeOK, JobInv
<1> QED BY <1>3, <1>4

\* What happens beside the job.
LEMMA BesidePreserves ==
  ASSUME TypeOK, JobInv,
         \/ Cancel \/ ManagerStarts
         \/ \E p \in Plan : Expire(p)
         \/ \E s \in Instance : Exits(s)
  PROVE  TypeOK' /\ JobInv'
<1>1. /\ UNCHANGED upgrade /\ UNCHANGED <<plug, mut, maint, locked, boots>>
      /\ faults' \in 0..MaxFaults /\ init' \in {init, FALSE}
  BY SameService DEF Cancel, Expire, Exits, ManagerStarts
<1>2. UpTypeOK' /\ UNCHANGED <<up, runtime>>  BY <1>1, SameUpgrade DEF upgrade, disk
<1>3. ASSUME Same, PlansAge, StOK', \A t \in Instance : st'[t] = "running" => st[t] = "running"
      PROVE  TypeOK' /\ JobInv'
  <2>1. JobInv' /\ JobOK' /\ PlansOK'  BY <1>1, <1>2, <1>3, Onlooker, Beside, AgeFacts
  <2>2. init' \in BOOLEAN  BY <1>1 DEF TypeOK
  <2> QED BY <1>1, <1>2, <1>3, <2>1, <2>2, Types, SameService DEF TypeOK
<1>4. CASE Cancel
  <2>1. job' = [job EXCEPT !.aborted = TRUE] /\ UNCHANGED <<st, plan>>  BY <1>4 DEF Cancel
  <2>2. Same  BY <2>1, NoJobShape DEF TypeOK, Same, Kept
  <2> QED BY <1>3, <2>1, <2>2, SameService
<1>5. ASSUME NEW p \in Plan, Expire(p) PROVE TypeOK' /\ JobInv'
  <2>1. Mark(p, "stale") /\ plan[p].status = "previewed" /\ UNCHANGED <<st, job>>
    BY <1>5 DEF Expire, Previewed
  <2>2. PlansAge
    <3>1. /\ DOMAIN plan' = Plan /\ plan'[p].status = "stale"
          /\ \A q \in Plan \ {p} : plan'[q] = plan[q]
      BY <2>1, MarkFacts
    <3> QED BY <2>1, <3>1 DEF PlansAge, TypeOK
  <2> QED BY <1>3, <2>1, <2>2, SameJob, SameService
<1>6. ASSUME NEW s \in Instance, Exits(s) PROVE TypeOK' /\ JobInv'
  <2>1. Set(s, "stopped") /\ job' = job  BY <1>6 DEF Exits
  <2> QED BY <1>3, <2>1, SetFacts, SameJob
<1>7. CASE ManagerStarts
  <2>1. CASE UNCHANGED <<st, plan, job>>
    BY <1>3, <2>1, SameJob, SameService
  <2>2. CASE Set(Manager, "running") /\ Idle /\ job' = job
    <3>1. Manager \in Instance  BY DEF Instance
    <3>2. PlansAge /\ StOK' /\ PlansOK'  BY <2>2, <3>1, SetFacts, AgeFacts
    <3>3. \A p \in Previewed' : plan'[p].cmd \in CommandType
      BY <3>2, AgeFacts DEF Previewed, JobInv, PlanIsRunning
    <3>4. job.pc = "none" /\ up = "idle" /\ up' = "idle"
      BY <1>2, <2>2 DEF Idle, JobInv, PlanIsRunning, In
    <3>5. PlanIsRunning'
      BY <2>2, <3>3, <3>4 DEF PlanIsRunning, Idle, In, Working, OfPlugins, OfHome
    <3>6. JobOK'  BY <2>2 DEF TypeOK, JobOK
    <3>7. JobInv'  BY <1>1, <2>2, <3>4, <3>5, AtRest DEF JobInv
    <3>8. init' \in BOOLEAN  BY <1>1 DEF TypeOK
    <3> QED BY <1>1, <1>2, <3>2, <3>6, <3>7, <3>8, Types, SameService DEF TypeOK
  <2>3. CASE Set(Manager, "running")
             /\ job' = [job EXCEPT !.late = @ \cup ({Manager} \ job.todo)]
    <3>1. Manager \in Instance  BY DEF Instance
    <3>2. /\ PlansAge /\ StOK' /\ PlansOK'
          /\ \A t \in Instance \ {Manager} : st'[t] = st[t]
      BY <2>3, <3>1, SetFacts, AgeFacts
    <3>3. /\ DOMAIN job' = DOMAIN NoJob /\ job'.plan = job.plan /\ job'.cmd = job.cmd
          /\ job'.print = job.print /\ job'.was = job.was /\ job'.pc = job.pc
          /\ job'.todo = job.todo /\ job'.down = job.down /\ job'.err = job.err
          /\ job'.late = job.late \cup ({Manager} \ job.todo)
      BY <2>3, NoJobShape DEF TypeOK
    <3>4. JobInv' /\ JobOK'
      <4>1. Manager \in job.todo \cup job'.late  BY <3>3
      <4>2. \A t \in Instance : st'[t] = "running" =>
               st[t] = "running" \/ (t = Manager /\ Manager \in job.todo \cup job'.late)
        BY <3>2, <4>1
      <4>3. job.late \subseteq job'.late /\ job'.late \subseteq {Manager}
        BY <3>3 DEF TypeOK
      <4>4. Bystands  BY <3>3, <4>3 DEF Bystands
      <4> QED BY <1>1, <1>2, <3>2, <4>2, <4>4, Beside
    <3>5. init' \in BOOLEAN  BY <1>1 DEF TypeOK
    <3> QED BY <1>1, <1>2, <3>2, <3>4, <3>5, Types, SameService DEF TypeOK
  <2> QED BY <1>7, <2>1, <2>2, <2>3 DEF ManagerStarts
<1> QED BY <1>4, <1>5, <1>6, <1>7

LEMMA StartSpacePreserves ==
  ASSUME TypeOK, JobInv, NEW s \in Instance, StartSpace(s) PROVE TypeOK' /\ JobInv'
<1>1. /\ job.pc = "none" /\ job' = job /\ up = "idle" /\ up' = "idle" /\ UpTypeOK'
      /\ UNCHANGED <<plug, mut, maint, locked, init, boots, faults>> /\ Set(s, "running")
  BY SameUpgrade DEF StartSpace, Idle, JobInv, PlanIsRunning, In
<1>2. PlansAge /\ StOK' /\ PlansOK'  BY <1>1, SetFacts, AgeFacts
<1>3. \A p \in Previewed' : plan'[p].cmd \in CommandType
  BY <1>2, AgeFacts DEF Previewed, JobInv, PlanIsRunning
<1>4. PlanIsRunning'
  BY <1>1, <1>3 DEF PlanIsRunning, Idle, In, Working, OfPlugins, OfHome
<1>5. JobOK'  BY <1>1 DEF TypeOK, JobOK
<1> QED BY <1>1, <1>2, <1>4, <1>5, AtRest, Types, SameService DEF TypeOK, JobInv

\* The Supervisor dies and is started again: what it knew is gone, the files stay.
LEMMA BootPreserves ==
  ASSUME TypeOK, JobInv, UpInv, Boot PROVE TypeOK' /\ JobInv' /\ UpInv'
<1>1. UpTypeOK' /\ UpInv' /\ up' = "idle"
  BY UpgradeDying DEF Boot, TypeOK
<1>2. /\ job' = NoJob /\ plan' = Touched /\ UNCHANGED <<plug, mut, faults>>
      /\ maint' = FALSE /\ boots' \in 0..MaxBoots
  BY PlanAssumption DEF Boot, TypeOK
<1>3. maint' \in BOOLEAN /\ locked' \in BOOLEAN /\ init' \in BOOLEAN
  <2>1. (locked \/ ~Idle) \in BOOLEAN  OBVIOUS
  <2>2. \E left : init' = (left = {} /\ ~candidate' /\ ~locked' /\ mut.plan = NoPlan /\ ~Evidence')
    BY DEF Boot
  <2>3. init' \in BOOLEAN  BY <2>2
  <2> QED BY <1>2, <2>1, <2>3 DEF Boot
<1>4. StOK'
  <2>1. PICK left : st' = [s \in Instance |-> IF s \in left THEN "left" ELSE "stopped"]
    BY DEF Boot
  <2> QED BY <2>1 DEF StOK
<1>5. PlansAge  BY <1>2 DEF PlansAge, Touched, Previewed, TypeOK
<1>6. PlansOK' /\ DOMAIN plan' = Plan
      /\ \A p \in Plan : plan'[p].status = "previewed" => plan'[p] = plan[p]
  BY <1>5, AgeFacts DEF PlansAge, TypeOK
<1>7. JobInv' /\ JobOK'  BY <1>1, <1>2, <1>6, Over
<1> QED BY <1>1, <1>2, <1>3, <1>4, <1>6, <1>7, Types, SameService DEF TypeOK

-----------------------------------------------------------------------------
(* The theorems.                                                             *)

LEMMA Split == IInv <=> TypeOK /\ JobInv /\ UpInv
  BY DEF IInv, Inv, JobInv, UpInv

\* The steps that leave the upgrade alone.
LEMMA UpgradeUntouched == ASSUME UpInv, UNCHANGED upgrade PROVE UpInv'
  BY UpgradeKept DEF upgrade, disk

LEMMA StepPreserves ==
  ASSUME TypeOK, JobInv, UpInv, Next
  PROVE  TypeOK' /\ JobInv' /\ UpInv'
<1>1. CASE Check \/ Stop \/ WriteMutation \/ Download \/ Mutate \/ Verify \/ MutationFails
           \/ Restart \/ StopAll \/ Reinit \/ Settle \/ Catch
  <2>1. UNCHANGED upgrade
    BY <1>1 DEF Check, Stop, WriteMutation, Download, Mutate, Verify, MutationFails, Restart,
                StopAll, Reinit, Settle, Catch
  <2> QED BY <1>1, <2>1, UpgradeUntouched, CheckPreserves, StopPreserves, WriteMutationPreserves,
             DownloadPreserves, MutatePreserves, VerifyPreserves, MutationFailsPreserves,
             RestartPreserves, StopAllPreserves, ReinitPreserves, EndPreserves
<1>2. CASE Rebuild \/ TakeSnapshot \/ DeleteSnapshot \/ GetRuntime \/ UpgradeStop \/ UpgradeStep
           \/ UpgradeEnds \/ Boot
  BY <1>2, RebuildPreserves, StorePreserves, UpgradeStopPreserves, UpgradeStepPreserves,
     UpgradeEndsPreserves, BootPreserves
<1>3. CASE \/ \E p \in Plan, cmd \in Commands : Preview(p, cmd)
           \/ \E p \in Plan : Expire(p) \/ Execute(p)
           \/ Cancel \/ ManagerStarts
           \/ \E s \in Instance : Exits(s) \/ StartSpace(s)
  <2>1. UNCHANGED upgrade
    BY <1>3 DEF Preview, Expire, Execute, Cancel, ManagerStarts, Exits, StartSpace
  <2> QED BY <1>3, <2>1, UpgradeUntouched, PreviewPreserves, BesidePreserves, StartSpacePreserves
<1> QED BY <1>1, <1>2, <1>3 DEF Next, Work

\* The types, what the properties promise and what they rest on hold in every state
\* that the maintenance plans, their failures and restarts can reach.
THEOREM Invariance == Spec => []IInv
<1>1. Init => IInv
  <2> SUFFICES ASSUME Init PROVE TypeOK /\ JobInv /\ UpInv  BY Split
  <2>1. UpTypeOK /\ UpInv
    <3>1. /\ up = "idle" /\ phase = "none" /\ journal = NoJournal /\ live = "old"
          /\ backup = FALSE /\ stage = "none" /\ runtime = "old" /\ installed = FALSE
          /\ DOMAIN snaps = SnapId /\ candidate = FALSE
      BY DEF Init, UpInit
    <3>2. backup \in BOOLEAN /\ installed \in BOOLEAN /\ candidate \in BOOLEAN  BY <3>1
    <3>3. UpTypeOK  BY <3>1, <3>2 DEF UpTypeOK, NoJournal
    <3> QED BY <3>1, <3>3
        DEF UpInv, UpgradeIsInOrder, ProfilesAreInPlace, MixedHasEvidence, ProfilesNeverLost,
            Matched
  <2>2. /\ job.pc = "none" /\ job.down = {} /\ job.was = {} /\ job.todo = {} /\ job.late = {}
        /\ job.plan = NoPlan /\ DOMAIN job = DOMAIN NoJob
    BY DEF Init, NoJob
  <2>3. maint \in BOOLEAN /\ locked \in BOOLEAN /\ init \in BOOLEAN  BY DEF Init
  <2>4. mut.plan = NoPlan /\ DOMAIN mut.before = {}  BY DEF Init, NoMutation
  <2>5. \A p \in Plan : plan[p].status = "blank"  BY DEF Init, Blank
  <2>6. TypeOK
    BY <2>1, <2>2, <2>3, <2>4, <2>5, SnapAssumption, PlanAssumption
    DEF Init, TypeOK, Pc, Statuses
  <2>7. Previewed = {}  BY <2>5 DEF Previewed
  <2>8. up = "idle"  BY DEF Init, UpInit
  <2>9. TornHasEvidence  BY DEF Init, TornHasEvidence
  <2>10. PlanIsRunning /\ StaysDown /\ PrintHolds /\ RestartsAll
    BY <2>2, <2>7, <2>8 DEF PlanIsRunning, StaysDown, PrintHolds, RestartsAll, Idle, In, Begun,
       Working, OfPlugins, OfHome
  <2>11. MutationIsHeld  BY <2>2, <2>4 DEF MutationIsHeld, In
  <2> QED BY <2>1, <2>6, <2>9, <2>10, <2>11 DEF JobInv
<1>2. IInv /\ [Next]_vars => IInv'
  <2> SUFFICES ASSUME TypeOK, JobInv, UpInv, [Next]_vars PROVE TypeOK' /\ JobInv' /\ UpInv'
    BY Split, PTL
  <2>1. CASE Next  BY <2>1, StepPreserves
  <2>2. CASE UNCHANGED vars
    <3>1. /\ UNCHANGED <<st, plug, plan, mut, job, maint, locked, init, boots, faults>>
          /\ UNCHANGED upgrade
      BY <2>2 DEF vars, service
    <3>2. UpInv' /\ UpTypeOK' /\ UNCHANGED <<up, runtime>>
      BY <3>1, UpgradeUntouched, SameUpgrade DEF upgrade, disk
    <3>3. JobInv' /\ JobOK' /\ StOK' /\ PlansOK'
      BY <3>1, <3>2, SameJob, Onlooker, Beside, SameService
    <3> QED BY <3>1, <3>2, <3>3, Types, SameService DEF TypeOK
  <2> QED BY <2>1, <2>2
<1> QED BY <1>1, <1>2, PTL DEF Spec

\* A torn profile, and profiles that do not fit the runtime, are reported by a
\* journal on the disk, and the old profiles are never lost: whatever failed,
\* died or was cancelled on the way there.
THEOREM Safety == Spec => []Inv
<1>1. IInv => Inv  BY DEF IInv
<1> QED BY <1>1, Invariance, PTL

-----------------------------------------------------------------------------
(* What a step may never do.                                                 *)

\* Each part of the state is changed by the steps that are there for it.
LEMMA WhoChanges ==
  ASSUME TypeOK, Next
  PROVE  /\ plug' = plug \/ Mutate
         /\ mut' = mut \/ WriteMutation \/ Verify \/ MutationFails
         /\ UNCHANGED <<live, runtime>> \/ UpgradeStep
         /\ snaps' = snaps \/ UpgradeStep \/ TakeSnapshot \/ DeleteSnapshot
         /\ journal' = journal \/ UpgradeStep \/ Boot
<1>1. CASE Check \/ Stop \/ Download \/ Restart \/ StopAll \/ Reinit \/ Settle \/ Catch \/ Cancel
           \/ ManagerStarts
           \/ \E p \in Plan : Expire(p) \/ Execute(p) \/ \E cmd \in Commands : Preview(p, cmd)
  BY <1>1 DEF Check, Stop, Download, Restart, StopAll, Reinit, Settle, Catch, Cancel,
              ManagerStarts, Expire, Execute, Preview, upgrade, disk
<1>2. CASE \E s \in Instance : Exits(s) \/ StartSpace(s)
  BY <1>2 DEF Exits, StartSpace, upgrade, disk
<1>3. CASE WriteMutation \/ Verify \/ MutationFails \/ Mutate
  BY <1>3 DEF WriteMutation, Verify, MutationFails, Mutate, upgrade, disk
<1>4. CASE Rebuild \/ UpgradeStop \/ UpgradeEnds
  BY <1>4 DEF Rebuild, UpgradeStop, UpgradeEnds, disk
<1>5. CASE TakeSnapshot \/ DeleteSnapshot \/ GetRuntime
  BY <1>5 DEF TakeSnapshot, DeleteSnapshot, GetRuntime
<1>6. CASE Boot  BY <1>6 DEF Boot, UpgradeDies
<1>7. CASE UpgradeStep  BY <1>7 DEF UpgradeStep, service
<1> QED BY <1>1, <1>2, <1>3, <1>4, <1>5, <1>6, <1>7 DEF Next, Work

\* Which steps change what is stored of a plan that is no preview.
LEMMA WhoMarks ==
  ASSUME TypeOK, Next
  PROVE  \/ PlansAge
         \/ Rebuild \/ Settle \/ Catch
         \/ \E p \in Plan, cmd \in Commands : Preview(p, cmd)
<1>1. ASSUME UNCHANGED plan PROVE PlansAge  BY <1>1, SameService
<1>2. ASSUME NEW s \in Instance, NEW status \in {"running", "stopped"}, Set(s, status)
      PROVE  PlansAge
  BY <1>2, SetFacts
<1>3. CASE Stop \/ StopAll \/ Restart \/ UpgradeStop \/ Reinit
  <2>1. job.todo \subseteq Instance /\ Manager \in Instance /\ Running(Instance) \subseteq Instance
    BY DEF TypeOK, Instance, Running
  <2>2. UNCHANGED plan \/ \E s \in Instance, status \in {"running", "stopped"} : Set(s, status)
    BY <1>3, <2>1 DEF Stop, StopAll, StopNext, Restart, StartNext, UpgradeStop, Reinit
  <2> QED BY <1>1, <1>2, <2>2
<1>8. CASE ManagerStarts
  <2>1. Manager \in Instance  BY DEF Instance
  <2> QED BY <1>1, <1>2, <1>8, <2>1 DEF ManagerStarts
<1>4. CASE Check \/ WriteMutation \/ Download \/ Mutate \/ Verify \/ MutationFails
           \/ TakeSnapshot \/ DeleteSnapshot \/ GetRuntime \/ UpgradeStep \/ UpgradeEnds
           \/ Cancel \/ \E p \in Plan : Execute(p)
  <2>1. UNCHANGED plan
    BY <1>4 DEF Check, WriteMutation, Download, Mutate, Verify, MutationFails, TakeSnapshot,
                DeleteSnapshot, GetRuntime, UpgradeStep, UpgradeEnds, Cancel, Execute, service
  <2> QED BY <1>1, <2>1
<1>5. ASSUME NEW p \in Plan, Expire(p) PROVE PlansAge
  <2>1. Mark(p, "stale") /\ plan[p].status = "previewed"  BY <1>5 DEF Expire, Previewed
  <2>2. /\ DOMAIN plan' = Plan /\ plan'[p].status = "stale"
        /\ \A q \in Plan \ {p} : plan'[q] = plan[q]
    BY <2>1, MarkFacts
  <2> QED BY <2>1, <2>2 DEF PlansAge, TypeOK
<1>6. ASSUME NEW s \in Instance, Exits(s) \/ StartSpace(s) PROVE PlansAge
  BY <1>2, <1>6 DEF Exits, StartSpace
<1>7. CASE Boot  BY <1>7 DEF Boot, Touched, Previewed, PlansAge, TypeOK
<1> QED BY <1>3, <1>4, <1>5, <1>6, <1>7, <1>8 DEF Next, Work

\* A step that marks the plan of the job.
LEMMA Marked ==
  ASSUME TypeOK, JobInv, NEW status, Mark(job.plan, status), job.pc \in {"rebuild"} \cup Working
  PROVE  /\ job.plan \in Plan /\ plan'[job.plan].status = status
         /\ \A q \in Plan \ {job.plan} : plan'[q] = plan[q]
<1>1. job.plan \in Plan
  BY DEF JobInv, PlanIsRunning, Idle, In, Working, OfPlugins, OfHome
<1> QED BY <1>1, MarkFacts

LEMMA EndMarks ==
  ASSUME TypeOK, JobInv, Settle \/ Catch
  PROVE  /\ job.pc \in Working /\ plan[job.plan].status = "running"
         /\ \A p \in Plan : p # job.plan => plan'[p] = plan[p]
<1>1. job.pc \in Working  BY PcFacts DEF Settle, Catch, In
<1>2. UNCHANGED plan \/ \E status : Mark(job.plan, status)  BY DEF Settle, Catch
<1> QED BY <1>1, <1>2, AtWork, Marked

\* What a plan changes is what the person confirmed, and the plan that changes it
\* is on the disk as running; a plan begins once (449-462).
THEOREM Confirmed == Spec => ConfirmedOnce
<1> DEFINE Begins == \A p \in Plan : plan'[p].status = "running"
                       => plan[p].status \in {"previewed", "stale", "running"}
           Profiles == \A s \in Space : plug'[s] # plug[s] => plug[s] = job.print.spaces[s][2]
           Runtime == runtime' # runtime => runtime = job.print.runtime
           Recorded == <<plug, live, runtime, snaps>>' # <<plug, live, runtime, snaps>>
                         => job.plan \in Plan /\ plan[job.plan].status = "running"
           A == Begins /\ Profiles /\ Runtime /\ Recorded
<1>1. IInv /\ [Next]_vars => [A]_vars
  <2> SUFFICES ASSUME TypeOK, JobInv, UpInv, Next PROVE A  BY Split
  <2>1. Begins
    <3>1. CASE PlansAge  BY <3>1 DEF PlansAge
    <3>2. CASE Rebuild
      <4>1. UNCHANGED plan \/ Mark(job.plan, "running")  BY <3>2 DEF Rebuild
      <4>2. job.pc = "rebuild"  BY <3>2 DEF Rebuild, In
      <4>3. plan[job.plan].status \in {"previewed", "stale"}
        BY <4>2 DEF JobInv, PlanIsRunning, In
      <4> QED BY <4>1, <4>2, <4>3, Marked
    <3>3. CASE Settle \/ Catch  BY <3>3, EndMarks
    <3>4. ASSUME NEW p \in Plan, NEW cmd \in Commands, Preview(p, cmd) PROVE Begins
      <4>1. plan'[p].status = "previewed" /\ \A q \in Plan \ {p} : plan'[q] = plan[q]
        BY <3>4 DEF Preview, TypeOK
      <4> QED BY <4>1
    <3> QED BY <3>1, <3>2, <3>3, <3>4, WhoMarks
  <2>2. Profiles
    <3>1. CASE plug' = plug  BY <3>1
    <3>2. CASE Mutate
      <4>1. PICK s \in job.todo :
               plug' \in {plug, [plug EXCEPT ![s] = Wanted], [plug EXCEPT ![s] = "torn"]}
        BY <3>2 DEF Mutate
      <4>2. \A t \in Space \ {s} : plug'[t] = plug[t]  BY <4>1 DEF TypeOK
      <4>3. plug[s] = job.print.spaces[s][2]
        BY <3>2 DEF Mutate, JobInv, PrintHolds
      <4> QED BY <4>2, <4>3
    <3> QED BY <3>1, <3>2, WhoChanges
  <2>3. Runtime
    <3>1. CASE UpgradeStep
      <4>1. runtime' # runtime => up = "select"
        BY <3>1 DEF UpgradeStep, Upgrading, AssertClear, Snapshot, Prepare, InstallRuntime,
           MakeStage, Smoke, Commit, Backup, Swap, Retarget, Select, ClearJournal, DiscardStage,
           FailsBefore, FailsStaging, FailsCommitting, Reap, Undo, At, disk
      <4> QED BY <4>1 DEF JobInv, PrintHolds, Begun
    <3> QED BY <3>1, WhoChanges
  <2>4. Recorded
    <3>1. CASE job.pc \in Working  BY <3>1, AtWork
    <3>2. CASE Mutate \/ UpgradeStep \/ TakeSnapshot \/ DeleteSnapshot
      <4>1. job.pc \in Working
        BY <3>2, PcFacts DEF Mutate, UpgradeStep, TakeSnapshot, DeleteSnapshot, In
      <4> QED BY <3>1, <4>1
    <3> QED BY <3>2, WhoChanges
  <2> QED BY <2>1, <2>2, <2>3, <2>4
<1> QED BY <1>1, Invariance, PTL DEF Spec, ConfirmedOnce

\* Evidence of an unfinished change is removed by the job that wrote it, and is
\* never overwritten by a later one (1458, 1487, coordinated-upgrade 259).
THEOREM Evident == Spec => EvidenceKept
<1> DEFINE Mutation == mut' # mut => mut.plan = NoPlan \/ mut.plan = job.plan
           Upgrade == Evidence /\ journal'.snap # journal.snap =>
                        job.plan \in Plan /\ phase # "none" /\ journal' = NoJournal
           A == Mutation /\ Upgrade
<1>1. IInv /\ [Next]_vars => [A]_vars
  <2> SUFFICES ASSUME TypeOK, JobInv, UpInv, Next PROVE A  BY Split
  <2>1. Mutation
    <3>1. CASE WriteMutation  BY <3>1 DEF WriteMutation
    <3>2. CASE Verify  BY <3>2 DEF Verify, JobInv, MutationIsHeld, In
    <3>3. CASE MutationFails  BY <3>3 DEF MutationFails, JobInv, MutationIsHeld, In
    <3> QED BY <3>1, <3>2, <3>3, WhoChanges
  <2>2. Upgrade
    <3>1. CASE journal' = journal  BY <3>1
    <3>2. CASE Boot
      <4>1. CASE up = "prepare"  BY <4>1 DEF UpInv, UpgradeIsInOrder
      <4>2. CASE up # "prepare" /\ journal' # journal
        <5>1. up = "commit"  BY <3>2, <4>2 DEF Boot, UpgradeDies
        <5>2. PICK id \in SnapId : Taken(id) /\ journal' = Garbled(Journal("torn", id))
          BY <3>2, <4>2 DEF Boot, UpgradeDies
        <5>3. journal'.snap = id  BY <5>2 DEF Garbled, Journal
        <5>4. Taken(journal.snap)  BY <5>1 DEF UpInv, UpgradeIsInOrder
        <5>5. journal.snap \in SnapId  BY <5>4 DEF Taken, Published
        <5> QED BY <5>2, <5>3, <5>4, <5>5, TakenIsOne
      <4> QED BY <4>1, <4>2
    <3>3. CASE UpgradeStep
      <4>1. job.pc \in Working  BY <3>3, PcFacts DEF UpgradeStep, In
      <4>2. job.plan \in Plan  BY <4>1, AtWork
      <4>3. CASE Prepare
        BY <4>3 DEF Prepare, At, FailsAt, UpInv, UpgradeIsInOrder
      <4>4. CASE Commit
        <5>1. journal'.snap = journal.snap
          BY <4>4 DEF Commit, Journal, Garbled, TypeOK, UpTypeOK
        <5> QED BY <5>1
      <4>5. CASE ClearJournal \/ Undo
        BY <4>2, <4>5 DEF ClearJournal, Undo, At, FailsAt, UpInv, UpgradeIsInOrder
      <4>6. journal' = journal \/ Prepare \/ Commit \/ ClearJournal \/ Undo
        BY <3>3 DEF UpgradeStep, Upgrading, AssertClear, Snapshot, InstallRuntime, MakeStage,
           Smoke, Backup, Swap, Retarget, Select, DiscardStage, FailsBefore, FailsStaging,
           FailsCommitting, Reap, disk
      <4> QED BY <4>3, <4>4, <4>5, <4>6
    <3> QED BY <3>1, <3>2, <3>3, WhoChanges
  <2> QED BY <2>1, <2>2
<1> QED BY <1>1, Invariance, PTL DEF Spec, EvidenceKept

\* The Home is copied, and a profile changed, while what it belongs to is down,
\* although spaces are stopped one by one and exit on their own (958-971, 1010-1025);
\* only the manager may have been started, by the initialization, after its stop.
THEOREM Rest == Spec => ChangesAtRest
<1> DEFINE Copies == (\E id \in SnapId : snaps[id] = Unused /\ snaps'[id] # Unused)
                       => Running(Instance) \subseteq job.late
           Profiles == \A s \in Space : plug'[s] # plug[s] => st[s] # "running"
           A == Copies /\ Profiles
<1>1. IInv /\ [Next]_vars => [A]_vars
  <2> SUFFICES ASSUME TypeOK, JobInv, UpInv, Next PROVE A  BY Split
  <2>1. Copies
    <3>1. CASE snaps' = snaps  BY <3>1
    <3>2. CASE TakeSnapshot  BY <3>2 DEF TakeSnapshot, JobInv, StaysDown
    <3>3. CASE DeleteSnapshot
      <4>1. \A id \in SnapId : snaps[id] = Unused => snaps'[id] = Unused
        BY <3>3 DEF DeleteSnapshot, Delete, Published, TypeOK, UpTypeOK
      <4> QED BY <4>1
    <3>4. CASE UpgradeStep
      <4>1. snaps' = snaps \/ up = "snapshot"
        BY <3>4 DEF UpgradeStep, Upgrading, AssertClear, Snapshot, Prepare, InstallRuntime,
           MakeStage, Smoke, Commit, Backup, Swap, Retarget, Select, ClearJournal, DiscardStage,
           FailsBefore, FailsStaging, FailsCommitting, Reap, Undo, At, disk
      <4> QED BY <4>1 DEF JobInv, StaysDown
    <3> QED BY <3>1, <3>2, <3>3, <3>4, WhoChanges
  <2>2. Profiles
    <3>1. CASE Mutate
      <4>1. PICK s \in job.todo :
               plug' \in {plug, [plug EXCEPT ![s] = Wanted], [plug EXCEPT ![s] = "torn"]}
        BY <3>1 DEF Mutate
      <4>2. \A t \in Space \ {s} : plug'[t] = plug[t]  BY <4>1 DEF TypeOK
      <4>3. s \in Cmd.spaces /\ Running(Cmd.spaces) = {}
        BY <3>1 DEF Mutate, JobInv, StaysDown, MutationIsHeld, In
      <4> QED BY <4>2, <4>3 DEF Running
    <3> QED BY <3>1, WhoChanges
  <2> QED BY <2>1, <2>2
<1> QED BY <1>1, Invariance, PTL DEF Spec, ChangesAtRest

\* A plugin plan that succeeded has started every space it stopped (949-1008).
THEOREM Restarted == Spec => SuccessRestartsSpaces
<1> DEFINE A == \A p \in Plan : plan[p].status = "running" /\ plan'[p].status = "succeeded"
                  => p = job.plan /\ (job.cmd.kind \in {"install", "remove"} => job.down = {})
<1>1. IInv /\ [Next]_vars => [A]_vars
  <2> SUFFICES ASSUME TypeOK, JobInv, Next,
                      NEW p \in Plan, plan[p].status = "running", plan'[p].status = "succeeded"
               PROVE  p = job.plan /\ (job.cmd.kind \in {"install", "remove"} => job.down = {})
    BY Split
  <2>1. CASE PlansAge  BY <2>1 DEF PlansAge
  <2>2. CASE Rebuild
    <3>1. job.pc = "rebuild" /\ (UNCHANGED plan \/ Mark(job.plan, "running"))
      BY <2>2 DEF Rebuild, In
    <3> QED BY <3>1, Marked
  <2>3. CASE Settle
    <3>1. p = job.plan  BY <2>3, EndMarks
    <3>2. job.cmd.kind \in {"install", "remove"} => job.down = {}
      BY <2>3 DEF Settle, JobInv, RestartsAll, Cmd, Home
    <3> QED BY <3>1, <3>2
  <2>4. CASE Catch
    <3>1. \E status \in {"running", "cancelled", "failed"} : Mark(job.plan, status)
      <4>1. CASE job.err = "uncertain"  BY <2>4, <4>1 DEF Catch
      <4>2. CASE job.err = "abort" /\ ~job.firm  BY <2>4, <4>2 DEF Catch
      <4>3. CASE ~(job.err = "uncertain") /\ ~(job.err = "abort" /\ ~job.firm)
        BY <2>4, <4>3 DEF Catch
      <4> QED BY <4>1, <4>2, <4>3
    <3>2. job.pc \in Working  BY <2>4, EndMarks
    <3> QED BY <3>1, <3>2, Marked
  <2>5. ASSUME NEW q \in Plan, NEW cmd \in Commands, Preview(q, cmd) PROVE FALSE
    <3>1. plan'[q].status = "previewed" /\ \A r \in Plan \ {q} : plan'[r] = plan[r]
      BY <2>5 DEF Preview, TypeOK
    <3> QED BY <3>1
  <2> QED BY <2>1, <2>2, <2>3, <2>4, <2>5, WhoMarks
<1> QED BY <1>1, Invariance, PTL DEF Spec, SuccessRestartsSpaces
=============================================================================
