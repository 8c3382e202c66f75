---------------------------- MODULE BlueprintPlans ----------------------------
(***************************************************************************)
(* The Supervisor's side of blueprints (blueprint-workbench.ts): previews  *)
(* that stage a plan of limited life in memory, over several awaits and    *)
(* beside each other, and the job that consumes a plan and applies it in   *)
(* four stages with no way back.  The job tail is serial, so that other    *)
(* commands change the Home only between two applications; the processes   *)
(* of the spaces and a person's editor change it at any time.              *)
(*                                                                         *)
(* A blueprint is a member of Content with Packages packages in order; its *)
(* inputs go with it.  The revision, the catalog and the patch file stand  *)
(* for the ten fields of an observation; the revision is a digest of what  *)
(* jobs change and of the processes' states and generations.  The limits   *)
(* on pending plans (count and bytes, 334-339) are one.                    *)
(***************************************************************************)
EXTENDS Naturals, FiniteSets, Sequences

CONSTANTS
  Content,      \* blueprints with their inputs
  WithModel,    \* those that bind a model
  Name,         \* names of spaces
  Call,         \* requests under way between the browser and the Supervisor
  Packages,     \* packages of a blueprint
  PlanLimit,    \* BLUEPRINT_PLAN_MAX_COUNT
  MaxPlan,      \* bound: plans ever staged
  MaxJob,       \* bound: jobs ever submitted
  MaxTime,      \* bound: ticks of the clock
  MaxHomeChange,\* bound: changes by other jobs, by processes and by the editor
  MaxBoots,     \* bound: restarts of the Supervisor
  None

ASSUME BlueprintAssumption ==
  /\ WithModel \subseteq Content
  /\ {Packages, PlanLimit, MaxPlan, MaxJob, MaxTime, MaxHomeChange, MaxBoots} \subseteq Nat
  /\ None \notin Content \cup Name \cup Call

Ttl == 1        \* BLUEPRINT_PLAN_TTL_MS in ticks

VARIABLES
  serviceEpoch, \* the Supervisor's service epoch
  clock,
  home,         \* what an observation sees: revision (rev, runs), catalog, patch file
  spaces,       \* what each space really holds, None where there is none
  plans,        \* staged plans, in memory
  issued,       \* plan ids given out
  calls,        \* requests and answers on their way
  jobs,         \* the blueprint.apply jobs, in the order of their creation
  work          \* the application that runs

serverVars == <<serviceEpoch, clock, home, spaces, plans, issued, calls, jobs, work>>

\* computeWorkbenchRevision: names and settings, and what the processes do.
Revision == <<home.rev, home.runs>>
NoRevision == <<0, 0>>

Idle == [pc |-> "idle", job |-> 0, rev |-> NoRevision, plan |-> None, out |-> None, k |-> 0]

Fresh(c) ==
  [by |-> work.job, content |-> c, installed |-> {}, patch |-> FALSE, settings |-> FALSE,
   policy |-> FALSE, default |-> FALSE, provenance |-> FALSE]

\* emptyOutcome, with a row for each package once the plan is known (500).
EmptyOutcome ==
  [space |-> FALSE, create |-> "not-run", packages |-> "not-run", presets |-> "not-run",
   package |-> [i \in 1..Packages |-> "not-run"],
   patch |-> "not-run", settings |-> "not-run", model |-> "not-run", provenance |-> "not-run"]

\* The name and the content are those of the plan a job has consumed: history,
\* which nothing reads but the properties, like "by" of a space.
NewJob(plan, obs) ==
  [plan |-> plan, obs |-> obs, status |-> "queued", name |-> None, content |-> None,
   outcome |-> None]

Finished == {"succeeded", "failed", "cancelled"}

ServerInit ==
  /\ serviceEpoch = 1 /\ clock = 0
  /\ home = [rev |-> 0, runs |-> 0, llm |-> 0, enabled |-> TRUE, override |-> FALSE,
             edits |-> 0]
  /\ spaces = [n \in Name |-> None]
  /\ plans = {} /\ issued = 0
  /\ calls = [c \in Call |-> None]
  /\ jobs \in {<<>>, <<[NewJob(0, None) EXCEPT !.status = "succeeded"]>>}
  /\ work = Idle

-----------------------------------------------------------------------------
(* Previews.  A call that its sender gave up is still served.              *)

Answer(c, res) ==
  calls' = [calls EXCEPT ![c] = IF @.live THEN [@ EXCEPT !.stage = "answered", !.res = res]
                                          ELSE None]
Refusal == [type |-> "error", plan |-> None, expires |-> 0, obs |-> None]

At(c, kind, stage) == calls[c] # None /\ calls[c].kind = kind /\ calls[c].stage = stage

\* read() notes what the answer will say was observed (151), then the name is
\* checked against the spaces (298).
PreviewArrives(c) ==
  /\ At(c, "preview", "sent")
  /\ IF spaces[calls[c].name] # None
       THEN Answer(c, Refusal)
       ELSE calls' = [calls EXCEPT ![c].stage = "gate",
                                   ![c].res.obs = [epoch |-> serviceEpoch, rev |-> Revision]]
  /\ UNCHANGED <<serviceEpoch, clock, home, spaces, plans, issued, jobs, work>>

NoPlan(c) == Answer(c, [calls[c].res EXCEPT !.type = "noplan"])
Live(ps) == {p \in ps : p.expires > clock}

\* The runtime, the model and the home patch have been looked at (312-318); the
\* room for a plan is checked here, and taken only after the next awaits.
Gate(c) ==
  /\ At(c, "preview", "gate")
  /\ LET ok == ~home.override /\ (calls[c].content \in WithModel => home.enabled) IN
       \/ /\ NoPlan(c)                      \* refused, or the runtime cannot be inspected
          /\ UNCHANGED plans
       \/ /\ ok
          /\ plans' = Live(plans)
          /\ IF Cardinality(plans') >= PlanLimit
               THEN Answer(c, Refusal)
               ELSE calls' = [calls EXCEPT ![c].stage = "capture",
                                           ![c].res.expires = clock + Ttl,
                                           ![c].rev = Revision]
  /\ UNCHANGED <<serviceEpoch, clock, home, spaces, issued, jobs, work>>

Observation(rev) ==
  [epoch |-> serviceEpoch, rev |-> rev, llm |-> home.llm, override |-> home.override]

\* captureObservation read the revision before its awaits and the rest after.
Stage(c) ==
  /\ At(c, "preview", "capture")
  /\ \/ /\ NoPlan(c)
        /\ UNCHANGED <<plans, issued>>
     \/ /\ issued < MaxPlan
        /\ issued' = issued + 1
        /\ plans' = plans \cup
             {[id |-> issued', content |-> calls[c].content, name |-> calls[c].name,
               expires |-> calls[c].res.expires, obs |-> Observation(calls[c].rev)]}
        /\ Answer(c, [calls[c].res EXCEPT !.type = "plan", !.plan = issued'])
  /\ UNCHANGED <<serviceEpoch, clock, home, spaces, jobs, work>>

-----------------------------------------------------------------------------
(* The job of an application.                                              *)

\* submit: the context is looked at when the job runs, not here (864-894).
SubmitArrives(c) ==
  /\ At(c, "submit", "sent")
  /\ \/ /\ Len(jobs) < MaxJob
        /\ jobs' = Append(jobs, NewJob(calls[c].plan, calls[c].obs))
        /\ Answer(c, [Refusal EXCEPT !.type = "job", !.plan = Len(jobs')])
     \/ /\ Answer(c, Refusal)               \* sealed, blocked, or not writable
        /\ UNCHANGED jobs
  /\ UNCHANGED <<serviceEpoch, clock, home, spaces, plans, issued, work>>

CancelQueued(j) ==
  /\ jobs[j].status = "queued"
  /\ jobs' = [jobs EXCEPT ![j].status = "cancelled"]
  /\ UNCHANGED <<serviceEpoch, clock, home, spaces, plans, issued, calls, work>>

\* The job ends; its record keeps the outcome that was last published.
Settle(status, out) ==
  /\ jobs' = [jobs EXCEPT ![work.job].status = status, ![work.job].outcome = out]
  /\ work' = Idle

\* afterFailure(publish(outcome)).
FailWith(out) == Settle("failed", out)

Advance(pc, out) == work' = [work EXCEPT !.pc = pc, !.out = out]

\* ctx.phase writes the job's record; when that throws nothing more is published.
Enter(pc, out) ==
  \/ Advance(pc, out) /\ UNCHANGED jobs
  \/ Settle("failed", out)

BeginJob(j) ==
  /\ work.pc = "idle" /\ jobs[j].status = "queued"
  /\ \A i \in 1..(j - 1) : jobs[i].status # "queued"
  /\ IF jobs[j].obs = [epoch |-> serviceEpoch, rev |-> Revision]
       THEN /\ work' = [Idle EXCEPT !.pc = "look", !.job = j, !.out = EmptyOutcome]
            /\ jobs' = [jobs EXCEPT ![j].status = "running"]
       ELSE /\ jobs' = [jobs EXCEPT ![j].status = "failed"]
            /\ UNCHANGED work
  /\ UNCHANGED <<serviceEpoch, clock, home, spaces, plans, issued, calls>>

FailCreate(out) == FailWith([out EXCEPT !.create = "failed"])

Consumable_Expiry(p) == p.expires > clock

\* consumePlan: a plan is used once, before it expires, and if what was observed
\* for it is what the job has observed.
Consumable(p) == p.expires > clock /\ p.obs = Observation(work.rev)

\* The job's own observation begins with the revision, its awaits follow.
Look ==
  /\ work.pc = "look"
  /\ \/ FailCreate(work.out)                             \* cancelled, or no versions
     \/ work' = [work EXCEPT !.pc = "observe", !.rev = Revision] /\ UNCHANGED jobs
  /\ UNCHANGED <<serviceEpoch, clock, home, spaces, plans, issued, calls>>

Observe ==
  /\ work.pc = "observe"
  /\ \/ FailCreate(work.out) /\ UNCHANGED plans         \* the runtime cannot be inspected
     \/ LET mine == {p \in Live(plans) : p.id = jobs[work.job].plan} IN
        /\ plans' = Live(plans) \ mine
        /\ IF \E p \in mine : Consumable(p)
             THEN LET p == CHOOSE p \in mine : TRUE IN
                  /\ work' = [work EXCEPT !.pc = "check", !.plan = p]
                  /\ jobs' = [jobs EXCEPT ![work.job].name = p.name,
                                          ![work.job].content = p.content]
             ELSE FailCreate(work.out)
  /\ UNCHANGED <<serviceEpoch, clock, home, spaces, issued, calls>>

ModelAvailable == work.plan.content \in WithModel => home.enabled

\* The model and the home patch are looked at again (517-530).
Check ==
  /\ work.pc = "check"
  /\ \/ FailCreate(work.out)
     \/ Settle("failed", None)                           \* ctx.phase("space-create") throws
     \/ /\ ModelAvailable /\ ~home.override
        /\ work' = [work EXCEPT !.pc = "create"]
        /\ UNCHANGED jobs
  /\ UNCHANGED <<serviceEpoch, clock, home, spaces, plans, issued, calls>>

Own == work.plan.name
Become(f) == spaces' = [spaces EXCEPT ![Own] = f]
Created == [work.out EXCEPT !.space = TRUE, !.create = "succeeded"]

\* createSpace may fail before the space is there, or after (552-559).
CreateSpace ==
  /\ work.pc = "create"
  /\ \/ /\ FailCreate([work.out EXCEPT !.space = spaces[Own] # None])
        /\ UNCHANGED <<spaces, home>>
     \/ /\ spaces[Own] = None
        /\ Become(Fresh(work.plan.content))
        /\ home' = [home EXCEPT !.rev = @ + 1]
        /\ \/ FailCreate([work.out EXCEPT !.space = TRUE])
           \/ Enter("package", Created)
  /\ UNCHANGED <<serviceEpoch, clock, plans, issued, calls>>

Turn == work.k + 1
WithPackage(status) == [work.out EXCEPT !.package[Turn] = status]
FailPackages(out) == FailWith([out EXCEPT !.packages = "failed"])

\* Download, install, compare the identity: the first failure ends it, with the
\* archive in place or not (564-590).
InstallPackage ==
  /\ work.pc = "package" /\ work.k < Packages
  /\ \/ /\ FailPackages(WithPackage("failed"))
        /\ UNCHANGED spaces
     \/ /\ Become([spaces[Own] EXCEPT !.installed = @ \cup {Turn}])
        /\ \/ FailPackages(WithPackage("failed"))
           \/ /\ work' = [work EXCEPT !.k = Turn, !.out = WithPackage("succeeded")]
              /\ UNCHANGED jobs
  /\ UNCHANGED <<serviceEpoch, clock, home, plans, issued, calls>>

\* The order of the layers is written and the official composition tried.
Compose ==
  /\ work.pc = "package" /\ work.k = Packages
  /\ \/ FailPackages(work.out)
     \/ Enter("presets", [work.out EXCEPT !.packages = "succeeded"])
  /\ UNCHANGED <<serviceEpoch, clock, home, spaces, plans, issued, calls>>

FailPresets_Unpublished(out) == Settle("failed", work.out)

FailPresets(out) == FailWith([out EXCEPT !.presets = "failed"])

\* The patch and the settings are written in one turn (634-646).
WritePresets ==
  /\ work.pc = "presets"
  /\ LET patched == [work.out EXCEPT !.patch = "succeeded"]
         both == [patched EXCEPT !.settings = "succeeded"]
     IN \/ /\ FailPresets([work.out EXCEPT !.patch = "failed"])
           /\ UNCHANGED spaces
        \/ /\ FailPresets([patched EXCEPT !.settings = "failed"])
           /\ Become([spaces[Own] EXCEPT !.patch = TRUE])
        \/ /\ Advance(IF work.plan.content \in WithModel THEN "policy" ELSE "provenance", both)
           /\ Become([spaces[Own] EXCEPT !.patch = TRUE, !.settings = TRUE])
           /\ UNCHANGED jobs
  /\ UNCHANGED <<serviceEpoch, clock, home, plans, issued, calls>>

\* bindModel is two requests to the shared configuration (893-940).
BindPolicy ==
  /\ work.pc = "policy"
  /\ \/ FailPresets([work.out EXCEPT !.model = "failed"]) /\ UNCHANGED spaces
     \/ /\ home.enabled
        /\ Become([spaces[Own] EXCEPT !.policy = TRUE])
        /\ work' = [work EXCEPT !.pc = "default"]
        /\ UNCHANGED jobs
  /\ UNCHANGED <<serviceEpoch, clock, home, plans, issued, calls>>

BindDefault ==
  /\ work.pc = "default"
  /\ \/ FailPresets([work.out EXCEPT !.model = "failed"]) /\ UNCHANGED spaces
     \/ /\ Become([spaces[Own] EXCEPT !.default = TRUE])
        /\ Advance("provenance", [work.out EXCEPT !.model = "succeeded"])
        /\ UNCHANGED jobs
  /\ UNCHANGED <<serviceEpoch, clock, home, plans, issued, calls>>

\* The layers with the bridge, the late composition, then the record of where
\* the space comes from (657-668).
WriteProvenance ==
  /\ work.pc = "provenance"
  /\ \/ FailPresets(work.out) /\ UNCHANGED spaces
     \/ FailPresets([work.out EXCEPT !.provenance = "failed"]) /\ UNCHANGED spaces
     \/ /\ Become([spaces[Own] EXCEPT !.provenance = TRUE])
        /\ LET out == [work.out EXCEPT !.provenance = "succeeded"] IN
             \/ FailPresets(out)                          \* hostVersions throws
             \/ Settle("succeeded", [out EXCEPT !.presets = "succeeded"])
  /\ UNCHANGED <<serviceEpoch, clock, home, plans, issued, calls>>

-----------------------------------------------------------------------------
(* Everything else that happens to the Home and to the process.            *)

\* Another job between two applications: the spaces or the settings change, or
\* the catalog of connections, with the connection that is bound or another one.
OtherJob ==
  /\ work.pc = "idle" /\ home.edits < MaxHomeChange
  /\ \/ home' = [home EXCEPT !.edits = @ + 1, !.rev = @ + 1]
     \/ \E on \in BOOLEAN : home' = [home EXCEPT !.edits = @ + 1, !.llm = @ + 1, !.enabled = on]
  /\ UNCHANGED <<serviceEpoch, clock, spaces, plans, issued, calls, jobs, work>>

\* A process ends, or the manager's start beside the tail goes on, at any time.
ProcessChanges ==
  /\ home.edits < MaxHomeChange
  /\ home' = [home EXCEPT !.edits = @ + 1, !.runs = @ + 1]
  /\ UNCHANGED <<serviceEpoch, clock, spaces, plans, issued, calls, jobs, work>>

\* Somebody edits cordis.patch.yml of the Home.
EditPatch ==
  /\ home.edits < MaxHomeChange
  /\ home' = [home EXCEPT !.edits = @ + 1, !.override = ~@]
  /\ UNCHANGED <<serviceEpoch, clock, spaces, plans, issued, calls, jobs, work>>

Tick ==
  /\ clock < MaxTime /\ clock' = clock + 1
  /\ UNCHANGED <<serviceEpoch, home, spaces, plans, issued, calls, jobs, work>>

\* The process dies and is started again: plans are gone, unfinished jobs are
\* failed and not run again, open requests break.
RestartSupervisor ==
  /\ serviceEpoch <= MaxBoots /\ serviceEpoch' = serviceEpoch + 1
  /\ plans' = {} /\ work' = Idle
  /\ jobs' = [j \in DOMAIN jobs |->
                IF jobs[j].status \in Finished THEN jobs[j] ELSE [jobs[j] EXCEPT !.status = "failed"]]
  /\ calls' = [c \in Call |->
                 IF calls[c] = None \/ calls[c].stage = "answered" THEN calls[c]
                 ELSE IF ~calls[c].live THEN None
                 ELSE [calls[c] EXCEPT !.stage = "answered", !.res = Refusal]]
  /\ UNCHANGED <<clock, home, spaces, issued>>

Apply ==
  \/ \E j \in DOMAIN jobs : BeginJob(j)
  \/ Look \/ Observe \/ Check \/ CreateSpace \/ InstallPackage \/ Compose
  \/ WritePresets \/ BindPolicy \/ BindDefault \/ WriteProvenance

Serve == \E c \in Call : PreviewArrives(c) \/ Gate(c) \/ Stage(c) \/ SubmitArrives(c)

Environment ==
  \/ \E j \in DOMAIN jobs : CancelQueued(j)
  \/ OtherJob \/ ProcessChanges \/ EditPatch \/ Tick \/ RestartSupervisor
===============================================================================
