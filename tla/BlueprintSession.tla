--------------------------- MODULE BlueprintSession ---------------------------
(***************************************************************************)
(* A person at the blueprint page of the workbench (blueprint-session.ts,  *)
(* store.ts) on top of the Supervisor's side, BlueprintPlans.  A blueprint *)
(* is inspected, named, previewed and applied; every request is answered   *)
(* late, in any order, or not at all, and the person edits the form        *)
(* meanwhile.  The session gives a request up by aborting it (begin): its  *)
(* answer is ignored, the Supervisor serves it all the same.  The jobs are *)
(* read by polling; oldest first (workbench-jobs.ts 214).                  *)
(***************************************************************************)
EXTENDS BlueprintPlans

CONSTANT MaxEdit        \* bound: edits of the form

ASSUME BlueprintEdits == MaxEdit \in Nat

VARIABLE ui     \* the session's snapshot

blueprintVars == <<serverVars, ui>>

BlueprintInit ==
  /\ ServerInit
  /\ ui \in [content : Content, name : Name, inspect : {None}, inspectStatus : {"idle"},
             preview : {None}, previewStatus : {"idle"}, previewInvalid : {FALSE},
             applyStatus : {"idle"}, applyPlan : {None}, applyJob : {None}, epoch : {1}, edits : {0}]

-----------------------------------------------------------------------------
(* Requests.                                                               *)

\* begin: the requests of these kinds that are under way are given up.  A preview
\* is still served; nothing else is left of them.
GiveUp(kinds) ==
  [c \in Call |->
     IF calls[c] = None \/ calls[c].kind \notin kinds THEN calls[c]
     ELSE IF calls[c].kind = "inspect" \/ calls[c].stage = "answered" THEN None
     ELSE [calls[c] EXCEPT !.live = FALSE]]

\* A request of a kind, in a free slot.
Send(kinds, kind, content, name, plan, obs) ==
  \E c \in Call :
    /\ calls[c] = None
    /\ calls' = [GiveUp(kinds) EXCEPT ![c] =
         [kind |-> kind, live |-> TRUE, stage |-> "sent", epoch |-> ui.epoch,
          content |-> content, name |-> name, plan |-> plan, obs |-> obs,
          rev |-> NoRevision, res |-> Refusal]]

Only(f) == /\ ui' = f
           /\ UNCHANGED <<serviceEpoch, clock, home, spaces, plans, issued, jobs, work>>
Free(c) == calls' = [calls EXCEPT ![c] = None]

NoPreview(u) == [u EXCEPT !.preview = None]

Invalidated_Later(u) == u

\* invalidatePreview: the preview stays, marked.
Invalidated(u) == [u EXCEPT !.previewInvalid = TRUE]
Edit(u) == ui.edits < MaxEdit /\ Only([u EXCEPT !.edits = @ + 1])

\* setContent and readFileBytes.
SetContent(x) ==
  /\ x # ui.content
  /\ calls' = GiveUp({"inspect", "preview"})
  /\ Edit([NoPreview(ui) EXCEPT !.content = x, !.inspect = None, !.inspectStatus = "idle",
                                !.previewStatus = "idle", !.previewInvalid = TRUE])

\* setName; setDisplayName and the inputs do the same (invalidatePreview).
SetName(n) ==
  /\ n # ui.name
  /\ calls' = GiveUp({"preview"})
  /\ Edit(Invalidated([ui EXCEPT !.name = n]))

\* setMode away from this page and back.
SetMode ==
  /\ calls' = GiveUp({"inspect", "preview"})
  /\ Edit(ui)

Inspect ==
  /\ ui.inspectStatus # "loading"
  /\ Send({"inspect"}, "inspect", ui.content, None, None, None)
  /\ Only([NoPreview(ui) EXCEPT !.inspectStatus = "loading", !.previewInvalid = TRUE])

\* Inspection reads nothing that changes; it is served as it is answered.
InspectAnswer(c) ==
  /\ calls[c] # None /\ calls[c].kind = "inspect"
  /\ Free(c)
  /\ \/ /\ calls[c].stage = "sent"
        /\ Only(IF <<calls[c].epoch, calls[c].content>> # <<ui.epoch, ui.content>> THEN ui
                ELSE [NoPreview(ui) EXCEPT !.inspectStatus = "ready", !.inspect = calls[c].content,
                                           !.previewStatus = "idle", !.previewInvalid = TRUE])
     \/ Only([ui EXCEPT !.inspectStatus = "error"])

Preview ==
  /\ ui.inspect # None /\ ui.previewStatus # "loading"
  /\ Send({"preview"}, "preview", ui.content, ui.name, None, None)
  /\ Only([ui EXCEPT !.previewStatus = "loading", !.previewInvalid = FALSE])

PreviewAnswer(c) ==
  /\ At(c, "preview", "answered")
  /\ Free(c)
  /\ LET r == calls[c].res IN
       CASE r.type = "error" -> Only([ui EXCEPT !.previewStatus = "error"])
         [] /\ r.type # "error"
            /\ <<calls[c].epoch, calls[c].content, calls[c].name>> # <<ui.epoch, ui.content, ui.name>>
              -> Only(ui)
         [] OTHER -> Only([ui EXCEPT !.previewStatus = "ready", !.previewInvalid = FALSE,
                             !.preview = [plan |-> r.plan, expires |-> r.expires, obs |-> r.obs,
                                          content |-> calls[c].content, name |-> calls[c].name]])

CancelStaged ==
  /\ ui.preview # None \/ ui.previewStatus # "idle"
  /\ calls' = GiveUp({"preview"})
  /\ Edit([NoPreview(ui) EXCEPT !.previewStatus = "idle", !.previewInvalid = FALSE,
             !.applyStatus = IF @ \in {"submitting", "running"} THEN @ ELSE "idle"])

-----------------------------------------------------------------------------
(* Applying.                                                               *)

Submitted_Active(u) == u.preview.plan = u.applyPlan /\ u.applyStatus \in {"submitting", "running"}

\* previewPlanMatchesApply: this plan has been submitted before.
Submitted(u) == u.preview.plan = u.applyPlan /\ u.applyStatus # "idle"

CanApply(u) ==
  /\ u.preview # None /\ ~u.previewInvalid
  /\ u.preview.plan # None /\ u.preview.expires > clock
  /\ u.applyStatus \notin {"submitting", "running"}
  /\ ~Submitted(u)

ApplyClick ==
  /\ CanApply(ui)
  /\ IF ui.epoch # ui.preview.obs.epoch
       THEN /\ Only([ui EXCEPT !.previewInvalid = TRUE])
            /\ UNCHANGED calls
       ELSE /\ Send({}, "submit", None, None, ui.preview.plan, ui.preview.obs)
            /\ Only([ui EXCEPT !.applyStatus = "submitting", !.applyPlan = ui.preview.plan,
                               !.applyJob = None])

\* onApplyJob, called for a job that was answered and for every job of a poll.
OnApplyJob(u, j) ==
  LET status == jobs[j].status IN
  IF u.applyJob \notin {None, j} \/ (u.applyPlan = None /\ u.applyStatus = "idle")
    THEN u
    ELSE [u EXCEPT !.applyJob = j,
                   !.applyStatus = CASE status \in {"queued", "running"} -> "running"
                                     [] status = "succeeded" -> "succeeded"
                                     [] OTHER -> "failed"]

OfPlan(u, plan, status) ==
  IF u.applyPlan = plan /\ u.applyStatus = "submitting"
    THEN [u EXCEPT !.applyStatus = status] ELSE u

SubmitAnswer(c) ==
  /\ At(c, "submit", "answered")
  /\ Free(c)
  /\ LET r == calls[c].res IN
       IF r.type = "job"
         THEN Only(OfPlan(OnApplyJob(ui, r.plan), calls[c].plan, "running"))
         ELSE Only(IF ui.applyPlan = calls[c].plan
                     THEN [ui EXCEPT !.applyStatus = "failed"] ELSE ui)

\* The connection breaks with a request or its answer on the way.
Lose(c) ==
  /\ calls[c] # None /\ calls[c].kind # "inspect"
  /\ calls[c].stage = "sent" \/ (calls[c].stage = "answered" /\ calls[c].res # Refusal)
  /\ Answer(c, Refusal)
  /\ UNCHANGED <<serviceEpoch, clock, home, spaces, plans, issued, jobs, work, ui>>

\* onApplyJob for every job of a poll, oldest first: the job the session has, or
\* takes first, is the only one it hears of.
Heard(u) ==
  IF jobs = <<>> THEN u ELSE OnApplyJob(u, IF u.applyJob = None THEN 1 ELSE u.applyJob)

\* applyState: a new epoch first (onServiceEpoch), then the jobs.
Poll ==
  LET outdated == ui.epoch # serviceEpoch /\ ui.preview # None /\ ui.preview.obs.epoch # serviceEpoch
      seen == [ui EXCEPT !.epoch = serviceEpoch, !.previewInvalid = @ \/ outdated]
  IN /\ Heard(seen) # ui
     /\ Only(Heard(seen))
     /\ calls' = IF outdated THEN GiveUp({"preview"}) ELSE calls

Person ==
  \/ \E x \in Content : SetContent(x)
  \/ \E n \in Name : SetName(n)
  \/ SetMode \/ Inspect \/ Preview \/ CancelStaged \/ ApplyClick

Arrive == \E c \in Call : InspectAnswer(c) \/ PreviewAnswer(c) \/ SubmitAnswer(c) \/ Lose(c)

ServerStep == (Serve \/ Apply \/ Environment) /\ UNCHANGED ui

BlueprintNext == Person \/ Arrive \/ Poll \/ ServerStep

BlueprintSpec == BlueprintInit /\ [][BlueprintNext]_blueprintVars

-----------------------------------------------------------------------------
Status == {"idle", "loading", "ready", "error"}
Step == {"not-run", "succeeded", "failed"}
Writing == {"package", "presets", "policy", "default", "provenance"}

Revisions == Nat \X Nat
Saw == [epoch : Nat, rev : Revisions]
Plan == [id : 1..MaxPlan, content : Content, name : Name, expires : Nat,
         obs : [epoch : Nat, rev : Revisions, llm : Nat, override : BOOLEAN]]
Held == [by : Nat, content : Content, installed : SUBSET (1..Packages), patch : BOOLEAN,
         settings : BOOLEAN, policy : BOOLEAN, default : BOOLEAN, provenance : BOOLEAN]
Outcome == [space : BOOLEAN, create : Step, packages : Step, presets : Step,
            package : [1..Packages -> Step], patch : Step, settings : Step, model : Step,
            provenance : Step]
Answered == [type : {"error", "noplan", "plan", "job"}, plan : Nat \cup {None}, expires : Nat,
             obs : Saw \cup {None}]
Requests == [kind : {"inspect", "preview", "submit"}, live : BOOLEAN,
            stage : {"sent", "gate", "capture", "answered"}, epoch : Nat,
            content : Content \cup {None}, name : Name \cup {None}, plan : 0..MaxPlan \cup {None},
            obs : Saw \cup {None}, rev : Revisions, res : Answered]
ApplyJob == [plan : 0..MaxPlan, obs : Saw \cup {None}, status : Finished \cup {"queued", "running"},
             name : Name \cup {None}, content : Content \cup {None}, outcome : Outcome \cup {None}]
Working == [pc : {"idle", "look", "observe", "check", "create"} \cup Writing, job : Nat,
            rev : Revisions, plan : Plan \cup {None}, out : Outcome \cup {None}, k : 0..Packages]
Shown == [plan : 1..MaxPlan \cup {None}, expires : Nat, obs : Saw, content : Content, name : Name]
Session == [content : Content, name : Name, inspect : Content \cup {None}, inspectStatus : Status,
            preview : Shown \cup {None}, previewStatus : Status, previewInvalid : BOOLEAN,
            applyStatus : {"idle", "submitting", "running", "succeeded", "failed"},
            applyPlan : 1..MaxPlan \cup {None}, applyJob : Nat \cup {None}, epoch : Nat,
            edits : 0..MaxEdit]

ASSUME BlueprintNone ==
  /\ None \notin Nat /\ None \notin Saw /\ None \notin Plan /\ None \notin Held
  /\ None \notin Outcome /\ None \notin Requests /\ None \notin Shown

BlueprintTypeOK ==
  /\ serviceEpoch \in Nat /\ clock \in 0..MaxTime /\ issued \in 0..MaxPlan
  /\ home \in [rev : Nat, runs : Nat, llm : Nat, enabled : BOOLEAN, override : BOOLEAN,
              edits : 0..MaxHomeChange]
  /\ spaces \in [Name -> Held \cup {None}]
  /\ plans \subseteq Plan
  /\ calls \in [Call -> Requests \cup {None}]
  /\ jobs \in Seq(ApplyJob)
  /\ work \in Working
  /\ ui \in Session /\ ui.applyJob \in DOMAIN jobs \cup {None}

\* A plan is applied once: what a job holds is no longer staged, so that a second
\* job of it, a late one, or one behind a restart finds nothing.
ConsumedOnce ==
  /\ \A p, q \in plans : p.id = q.id => p = q
  /\ \A j \in DOMAIN jobs : jobs[j].name # None =>
       /\ \A p \in plans : p.id # jobs[j].plan
       /\ \A i \in DOMAIN jobs \ {j} : jobs[i].name # None => jobs[i].plan # jobs[j].plan

\* What the session has inspected is the blueprint in the form, and what it calls
\* ready is a preview of the whole form, whatever was edited while the
\* answers were on their way (564-567, 612-617).
FormIsShown ==
  /\ ui.inspect # None => ui.inspect = ui.content
  /\ (ui.previewStatus = "ready" /\ ~ui.previewInvalid) =>
       ui.preview # None /\ ui.preview.content = ui.content /\ ui.preview.name = ui.name

BlueprintInv == BlueprintTypeOK /\ ConsumedOnce /\ FormIsShown

\* What a job's record says of an application is what is in the space the job
\* has created (BLUEPRINT.md 333), wherever it stopped: the space is named,
\* nothing is said to be done that is not, nothing to be not run that was, and a
\* success means the whole blueprint.  A failed step may be done, half done or
\* not.  Nothing is claimed of a space that another job created under the
\* same name while the plan was being previewed: it is named as well.
Says(out, field, fact) == (out[field] = "succeeded" => fact) /\ (out[field] = "not-run" => ~fact)

Agrees(out, s) ==
  /\ \A i \in 1..Packages : /\ out.package[i] = "succeeded" => i \in s.installed
                            /\ out.package[i] = "not-run" => i \notin s.installed
  /\ Says(out, "patch", s.patch) /\ Says(out, "settings", s.settings)
  /\ Says(out, "model", s.policy /\ s.default) /\ Says(out, "provenance", s.provenance)

Honest(j, job, s) ==
  LET out == job.outcome
      there == job.name # None /\ s # None /\ s.by = j
  IN /\ there => out.space /\ s.content = job.content /\ Agrees(out, s)
     /\ job.status = "succeeded" =>
          /\ there /\ out.create = "succeeded" /\ out.packages = "succeeded" /\ out.presets = "succeeded"
          /\ s.installed = 1..Packages /\ s.patch /\ s.settings /\ s.provenance
          /\ s.policy = (s.content \in WithModel) /\ s.default = s.policy

OutcomeIsHonest ==
  \A j \in DOMAIN jobs : jobs[j].outcome # None => Honest(j, jobs[j], spaces[jobs[j].name])

\* What jobs change of the Home, and the Supervisor, are as they were observed.
AsPreviewed(obs) ==
  obs.epoch = serviceEpoch /\ obs.rev[1] = home.rev /\ obs.llm = home.llm

\* A space is created for a plan that was previewed under the revision its job
\* has seen, and in the Home of that preview but for its processes: no job has
\* changed anything since, although the plan observed the Home over several
\* awaits, other jobs ran meanwhile and the job waited for its turn; and the
\* model it binds is there (BLUEPRINT.md 319, 404).  A process that ends, or the
\* manager that comes up, while the application runs is not noticed.
CreatedAsPreviewed ==
  [][\A n \in Name : spaces[n] = None /\ spaces'[n] # None =>
       /\ work.plan.name = n /\ spaces'[n].content = work.plan.content
       /\ work.plan.obs.rev = work.rev /\ AsPreviewed(work.plan.obs)
       /\ ModelAvailable]_blueprintVars

\* The plan that is submitted is that of the form, under the observation it was
\* previewed with, once.  Not claimed of a session that still shows an older
\* preview while a newer one loads or after it failed: that one is submitted
\* (preview 594 makes it valid again).
SubmitsWhatIsShown ==
  [][\A c \in Call : calls[c] = None /\ calls'[c] # None /\ calls'[c].kind = "submit" =>
       /\ \A j \in DOMAIN jobs : jobs[j].plan # calls'[c].plan
       /\ ui.previewStatus = "ready" =>
            \A p \in plans : p.id = calls'[c].plan =>
              /\ p.content = ui.content /\ p.name = ui.name
              /\ p.obs.epoch = calls'[c].obs.epoch]_blueprintVars

\* What the session calls a success is the success of its own application: a
\* later preview is not influenced by an older job's result
\* (tasks/blueprint-implementation.md 92).
SuccessIsOwn ==
  ui.applyStatus = "succeeded" =>
    \E j \in DOMAIN jobs : jobs[j].plan = ui.applyPlan /\ jobs[j].status = "succeeded"

-----------------------------------------------------------------------------
(* What the invariants rest on.                                            *)

\* Plan ids are given out in order; no plan is staged, and no job of one
\* submitted, before its id was given out.
PlansAreIssued ==
  /\ \A p \in plans : p.id <= issued
  /\ \A j \in DOMAIN jobs : jobs[j].plan <= issued

\* A job has consumed nothing before it runs, and has no outcome before it ends; a
\* space is that of a job that named it.
JobsAreRecorded ==
  /\ \A j \in DOMAIN jobs :
       /\ jobs[j].status = "queued" => jobs[j].name = None
       /\ jobs[j].outcome # None => jobs[j].status \in {"succeeded", "failed"}
  /\ \A n \in Name : spaces[n] # None =>
       spaces[n].by \in DOMAIN jobs /\ jobs[spaces[n].by].name = n

\* What an application w that runs has published, and what is in its space s.
Configured(w) == w.pc \in {"policy", "default", "provenance"}
Bound(w) == w.pc = "provenance" /\ w.plan.content \in WithModel
Mark(done) == IF done THEN "succeeded" ELSE "not-run"
Told(w) ==
  LET out == w.out IN
  /\ out # None /\ out.space /\ out.create = "succeeded" /\ out.packages = Mark(w.pc # "package")
  /\ \A i \in 1..Packages : out.package[i] = Mark(i <= w.k)
  /\ out.patch = Mark(Configured(w)) /\ out.settings = Mark(Configured(w))
  /\ out.model = Mark(Bound(w)) /\ out.presets = "not-run" /\ out.provenance = "not-run"
Done(w, s) ==
  /\ s # None /\ s.by = w.job /\ s.content = w.plan.content /\ s.installed = 1..w.k
  /\ s.patch <=> Configured(w)
  /\ s.settings <=> Configured(w)
  /\ s.policy <=> w.pc = "default" \/ Bound(w)
  /\ s.default <=> Bound(w)
  /\ ~s.provenance

\* The running application: what it has seen of the Home holds, but for the
\* processes, until the space is there, and so does the plan it consumed; from then
\* on the record and the space go together step by step.
WorkIsTold ==
  work.pc # "idle" =>
    /\ work.job \in DOMAIN jobs /\ jobs[work.job].status = "running"
    /\ work.pc \in {"look", "observe"} => jobs[work.job].name = None
    /\ work.pc \notin {"look", "observe"} =>
         /\ work.plan # None
         /\ jobs[work.job].name = work.plan.name /\ jobs[work.job].content = work.plan.content
    /\ work.pc \in {"look", "observe", "check", "create"} =>
         /\ work.out = EmptyOutcome /\ work.k = 0
         /\ \A n \in Name : spaces[n] # None => spaces[n].by # work.job
    /\ work.pc = "observe" => work.rev[1] = home.rev
    /\ work.pc \in {"check", "create"} =>
         work.plan.obs.rev = work.rev /\ AsPreviewed(work.plan.obs)
    /\ work.pc = "create" => ModelAvailable
    /\ work.pc \in Writing =>
         /\ Told(work) /\ Done(work, spaces[work.plan.name])
         /\ work.pc # "package" => work.k = Packages
         /\ work.pc \in {"policy", "default"} => work.plan.content \in WithModel

\* A request is of its kind.
CallIsSound(c) ==
  /\ calls[c].stage = "sent" => calls[c].res = Refusal
  /\ calls[c].kind = "inspect" => calls[c].content \in Content
  /\ calls[c].kind = "preview" =>
       /\ calls[c].content \in Content /\ calls[c].name \in Name
       /\ calls[c].stage = "answered" => calls[c].res.type # "job"
       /\ calls[c].res.type # "error" => calls[c].res.obs \in Saw
       /\ calls[c].res.type = "noplan" => calls[c].res.plan = None
  /\ calls[c].kind = "submit" =>
       /\ calls[c].stage \in {"sent", "answered"}
       /\ calls[c].plan \in 1..issued /\ calls[c].obs \in Saw
       /\ calls[c].res.type = "job" => calls[c].res.plan \in DOMAIN jobs
  /\ calls[c].stage \in {"gate", "capture"} =>
       /\ calls[c].kind = "preview" /\ calls[c].res.plan = None
       /\ calls[c].res.obs \in Saw /\ calls[c].res.obs.epoch = serviceEpoch

CallsAreSound == \A c \in Call : calls[c] # None => CallIsSound(c)

WasSubmitted(plan) ==
  \/ \E j \in DOMAIN jobs : jobs[j].plan = plan
  \/ \E c \in Call : calls[c] # None /\ calls[c].kind = "submit" /\ calls[c].plan = plan
Offers(c) ==
  /\ calls[c] # None /\ calls[c].kind = "preview" /\ calls[c].stage = "answered"
  /\ calls[c].res.type = "plan"
IsOf(p, content, name, obs) == p.content = content /\ p.name = name /\ p.obs.epoch = obs.epoch

\* The answer to a preview brings a plan nobody has seen yet, and tells of it what
\* was staged.
AnswersAreNew ==
  \A c \in Call : Offers(c) =>
    /\ calls[c].res.plan \in 1..issued /\ ~WasSubmitted(calls[c].res.plan)
    /\ \A d \in Call : Offers(d) /\ calls[d].res.plan = calls[c].res.plan => d = c
    /\ ui.preview # None => ui.preview.plan # calls[c].res.plan
    /\ \A p \in plans : p.id = calls[c].res.plan =>
         IsOf(p, calls[c].content, calls[c].name, calls[c].res.obs)

\* So does the preview that is shown, and the session knows when it has submitted it.
ShownIsKnown ==
  ui.preview # None /\ ui.preview.plan # None =>
    /\ ui.preview.plan \in 1..issued
    /\ WasSubmitted(ui.preview.plan) => Submitted(ui)
    /\ \A p \in plans : p.id = ui.preview.plan =>
         IsOf(p, ui.preview.content, ui.preview.name, ui.preview.obs)

\* The inductive invariant.
BlueprintIInv ==
  /\ BlueprintInv /\ OutcomeIsHonest
  /\ PlansAreIssued /\ JobsAreRecorded /\ WorkIsTold
  /\ CallsAreSound /\ AnswersAreNew /\ ShownIsKnown
===============================================================================
