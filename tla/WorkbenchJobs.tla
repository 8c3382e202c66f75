---------------------------- MODULE WorkbenchJobs ----------------------------
(***************************************************************************)
(* WorkbenchJobStore (src/adapters/node/workbench-jobs.ts): the persistent *)
(* records of the management jobs and the single serial tail on which jobs *)
(* and direct mutations (runExclusive, runAdmitted) run.                   *)
(*                                                                         *)
(* JavaScript runs one turn at a time: an action is one synchronous turn,  *)
(* with the file writes in it.  Every write may fail (atomicWrite throws   *)
(* and the file keeps its old contents) and the process may die between    *)
(* any two turns.  A record is its status and its canCancel flag; phases,  *)
(* messages, results and timestamps travel with it and are left out.       *)
(***************************************************************************)
EXTENDS Naturals, Sequences

CONSTANTS
  Request,   \* request ids (a request id is the id of its job)
  Direct,    \* calls of runExclusive and runAdmitted, each made once
  External,  \* the caller of a direct call that runs in no callback
  MaxBoots   \* bound: how often the service is started

ASSUME TaskAssumption == Request \cap Direct = {} /\ External \notin Request \cup Direct
ASSUME MaxBootsAssumption == MaxBoots \in Nat

Task == Request \cup Direct

VARIABLES
  up,        \* the store exists in a live process
  records,   \* its records
  disk,      \* jobs/<id>.json
  queue,     \* the tail: the callbacks that have not finished, oldest first
  busy,      \* the callback of Head(queue) is executing
  started,   \* callbacks this process has begun: contexts that can make calls
  signal,    \* the abort signal of the running job has been raised
  host,      \* the callback each direct call was made from
  direct,    \* where each direct call is
  calls,     \* history: how often each handler was called
  acked,     \* history: requests whose submit was answered
  boots

vars == <<up, records, disk, queue, busy, started, signal, host, direct, calls, acked, boots>>
tail == <<queue, busy, started, signal>>
directs == <<host, direct>>

Terminal == {"succeeded", "failed", "cancelled"}
Status == {"absent", "queued", "running"} \cup Terminal
Record == [status : Status \cup {"damaged"}, canCancel : BOOLEAN]

Rec(status) == [status |-> status, canCancel |-> status = "queued"]

Absent  == Rec("absent")
Damaged == Rec("damaged")   \* unreadable: kept as evidence, never written

Init ==
  /\ up = FALSE
  /\ records = [r \in Request |-> Absent]
  /\ disk \in [Request -> {Absent, Damaged}]
  /\ queue = <<>> /\ busy = FALSE /\ started = {} /\ signal = FALSE
  /\ host = [d \in Direct |-> External]
  /\ direct = [d \in Direct |-> "new"]
  /\ calls = [r \in Request |-> 0]
  /\ acked = {} /\ boots = 0

-----------------------------------------------------------------------------
(* Writing a record.  write() mutates the record in memory first; when the  *)
(* file cannot be replaced the record falls back to what was last persisted.*)

Put(r, rec) ==
  /\ records' = [records EXCEPT ![r] = rec]
  /\ disk' = [disk EXCEPT ![r] = rec]

RollBack(r) ==
  /\ records' = [records EXCEPT ![r] = disk[r]]
  /\ UNCHANGED disk

\* markFailed: the failure stands in memory whether or not it can be written.
MarkFailed(r) ==
  /\ records' = [records EXCEPT ![r] = Rec("failed")]
  /\ disk' \in {disk, [disk EXCEPT ![r] = Rec("failed")]}

-----------------------------------------------------------------------------
(* The process. *)

\* loadFromDisk: leftover queued and running jobs become failed and are not
\* replayed; the file may keep its old status when it cannot be written.
Interrupted(rec) == rec.status \in {"queued", "running"}

Loaded(rec) == IF Interrupted(rec) \/ rec = Damaged THEN Rec("failed") ELSE rec

Boot ==
  /\ ~up /\ boots < MaxBoots
  /\ up' = TRUE /\ boots' = boots + 1
  /\ records' = [r \in Request |-> Loaded(disk[r])]
  /\ \E written \in SUBSET {r \in Request : Interrupted(disk[r])} :
       disk' = [r \in Request |-> IF r \in written THEN Rec("failed") ELSE disk[r]]
  /\ UNCHANGED <<tail, directs, calls, acked>>

Crash ==
  /\ up /\ up' = FALSE
  /\ records' = [r \in Request |-> Absent]
  /\ queue' = <<>> /\ busy' = FALSE /\ started' = {} /\ signal' = FALSE
  /\ direct' = [d \in Direct |-> IF direct[d] \in {"waiting", "active"} THEN "lost" ELSE direct[d]]
  /\ UNCHANGED <<disk, host, calls, acked, boots>>

-----------------------------------------------------------------------------
(* Requests of clients. *)

\* (mutant) a failed job may be submitted again under its id.
Known_UnlessFailed(r) == records[r].status \notin {"absent", "failed"}

\* submit of a request id that has a record answers with that record and, if
\* the command differs, with a conflict; neither changes anything.
Known(r) == records[r] # Absent

\* The record is persisted before the job is queued and before the answer,
\* which may still be lost on its way.
Submit(r) ==
  /\ up /\ ~Known(r)
  /\ \/ /\ Put(r, Rec("queued"))
        /\ queue' = Append(queue, r)
        /\ acked' \in {acked, acked \cup {r}}
     \/ /\ RollBack(r)
        /\ UNCHANGED <<queue, acked>>
  /\ UNCHANGED <<up, busy, started, signal, directs, calls, boots>>

\* The client asks again after its answer was lost.
Resubmit(r) ==
  /\ up /\ Known(r) /\ r \notin acked /\ disk[r] # Damaged
  /\ acked' = acked \cup {r}
  /\ UNCHANGED <<up, records, disk, tail, directs, calls, boots>>

\* abandonQueued: cancelled in memory even if that cannot be written.
CancelQueued(r) ==
  /\ up /\ records[r].status = "queued"
  /\ records' = [records EXCEPT ![r] = Rec("cancelled")]
  /\ disk' \in {disk, [disk EXCEPT ![r] = Rec("cancelled")]}
  /\ UNCHANGED <<up, tail, directs, calls, acked, boots>>

Cancellable(r) == records[r].status = "running" /\ records[r].canCancel

CancelRunning(r) ==
  /\ up /\ Cancellable(r)
  /\ \/ Put(r, Rec("running")) /\ signal' = TRUE
     \/ RollBack(r) /\ UNCHANGED signal
  /\ UNCHANGED <<up, queue, busy, started, directs, calls, acked, boots>>

-----------------------------------------------------------------------------
(* The tail. *)

Running(t) == busy /\ queue # <<>> /\ Head(queue) = t

NextUp(t) == up /\ ~busy /\ queue # <<>> /\ Head(queue) = t

Finish ==
  /\ queue' = Tail(queue) /\ busy' = FALSE /\ signal' = FALSE

\* (mutant) a cancelled job is never taken off the tail.
Skip_Stays(r) ==
  /\ NextUp(r) /\ records[r].status # "queued"
  /\ UNCHANGED vars

\* run(): a job cancelled meanwhile is passed over.
Skip(r) ==
  /\ NextUp(r) /\ records[r].status # "queued"
  /\ Finish
  /\ UNCHANGED <<up, records, disk, started, directs, calls, acked, boots>>

\* (mutant) the handler is called whether or not "running" was persisted.
Begin_Anyway(r) ==
  /\ NextUp(r) /\ records[r].status = "queued"
  /\ records' = [records EXCEPT ![r] = Rec("running")]
  /\ disk' \in {disk, [disk EXCEPT ![r] = Rec("running")]}
  /\ busy' = TRUE /\ started' = started \cup {r}
  /\ calls' = [calls EXCEPT ![r] = @ + 1]
  /\ UNCHANGED <<up, queue, signal, directs, acked, boots>>

Begin(r) ==
  /\ NextUp(r) /\ records[r].status = "queued"
  /\ Put(r, Rec("running"))
  /\ busy' = TRUE /\ started' = started \cup {r}
  /\ calls' = [calls EXCEPT ![r] = @ + 1]
  /\ UNCHANGED <<up, queue, signal, directs, acked, boots>>

\* "running" could not be persisted: the handler is not called.
BeginFails(r) ==
  /\ NextUp(r) /\ records[r].status = "queued"
  /\ MarkFailed(r)
  /\ Finish
  /\ UNCHANGED <<up, started, directs, calls, acked, boots>>

\* The handler reports a phase, a message or whether it can be cancelled; a
\* report that cannot be persisted is undone and thrown into the handler.
Report(r, c) ==
  /\ up /\ Running(r)
  /\ \/ Put(r, [status |-> "running", canCancel |-> c])
     \/ RollBack(r)
  /\ UNCHANGED <<up, tail, directs, calls, acked, boots>>

\* A handler awaits the admitted calls it makes (dispatchLlmAdmitted).
Awaited(t) == \E d \in Direct : host[d] = t /\ direct[d] \in {"waiting", "active"}

\* The handler returned, threw, or threw an abort that had been asked for.
Outcomes == {"succeeded", "failed"} \cup (IF signal THEN {"cancelled"} ELSE {})

\* (mutant) a failed write of the outcome leaves it in memory.
Settle_InMemory(r, outcome) ==
  /\ up /\ Running(r) /\ ~Awaited(r)
  /\ outcome \in Outcomes
  /\ records' = [records EXCEPT ![r] = Rec(outcome)]
  /\ disk' \in {disk, [disk EXCEPT ![r] = Rec(outcome)]}
  /\ Finish
  /\ UNCHANGED <<up, started, directs, calls, acked, boots>>

Settle(r, outcome) ==
  /\ up /\ Running(r) /\ ~Awaited(r)
  /\ outcome \in Outcomes
  /\ Put(r, Rec(outcome)) \/ MarkFailed(r)
  /\ Finish
  /\ UNCHANGED <<up, started, directs, calls, acked, boots>>

-----------------------------------------------------------------------------
(* Direct mutations. *)

\* (mutant) the token stays active after its callback returned.
\* The admission token of callback t, inherited by everything it started.
TokenActive(t) == Running(t)

Enqueue(d) ==
  /\ queue' = Append(queue, d)
  /\ direct' = [direct EXCEPT ![d] = "waiting"]

RunExclusive(d) ==
  /\ up /\ direct[d] = "new"
  /\ Enqueue(d)
  /\ UNCHANGED <<up, records, disk, busy, started, signal, host, calls, acked, boots>>

\* runAdmitted from callback t, still executing or long finished: inline only
\* while its token is active.
RunAdmitted(d, t) ==
  /\ up /\ direct[d] = "new" /\ t \in started
  /\ host' = [host EXCEPT ![d] = t]
  /\ IF TokenActive(t)
     THEN direct' = [direct EXCEPT ![d] = "active"] /\ UNCHANGED queue
     ELSE Enqueue(d)
  /\ UNCHANGED <<up, records, disk, busy, started, signal, calls, acked, boots>>

BeginDirect(d) ==
  /\ NextUp(d)
  /\ busy' = TRUE /\ started' = started \cup {d}
  /\ direct' = [direct EXCEPT ![d] = "active"]
  /\ UNCHANGED <<up, records, disk, queue, signal, host, calls, acked, boots>>

FinishDirect(d) ==
  /\ up /\ direct[d] = "active" /\ ~Awaited(d)
  /\ direct' = [direct EXCEPT ![d] = "done"]
  /\ IF Running(d) THEN Finish ELSE UNCHANGED <<queue, busy, signal>>
  /\ UNCHANGED <<up, records, disk, started, host, calls, acked, boots>>

-----------------------------------------------------------------------------
Next ==
  \/ Boot \/ Crash
  \/ \E r \in Request :
       \/ Submit(r) \/ Resubmit(r) \/ CancelQueued(r) \/ CancelRunning(r)
       \/ Skip(r) \/ Begin(r) \/ BeginFails(r)
       \/ \E c \in BOOLEAN : Report(r, c)
       \/ \E outcome \in Terminal : Settle(r, outcome)
  \/ \E d \in Direct :
       \/ RunExclusive(d) \/ BeginDirect(d) \/ FinishDirect(d)
       \/ \E t \in Task : RunAdmitted(d, t)

Spec == Init /\ [][Next]_vars

(* The event loop calls the next callback, and handlers return or throw.    *)
FairSpec ==
  /\ Spec
  /\ \A r \in Request : /\ WF_vars(Skip(r) \/ Begin(r) \/ BeginFails(r))
                        /\ WF_vars(\E outcome \in Terminal : Settle(r, outcome))
  /\ \A d \in Direct : WF_vars(BeginDirect(d)) /\ WF_vars(FinishDirect(d))

-----------------------------------------------------------------------------
(* Properties. *)

TypeOK ==
  /\ up \in BOOLEAN /\ busy \in BOOLEAN /\ signal \in BOOLEAN
  /\ records \in [Request -> Record]
  /\ disk \in [Request -> Record]
  /\ queue \in Seq(Task)
  /\ started \in SUBSET Task
  /\ host \in [Direct -> Task \cup {External}]
  /\ direct \in [Direct -> {"new", "waiting", "active", "done", "lost"}]
  /\ calls \in [Request -> Nat]
  /\ acked \in SUBSET Request
  /\ boots \in Nat

\* A job never shows success that a restart would take back: whatever writes
\* fail on the way, succeeded in memory is succeeded on disk.
SuccessIsDurable ==
  \A r \in Request : records[r].status = "succeeded" => disk[r].status = "succeeded"

\* While a handler is at work its file says running, so that a crash in the
\* middle of it is reported as an interruption and never taken for a job that
\* had not begun.
RunningIsDurable ==
  \A r \in Request : Running(r) => disk[r].status = "running"

\* A request the client was told about is still known after any number of
\* failed writes and restarts.
AcknowledgedIsKnown ==
  \A r \in acked : up => Known(r)

\* Callbacks run alone: a mutation that executes is either the head of the
\* tail or was called by it, also when it comes from a descendant of a
\* callback that has long returned.
Alone ==
  \A d \in Direct : direct[d] = "active" => busy /\ Head(queue) \in {d, host[d]}

\* The state invariant: what is shown of a job agrees with its file, and one
\* mutation runs at a time.
Inv == TypeOK /\ SuccessIsDurable /\ RunningIsDurable /\ AcknowledgedIsKnown /\ Alone

-----------------------------------------------------------------------------
(* The inductive invariant: what the parts of Inv rest on. *)

\* Memory dies with the process.
Closed ==
  ~up => /\ \A r \in Request : records[r] = Absent
         /\ queue = <<>> /\ ~busy

\* A record and its file differ in one way only: memory holds a failure or a
\* cancellation that could not be written.
Unwritten(r) ==
  /\ records[r].status \in {"failed", "cancelled"}
  /\ disk[r].status \in {"queued", "running", "damaged"}
Agree == up => \A r \in Request : records[r] = disk[r] \/ Unwritten(r)

\* The job at the head of a busy tail is a running one.
AtWork ==
  busy => /\ queue # <<>>
          /\ Head(queue) \in Request => records[Head(queue)].status = "running"

\* Only what is on disk was acknowledged.
Accounted == \A r \in acked : disk[r] # Absent

\* No handler was called for a request whose file does not say so.
Uncalled == \A r \in Request : disk[r].status \in {"absent", "queued", "damaged"} => calls[r] = 0

\* The inductive invariant.
IInv == Inv /\ Closed /\ Agree /\ AtWork /\ Accounted /\ Uncalled

-----------------------------------------------------------------------------
\* An outcome is final: on disk for ever, in memory for as long as the
\* process lives; and what cannot be cancelled is not cancelled.
OutcomesAreFinal ==
  [][ \A r \in Request :
        /\ disk[r].status \in Terminal \cup {"damaged"} => disk'[r] = disk[r]
        /\ up /\ up' /\ records[r].status \in Terminal => records'[r] = records[r]
        /\ Running(r) /\ ~signal => records'[r].status # "cancelled" ]_vars

\* The durable status of each request.
Durable == [r \in Request |-> disk[r].status]

\* The files implement the ledger: handlers run at most once in the life of
\* the Home, only after the request was persisted.
Ledger == INSTANCE JobLedger WITH ledger <- Durable, calls <- calls
ImplementsLedger == Ledger!Spec

\* No write failure, cancellation or nesting wedges the tail: a queued job
\* and a waiting mutation come to their end unless the process dies.
JobsSettle ==
  \A r \in Request : (up /\ records[r].status \in {"queued", "running"})
                       ~> (~up \/ records[r].status \in Terminal)
DirectsSettle ==
  \A d \in Direct : direct[d] \in {"waiting", "active"} ~> direct[d] \in {"done", "lost"}

\* Both: the serial tail drains.
TailDrains == JobsSettle /\ DirectsSettle
=============================================================================
