------------------------- MODULE WorkbenchJobsProofs -------------------------
(***************************************************************************)
(* Proofs about WorkbenchJobs for every set of requests and direct calls   *)
(* and every number of restarts.  They rest on the inductive invariant     *)
(* IInv: memory and file of a record differ only by an ending that could   *)
(* not be written, and a busy tail has a running job at its head.          *)
(***************************************************************************)
EXTENDS WorkbenchJobs, SequenceTheorems, TLAPS

\* What the tail keeps when a callback is appended to it.
LEMMA TailFacts ==
  ASSUME NEW q \in Seq(Task), NEW t \in Task
  PROVE  /\ Append(q, t) \in Seq(Task) /\ Append(q, t) # <<>>
         /\ q # <<>> => /\ Head(Append(q, t)) = Head(q)
                        /\ Head(q) \in Task /\ Tail(q) \in Seq(Task)
  BY AppendProperties, HeadTailAppend, HeadTailProperties

\* The records made from a status differ as the statuses do.
LEMMA RecIsRecord ==
  /\ \A s : Rec(s).status = s
  /\ \A s \in Status : Rec(s) \in Record
  /\ Rec("queued") \in Record /\ Rec("running") \in Record /\ Rec("failed") \in Record
  /\ Rec("cancelled") \in Record /\ Rec("succeeded") \in Record
  /\ Absent \in Record /\ Absent.status = "absent" /\ Absent = Rec("absent")
  /\ Damaged \in Record /\ Damaged.status = "damaged"
  BY DEF Rec, Record, Status, Terminal, Absent, Damaged

\* Requests and direct calls are different tasks.
LEMMA TasksDiffer ==
  /\ Request \subseteq Task /\ Direct \subseteq Task
  /\ \A r \in Request : r \notin Direct
  /\ \A t \in Task : t \in Request \/ t \in Direct
  BY TaskAssumption DEF Task

\* A write of one record leaves the others alone.
Others(r) ==
  \A q \in Request : q # r => records'[q] = records[q] /\ disk'[q] = disk[q]

\* Writing a record keeps the types of the records and the files.
LEMMA WriteTypes ==
  ASSUME TypeOK, NEW r \in Request, NEW rec \in Record,
         Put(r, rec) \/ RollBack(r) \/ MarkFailed(r) \/ CancelQueued(r)
  PROVE  records' \in [Request -> Record] /\ disk' \in [Request -> Record]
  BY RecIsRecord, ZenonT(60) DEF TypeOK, Put, RollBack, MarkFailed, CancelQueued

-----------------------------------------------------------------------------
(* Types. *)

\* Every step keeps the types.
LEMMA TypePreserved == ASSUME TypeOK, [Next]_vars PROVE TypeOK'
<1> USE RecIsRecord, TasksDiffer DEF TypeOK, tail, directs
<1>1. ASSUME Boot PROVE TypeOK'
  <2>1. records' \in [Request -> Record]  BY <1>1 DEF Boot, Loaded, Status, Terminal
  <2>2. disk' \in [Request -> Record]  BY <1>1 DEF Boot, Status, Terminal
  <2> QED BY <1>1, <2>1, <2>2 DEF Boot
<1>2. ASSUME Crash PROVE TypeOK'
  <2>1. direct' \in [Direct -> {"new", "waiting", "active", "done", "lost"}]
    BY <1>2 DEF Crash
  <2> QED BY <1>2, <2>1, EmptySeq DEF Crash
<1>3. ASSUME NEW r \in Request, Submit(r) PROVE TypeOK'
  <2>1. queue' \in Seq(Task)  BY <1>3, TailFacts DEF Submit
  <2>2. acked' \in SUBSET Request  BY <1>3 DEF Submit
  <2>3. records' \in [Request -> Record] /\ disk' \in [Request -> Record]
    BY <1>3, WriteTypes DEF Submit
  <2> QED BY <1>3, <2>1, <2>2, <2>3 DEF Submit
<1>4. ASSUME NEW r \in Request, Resubmit(r) \/ CancelQueued(r) \/ CancelRunning(r) PROVE TypeOK'
  <2>1. records' \in [Request -> Record] /\ disk' \in [Request -> Record]
    BY <1>4, WriteTypes DEF CancelRunning, Resubmit
  <2>2. CASE Resubmit(r)  BY <2>1, <2>2 DEF Resubmit
  <2>3. CASE CancelQueued(r)  BY <2>1, <2>3 DEF CancelQueued
  <2>4. CASE CancelRunning(r)  BY <2>1, <2>4 DEF CancelRunning
  <2> QED BY <1>4, <2>2, <2>3, <2>4
<1>5. ASSUME NEW r \in Request, Skip(r) \/ BeginFails(r) PROVE TypeOK'
  <2>1. queue' \in Seq(Task)  BY <1>5, TailFacts DEF Skip, BeginFails, Finish, NextUp
  <2>2. records' \in [Request -> Record] /\ disk' \in [Request -> Record]
    BY <1>5, WriteTypes DEF Skip, BeginFails
  <2> QED BY <1>5, <2>1, <2>2 DEF Skip, BeginFails, Finish
<1>6. ASSUME NEW r \in Request, Begin(r) PROVE TypeOK'
  <2>1. records' \in [Request -> Record] /\ disk' \in [Request -> Record]
    BY <1>6, WriteTypes DEF Begin
  <2>2. calls' \in [Request -> Nat]  BY <1>6 DEF Begin
  <2>3. started' \in SUBSET Task  BY <1>6 DEF Begin
  <2> QED BY <1>6, <2>1, <2>2, <2>3 DEF Begin
<1>7. ASSUME NEW r \in Request, NEW c \in BOOLEAN, Report(r, c) PROVE TypeOK'
  <2>1. [status |-> "running", canCancel |-> c] \in Record  BY DEF Record, Status
  <2>2. records' \in [Request -> Record] /\ disk' \in [Request -> Record]
    BY <1>7, <2>1, WriteTypes DEF Report
  <2> QED BY <1>7, <2>2 DEF Report
<1>8. ASSUME NEW r \in Request, NEW outcome \in Terminal, Settle(r, outcome) PROVE TypeOK'
  <2>1. queue' \in Seq(Task)  BY <1>8, TailFacts DEF Settle, Finish, Running
  <2>2. Rec(outcome) \in Record  BY DEF Status
  <2>3. records' \in [Request -> Record] /\ disk' \in [Request -> Record]
    BY <1>8, <2>2, WriteTypes DEF Settle
  <2> QED BY <1>8, <2>1, <2>3 DEF Settle, Finish
<1>9. ASSUME NEW d \in Direct, RunExclusive(d) PROVE TypeOK'
  BY <1>9, TailFacts DEF RunExclusive, Enqueue
<1>10. ASSUME NEW d \in Direct, NEW t \in Task, RunAdmitted(d, t) PROVE TypeOK'
  <2>1. queue' = queue \/ queue' = Append(queue, d)  BY <1>10 DEF RunAdmitted, Enqueue
  <2>3. queue' \in Seq(Task)  BY <2>1, TailFacts
  <2>2. direct' \in [Direct -> {"new", "waiting", "active", "done", "lost"}]
    BY <1>10 DEF RunAdmitted, Enqueue
  <2> QED BY <1>10, <2>2, <2>3 DEF RunAdmitted
<1>11. ASSUME NEW d \in Direct, BeginDirect(d) PROVE TypeOK'  BY <1>11 DEF BeginDirect
<1>12. ASSUME NEW d \in Direct, FinishDirect(d) PROVE TypeOK'
  <2>1. queue' \in Seq(Task)  BY <1>12, TailFacts DEF FinishDirect, Finish, Running
  <2> QED BY <1>12, <2>1 DEF FinishDirect, Finish
<1>13. CASE UNCHANGED vars  BY <1>13 DEF vars
<1> QED BY <1>1, <1>2, <1>3, <1>4, <1>5, <1>6, <1>7, <1>8, <1>9, <1>10, <1>11, <1>12, <1>13 DEF Next

-----------------------------------------------------------------------------
(* The inductive invariant. *)

\* What is proved beside the types; the rest of Inv follows from it.
Strong == Closed /\ Agree /\ AtWork /\ Accounted /\ Uncalled /\ Alone

LEMMA StrongImplies ==
  ASSUME TypeOK, Strong
  PROVE  SuccessIsDurable /\ RunningIsDurable /\ AcknowledgedIsKnown
<1> USE RecIsRecord DEF TypeOK, Strong
<1>1. SuccessIsDurable
  BY DEF SuccessIsDurable, Closed, Agree, Unwritten
<1>2. RunningIsDurable
  BY DEF RunningIsDurable, Running, Closed, Agree, Unwritten, AtWork
<1>3. AcknowledgedIsKnown
  BY DEF AcknowledgedIsKnown, Known, Agree, Unwritten, Accounted
<1> QED BY <1>1, <1>2, <1>3

\* The start and the end of the process.
LEMMA ProcessPreserves ==
  ASSUME TypeOK, TypeOK', Strong, Boot \/ Crash
  PROVE  Strong'
<1> USE RecIsRecord, TasksDiffer DEF TypeOK, Strong, Closed, Agree, Unwritten, AtWork,
        Accounted, Uncalled, Others, tail, directs
<1>1. ASSUME Boot PROVE Strong'
  <2>1. \A q \in Request :
           /\ records'[q] = Loaded(disk[q])
           /\ disk'[q] = disk[q] \/ (Interrupted(disk[q]) /\ disk'[q] = Rec("failed"))
    BY <1>1 DEF Boot
  <2>2. UNCHANGED <<tail, directs, calls, acked>> /\ ~up /\ up'
    BY <1>1 DEF Boot
  <2>3. Closed'  BY <2>1, <2>2
  <2>4. Agree'
    <3> SUFFICES ASSUME NEW q \in Request PROVE records'[q] = disk'[q] \/ Unwritten(q)'
      OBVIOUS
    <3> HIDE DEF TypeOK, Strong, Closed, Agree, AtWork, Accounted, Uncalled
    <3>1. CASE Interrupted(disk[q])  BY <2>1, <3>1 DEF Loaded, Interrupted
    <3>2. CASE disk[q] = Damaged  BY <2>1, <3>2 DEF Loaded, Interrupted
    <3>3. CASE ~Interrupted(disk[q]) /\ disk[q] # Damaged  BY <2>1, <3>3 DEF Loaded
    <3> QED BY <3>1, <3>2, <3>3
  <2>5. AtWork'  BY <2>1, <2>2
  <2>6. Accounted'  BY <2>1, <2>2 DEF Interrupted
  <2>7. Uncalled'  BY <2>1, <2>2, SMTT(60) DEF Interrupted
  <2>8. Alone'  BY <2>1, <2>2 DEF Alone, Awaited
  <2> QED BY <2>3, <2>4, <2>5, <2>6, <2>7, <2>8
<1>2. ASSUME Crash PROVE Strong'
  <2>1. Closed'  BY <1>2 DEF Crash
  <2>2. Agree'  BY <1>2 DEF Crash
  <2>3. AtWork'  BY <1>2 DEF Crash
  <2>4. Accounted'  BY <1>2 DEF Crash
  <2>5. Uncalled'  BY <1>2 DEF Crash
  <2>6. Alone'  BY <1>2 DEF Crash, Alone, Awaited
  <2> QED BY <2>1, <2>2, <2>3, <2>4, <2>5, <2>6
<1> QED BY <1>1, <1>2

\* The requests of clients.
LEMMA ClientPreserves ==
  ASSUME TypeOK, TypeOK', Strong, NEW r \in Request,
         Submit(r) \/ Resubmit(r) \/ CancelQueued(r) \/ CancelRunning(r)
  PROVE  Strong'
<1> USE RecIsRecord, TasksDiffer DEF TypeOK, Strong, Closed, Agree, Unwritten, AtWork,
        Accounted, Uncalled, Others, tail, directs
<1>1. ASSUME Submit(r) PROVE Strong'
  <2>1. UNCHANGED <<up, busy, calls, directs>> /\ up /\ records[r] = Absent
    BY <1>1 DEF Submit, Known
  <2>2. Others(r)
    BY <1>1 DEF Submit, Put, RollBack
  <2>3. \/ /\ records'[r] = Rec("queued") /\ disk'[r] = Rec("queued")
           /\ queue' = Append(queue, r) /\ acked' \in {acked, acked \cup {r}}
        \/ UNCHANGED <<queue, acked>> /\ records'[r] = disk[r] /\ disk'[r] = disk[r]
    BY <1>1 DEF Submit, Put, RollBack
  <2>4. disk[r] = Absent
    BY <2>1
  <2>5. \/ queue' # <<>> /\ (queue # <<>> => Head(queue') = Head(queue))
        \/ queue' = queue
    BY <1>1, TailFacts DEF Submit
  <2>6. \A q \in acked' : (disk'[q] # Absent /\ q = r) \/ (q \in acked /\ q # r)
    BY <2>3, <2>4
  <2>7. calls[r] = 0 /\ calls' = calls
    BY <2>1, <2>4
  <2>8. Closed'  BY <2>1
  <2>9. Agree'  BY <2>1, <2>2, <2>3, SMTT(30)
  <2>10. AtWork'  BY <2>1, <2>2, <2>3, <2>5, ZenonT(60)
  <2>11. Accounted'  BY <2>2, <2>6
  <2>12. Uncalled'  BY <2>1, <2>2, <2>7, SMTT(30)
  <2>13. Alone'  BY <2>1, <2>5 DEF Alone, Awaited
  <2> QED BY <2>8, <2>9, <2>10, <2>11, <2>12, <2>13
<1>2. ASSUME Resubmit(r) PROVE Strong'
  <2>1. Closed'  BY <1>2 DEF Resubmit, Known
  <2>2. Agree'  BY <1>2 DEF Resubmit, Known
  <2>3. AtWork'  BY <1>2 DEF Resubmit, Known
  <2>4. Accounted'  BY <1>2, ZenonT(60) DEF Resubmit, Known
  <2>5. Uncalled'  BY <1>2 DEF Resubmit, Known
  <2>6. Alone'  BY <1>2 DEF Resubmit, Known, Alone, Awaited
  <2> QED BY <2>1, <2>2, <2>3, <2>4, <2>5, <2>6
<1>3. ASSUME CancelQueued(r) PROVE Strong'
  <2>1. UNCHANGED <<up, tail, directs, calls, acked>> /\ up /\ records[r].status = "queued"
    BY <1>3 DEF CancelQueued
  <2>2. /\ Others(r) /\ records'[r] = Rec("cancelled")
        /\ disk'[r] \in {disk[r], Rec("cancelled")}
    BY <1>3 DEF CancelQueued
  <2>3. disk[r] = records[r]
    BY <2>1
  <2>4. Closed'  BY <2>1, <2>2, <2>3
  <2>5. Agree'  BY <2>1, <2>2, <2>3, SMTT(30)
  <2>6. AtWork'  BY <2>1, <2>2, <2>3
  <2>7. Accounted'  BY <2>1, <2>2, <2>3
  <2>8. Uncalled'  BY <2>1, <2>2, <2>3, ZenonT(60)
  <2>9. Alone'  BY <2>1, <2>2, <2>3 DEF Alone, Awaited
  <2> QED BY <2>4, <2>5, <2>6, <2>7, <2>8, <2>9
<1>4. ASSUME CancelRunning(r) PROVE Strong'
  <2>1. UNCHANGED <<up, queue, busy, directs, calls, acked>> /\ up /\ records[r].status = "running"
    BY <1>4 DEF CancelRunning, Cancellable
  <2>2. /\ Others(r) /\ records'[r] = disk'[r]
        /\ disk'[r] \in {disk[r], Rec("running")}
    BY <1>4 DEF CancelRunning, Put, RollBack
  <2>3. disk[r] = records[r]
    BY <2>1
  <2>4. Closed'  BY <2>1, <2>2, <2>3
  <2>5. Agree'  BY <2>1, <2>2, <2>3
  <2>6. AtWork'  BY <2>1, <2>2, <2>3
  <2>7. Accounted'  BY <2>1, <2>2, <2>3
  <2>8. Uncalled'  BY <2>1, <2>2, <2>3
  <2>9. Alone'  BY <2>1, <2>2, <2>3 DEF Alone, Awaited
  <2> QED BY <2>4, <2>5, <2>6, <2>7, <2>8, <2>9
<1> QED BY <1>1, <1>2, <1>3, <1>4

\* The turns of a job on the tail.
LEMMA JobPreserves ==
  ASSUME TypeOK, TypeOK', Strong, NEW r \in Request,
         \/ Skip(r) \/ Begin(r) \/ BeginFails(r)
         \/ \E c \in BOOLEAN : Report(r, c)
         \/ \E outcome \in Terminal : Settle(r, outcome)
  PROVE  Strong'
<1> USE RecIsRecord, TasksDiffer DEF TypeOK, Strong, Closed, Agree, Unwritten, AtWork,
        Accounted, Uncalled, Others, tail, directs
<1>1. ASSUME Skip(r) PROVE Strong'
  <2>1. Closed'  BY <1>1 DEF Skip, Finish, NextUp
  <2>2. Agree'  BY <1>1 DEF Skip, Finish, NextUp
  <2>3. AtWork'  BY <1>1 DEF Skip, Finish, NextUp
  <2>4. Accounted'  BY <1>1 DEF Skip, Finish, NextUp
  <2>5. Uncalled'  BY <1>1 DEF Skip, Finish, NextUp
  <2>6. Alone'  BY <1>1 DEF Skip, Finish, NextUp, Alone, Awaited
  <2> QED BY <2>1, <2>2, <2>3, <2>4, <2>5, <2>6
<1>2. ASSUME Begin(r) PROVE Strong'
  <2>1. /\ UNCHANGED <<up, queue, directs, acked>> /\ up /\ ~busy /\ busy'
        /\ records[r].status = "queued" /\ queue # <<>> /\ Head(queue) = r
    BY <1>2 DEF Begin, NextUp
  <2>2. Others(r) /\ records'[r] = Rec("running") /\ disk'[r] = Rec("running")
    BY <1>2 DEF Begin, Put
  <2>3. \A q \in Request : q # r => calls'[q] = calls[q]
    BY <1>2 DEF Begin
  <2>4. Closed'  BY <2>1, <2>2, <2>3
  <2>5. Agree'  BY <2>1, <2>2, <2>3
  <2>6. AtWork'  BY <2>1, <2>2, <2>3
  <2>7. Accounted'  BY <2>1, <2>2, <2>3
  <2>8. Uncalled'  BY <2>1, <2>2, <2>3
  <2>9. Alone'  BY <2>1, <2>2, <2>3 DEF Alone, Awaited
  <2> QED BY <2>4, <2>5, <2>6, <2>7, <2>8, <2>9
<1>3. ASSUME BeginFails(r) PROVE Strong'
  <2>1. /\ UNCHANGED <<up, directs, calls, acked>> /\ up /\ ~busy /\ ~busy'
         /\ records[r].status = "queued"
    BY <1>3 DEF BeginFails, NextUp, Finish
  <2>2. /\ Others(r) /\ records'[r] = Rec("failed")
        /\ disk'[r] \in {disk[r], Rec("failed")}
    BY <1>3 DEF BeginFails, MarkFailed
  <2>3. disk[r] = records[r]
    BY <2>1
  <2>4. Closed'  BY <2>1, <2>2, <2>3
  <2>5. Agree'  BY <2>1, <2>2, <2>3, SMTT(30)
  <2>6. AtWork'  BY <2>1, <2>2, <2>3
  <2>7. Accounted'  BY <2>1, <2>2, <2>3
  <2>8. Uncalled'  BY <2>1, <2>2, <2>3
  <2>9. Alone'  BY <2>1, <2>2, <2>3 DEF Alone, Awaited
  <2> QED BY <2>4, <2>5, <2>6, <2>7, <2>8, <2>9
<1>4. ASSUME NEW c \in BOOLEAN, Report(r, c) PROVE Strong'
  <2>1. /\ UNCHANGED <<up, queue, busy, directs, calls, acked>> /\ up
        /\ records[r].status = "running"
    BY <1>4 DEF Report, Running
  <2>2. /\ Others(r) /\ records'[r] = disk'[r]
        /\ disk'[r] = disk[r] \/ disk'[r] = [status |-> "running", canCancel |-> c]
    BY <1>4 DEF Report, Put, RollBack
  <2>3. disk[r] = records[r]
    BY <2>1
  <2>4. disk'[r].status = "running"
    BY <2>1, <2>2, <2>3
  <2>5. Closed'  BY <2>1, <2>2, <2>3, <2>4
  <2>6. Agree'  BY <2>1, <2>2, <2>3, <2>4
  <2>7. AtWork'  BY <2>1, <2>2, <2>3, <2>4
  <2>8. Accounted'  BY <2>1, <2>2, <2>3, <2>4
  <2>9. Uncalled'  BY <2>1, <2>2, <2>3, <2>4
  <2>10. Alone'  BY <2>1, <2>2, <2>3, <2>4 DEF Alone, Awaited
  <2> QED BY <2>5, <2>6, <2>7, <2>8, <2>9, <2>10
<1>5. ASSUME NEW outcome \in Terminal, Settle(r, outcome) PROVE Strong'
  <2>1. /\ UNCHANGED <<up, directs, calls, acked>> /\ up /\ busy /\ ~busy'
        /\ records[r].status = "running" /\ Head(queue) = r /\ ~Awaited(r)
    BY <1>5 DEF Settle, Running, Finish
  <2>2. Others(r)
    BY <1>5 DEF Settle, Put, MarkFailed
  <2>3. \/ records'[r] = Rec(outcome) /\ disk'[r] = Rec(outcome)
        \/ records'[r] = Rec("failed") /\ disk'[r] \in {disk[r], Rec("failed")}
    BY <1>5 DEF Settle, Put, MarkFailed
  <2>4. disk[r] = records[r]
    BY <2>1
  <2>5. Rec(outcome).status \in Terminal /\ Rec("failed").status = "failed"
    BY RecIsRecord
  <2>6. /\ records'[r] = disk'[r] \/ (records'[r].status = "failed" /\ disk'[r] = disk[r])
        /\ disk'[r].status \in {"succeeded", "failed", "cancelled", "running"}
    BY <2>1, <2>3, <2>4, <2>5 DEF Terminal
  <2>7. Closed'  BY <2>1
  <2>8. Agree'  BY <2>1, <2>2, <2>4, <2>6, ZenonT(60)
  <2>9. AtWork'  BY <2>1
  <2>10. Accounted'  BY <2>1, <2>2, <2>6
  <2>11. Uncalled'  BY <2>1, <2>2, <2>4, <2>6
  <2>12. Alone'  BY <2>1 DEF Alone, Awaited
  <2> QED BY <2>7, <2>8, <2>9, <2>10, <2>11, <2>12
<1> QED BY <1>1, <1>2, <1>3, <1>4, <1>5

\* The turns of a direct mutation.
LEMMA DirectPreserves ==
  ASSUME TypeOK, TypeOK', Strong, NEW d \in Direct,
         \/ RunExclusive(d) \/ BeginDirect(d) \/ FinishDirect(d)
         \/ \E t \in Task : RunAdmitted(d, t)
  PROVE  Strong'
<1> USE RecIsRecord, TasksDiffer DEF TypeOK, Strong, Closed, Agree, Unwritten, AtWork,
        Accounted, Uncalled, Others, tail, directs
<1>1. ASSUME RunExclusive(d) PROVE Strong'
  <2>1. /\ UNCHANGED <<up, records, disk, busy, host, calls, acked>> /\ up
        /\ direct' = [direct EXCEPT ![d] = "waiting"]
    BY <1>1 DEF RunExclusive, Enqueue
  <2>2. queue' # <<>> /\ (queue # <<>> => Head(queue') = Head(queue))
    BY <1>1, TailFacts DEF RunExclusive, Enqueue
  <2>3. Closed'  BY <2>1, <2>2
  <2>4. Agree'  BY <2>1, <2>2
  <2>5. AtWork'  BY <2>1, <2>2
  <2>6. Accounted'  BY <2>1, <2>2
  <2>7. Uncalled'  BY <2>1, <2>2
  <2>8. Alone'  BY <2>1, <2>2 DEF Alone, Awaited
  <2> QED BY <2>3, <2>4, <2>5, <2>6, <2>7, <2>8
<1>2. ASSUME BeginDirect(d) PROVE Strong'
  <2>1. Closed'  BY <1>2 DEF BeginDirect, NextUp
  <2>2. Agree'  BY <1>2 DEF BeginDirect, NextUp
  <2>3. AtWork'  BY <1>2 DEF BeginDirect, NextUp
  <2>4. Accounted'  BY <1>2 DEF BeginDirect, NextUp
  <2>5. Uncalled'  BY <1>2 DEF BeginDirect, NextUp
  <2>6. Alone'  BY <1>2 DEF BeginDirect, NextUp, Alone, Awaited
  <2> QED BY <2>1, <2>2, <2>3, <2>4, <2>5, <2>6
<1>3. ASSUME FinishDirect(d) PROVE Strong'
  <2>1. Closed'  BY <1>3 DEF FinishDirect, Running, Finish
  <2>2. Agree'  BY <1>3 DEF FinishDirect, Running, Finish
  <2>3. AtWork'  BY <1>3 DEF FinishDirect, Running, Finish
  <2>4. Accounted'  BY <1>3 DEF FinishDirect, Running, Finish
  <2>5. Uncalled'  BY <1>3 DEF FinishDirect, Running, Finish
  <2>6. Alone'  BY <1>3 DEF FinishDirect, Running, Finish, Alone, Awaited
  <2> QED BY <2>1, <2>2, <2>3, <2>4, <2>5, <2>6
<1>4. ASSUME NEW t \in Task, RunAdmitted(d, t) PROVE Strong'
  <2>1. /\ UNCHANGED <<up, records, disk, busy, calls, acked>> /\ up /\ direct[d] = "new"
        /\ \A e \in Direct : e # d => direct'[e] = direct[e] /\ host'[e] = host[e]
    BY <1>4 DEF RunAdmitted, Enqueue
  <2>2. \/ queue' = queue
        \/ queue' # <<>> /\ (queue # <<>> => Head(queue') = Head(queue))
    BY <1>4, TailFacts DEF RunAdmitted, Enqueue
  <2>3. direct'[d] = "active" => busy /\ queue' = queue /\ Head(queue) = host'[d]
    BY <1>4 DEF RunAdmitted, TokenActive, Running, Enqueue
  <2>4. Closed'  BY <2>1, <2>2, <2>3
  <2>5. Agree'  BY <2>1, <2>2, <2>3
  <2>6. AtWork'  BY <2>1, <2>2, <2>3
  <2>7. Accounted'  BY <2>1, <2>2, <2>3
  <2>8. Uncalled'  BY <2>1, <2>2, <2>3
  <2>9. Alone'  BY <2>1, <2>2, <2>3 DEF Alone, Awaited
  <2> QED BY <2>4, <2>5, <2>6, <2>7, <2>8, <2>9
<1> QED BY <1>1, <1>2, <1>3, <1>4


\* Every step keeps what is proved beside the types.
LEMMA StrongPreserved == ASSUME TypeOK, TypeOK', Strong, [Next]_vars PROVE Strong'
<1>1. CASE UNCHANGED vars
  BY <1>1 DEF vars, Strong, Closed, Agree, Unwritten, AtWork, Accounted, Uncalled, Alone
<1> QED BY <1>1, ProcessPreserves, ClientPreserves, JobPreserves, DirectPreserves DEF Next

\* The state a Home starts in satisfies the invariant.
LEMMA InitEstablishes == Init => TypeOK /\ Strong
<1> SUFFICES ASSUME Init PROVE TypeOK /\ Strong  OBVIOUS
<1>1. TypeOK  BY RecIsRecord, EmptySeq DEF Init, TypeOK
<1>2. Strong
  BY RecIsRecord DEF Init, Strong, Closed, Agree, AtWork, Accounted, Uncalled, Alone
<1> QED BY <1>1, <1>2

LEMMA Parts == IInv <=> TypeOK /\ Strong
  BY StrongImplies DEF IInv, Inv, Strong

\* The inductive invariant holds of every behaviour of the store.
THEOREM Invariance == Spec => []IInv
<1>1. Init => IInv  BY InitEstablishes, Parts
<1>2. IInv /\ [Next]_vars => IInv'
  <2> SUFFICES ASSUME IInv, [Next]_vars PROVE IInv'  OBVIOUS
  <2>1. TypeOK /\ Strong  BY Parts
  <2>2. TypeOK'  BY <2>1, TypePreserved
  <2>3. Strong'  BY <2>1, <2>2, StrongPreserved
  <2> QED BY <2>2, <2>3, Parts, PTL
<1> QED BY <1>1, <1>2, PTL DEF Spec

\* What a client is shown of a job agrees with its file, an acknowledged
\* request is never forgotten, and one mutation runs at a time.
THEOREM Safety == Spec => []Inv
<1>1. IInv => Inv  BY DEF IInv
<1> QED BY <1>1, Invariance, PTL

-----------------------------------------------------------------------------
(* Action properties. *)

\* An outcome is final on disk for ever and in memory as long as the process
\* lives, and a handler that was not asked to stop is not shown cancelled.
THEOREM FinalOutcomes == Spec => OutcomesAreFinal
<1> DEFINE Final(r) ==
      /\ disk[r].status \in Terminal \cup {"damaged"} => disk'[r] = disk[r]
      /\ up /\ up' /\ records[r].status \in Terminal => records'[r] = records[r]
      /\ Running(r) /\ ~signal => records'[r].status # "cancelled"
<1>1. IInv /\ [Next]_vars => [\A r \in Request : Final(r)]_vars
  <2> SUFFICES ASSUME TypeOK, Strong, Next, NEW q \in Request PROVE Final(q)
    BY Parts
  <2> USE RecIsRecord, TasksDiffer
      DEF TypeOK, Strong, Closed, Agree, Unwritten, AtWork, Running, tail, directs
  <2>1. ASSUME Boot \/ Crash PROVE Final(q)
    BY <2>1, ZenonT(60) DEF Boot, Crash, Interrupted, Terminal
  <2>2. ASSUME NEW r \in Request, Submit(r) \/ Resubmit(r) PROVE Final(q)
    BY <2>2 DEF Submit, Resubmit, Known, Put, RollBack, Terminal
  <2>3. ASSUME NEW r \in Request, CancelQueued(r) \/ CancelRunning(r) PROVE Final(q)
    BY <2>3 DEF CancelQueued, CancelRunning, Cancellable, Put, RollBack, Terminal
  <2>4. ASSUME NEW r \in Request, Skip(r) \/ Begin(r) \/ BeginFails(r) PROVE Final(q)
    BY <2>4 DEF Skip, Begin, BeginFails, NextUp, Put, MarkFailed, Finish, Terminal
  <2>5. ASSUME NEW r \in Request, NEW c \in BOOLEAN, Report(r, c) PROVE Final(q)
    BY <2>5 DEF Report, Put, RollBack, Terminal
  <2>6. ASSUME NEW r \in Request, NEW outcome \in Terminal, Settle(r, outcome) PROVE Final(q)
    BY <2>6 DEF Settle, Outcomes, Put, MarkFailed, Finish, Terminal
  <2>7. ASSUME NEW d \in Direct, RunExclusive(d) \/ BeginDirect(d) \/ FinishDirect(d)
               \/ (\E t \in Task : RunAdmitted(d, t))
        PROVE  Final(q)
    BY <2>7 DEF RunExclusive, BeginDirect, FinishDirect, RunAdmitted, Terminal
  <2> QED BY <2>1, <2>2, <2>3, <2>4, <2>5, <2>6, <2>7 DEF Next
<1> QED BY <1>1, Invariance, PTL DEF Spec, OutcomesAreFinal

-----------------------------------------------------------------------------
(* Refinement of the ledger. *)

\* A record written to its file changes one entry of the ledger.
LEMMA DurableWrite ==
  ASSUME TypeOK, NEW r \in Request
  PROVE  /\ \A s : disk' = [disk EXCEPT ![r] = Rec(s)] => Durable' = [Durable EXCEPT ![r] = s]
         /\ \A c : disk' = [disk EXCEPT ![r] = [status |-> "running", canCancel |-> c]]
                     => Durable' = [Durable EXCEPT ![r] = "running"]
         /\ disk' = disk => Durable' = Durable
<1> USE DEF TypeOK, Durable
<1>1. \A rec : disk' = [disk EXCEPT ![r] = rec]
                => Durable' = [Durable EXCEPT ![r] = rec.status]
  <2> SUFFICES ASSUME NEW rec, disk' = [disk EXCEPT ![r] = rec]
               PROVE  Durable' = [Durable EXCEPT ![r] = rec.status]
    OBVIOUS
  <2>1. disk'[r] = rec /\ \A q \in Request : q # r => disk'[q] = disk[q]  OBVIOUS
  <2> QED BY <2>1
<1>2. ASSUME NEW s, disk' = [disk EXCEPT ![r] = Rec(s)]
      PROVE  Durable' = [Durable EXCEPT ![r] = s]
  <2>1. Rec(s).status = s  BY DEF Rec
  <2>2. Durable' = [Durable EXCEPT ![r] = Rec(s).status]  BY <1>1, <1>2, Zenon
  <2> QED BY <2>1, <2>2, Zenon
<1>3. ASSUME NEW c, disk' = [disk EXCEPT ![r] = [status |-> "running", canCancel |-> c]]
      PROVE  Durable' = [Durable EXCEPT ![r] = "running"]
  <2>1. [status |-> "running", canCancel |-> c].status = "running"  OBVIOUS
  <2>2. Durable' = [Durable EXCEPT ![r] = [status |-> "running", canCancel |-> c].status]
    BY <1>1, <1>3, Zenon
  <2> QED BY <2>1, <2>2, Zenon
<1>4. disk' = disk => Durable' = Durable  OBVIOUS
<1> QED BY <1>2, <1>3, <1>4

LEMMA DurableStatus ==
  ASSUME NEW r \in Request
  PROVE  Durable[r] = disk[r].status /\ Durable = [Durable EXCEPT ![r] = Durable[r]]
  BY DEF Durable

\* Every step of the store is a step of the ledger or leaves it alone.
LEMMA StepRefines ==
  ASSUME TypeOK, TypeOK', Strong, Next
  PROVE  Ledger!Next \/ UNCHANGED <<Durable, calls>>
<1> USE RecIsRecord, TasksDiffer
    DEF TypeOK, Strong, Closed, Agree, Unwritten, AtWork, Uncalled, tail, directs
<1>1. ASSUME Boot PROVE Ledger!Interrupt
  <2>1. Durable' \in [Request -> {"absent", "damaged", "queued", "running",
                                  "succeeded", "failed", "cancelled"}]
    BY DEF Record, Status, Terminal, Durable
  <2>2. \A r \in Request : \/ Durable'[r] = Durable[r]
                           \/ Durable[r] \in {"queued", "running"} /\ Durable'[r] = "failed"
    BY <1>1 DEF Boot, Interrupted, Durable
  <2> QED BY <1>1, <2>1, <2>2 DEF Boot, Ledger!Interrupt
<1>2. ASSUME Crash PROVE UNCHANGED <<Durable, calls>>  BY <1>2 DEF Crash, Durable
<1>3. ASSUME NEW r \in Request, Submit(r)
      PROVE  Ledger!Accept(r) \/ UNCHANGED <<Durable, calls>>
  <2>1. records[r] = Absent /\ disk[r] = Absent /\ UNCHANGED calls  BY <1>3 DEF Submit, Known
  <2>2. disk' = disk \/ disk' = [disk EXCEPT ![r] = Rec("queued")]
    BY <1>3 DEF Submit, Put, RollBack
  <2>3. Durable' = Durable \/ Durable' = [Durable EXCEPT ![r] = "queued"]
    BY <2>2, DurableWrite
  <2> QED BY <2>1, <2>3, DurableStatus DEF Ledger!Accept
<1>4. ASSUME NEW r \in Request, Resubmit(r) \/ Skip(r) PROVE UNCHANGED <<Durable, calls>>
  BY <1>4 DEF Resubmit, Skip, Durable
<1>5. ASSUME NEW r \in Request, CancelRunning(r) PROVE UNCHANGED <<Durable, calls>>
  <2>1. disk[r].status = "running" /\ UNCHANGED calls  BY <1>5 DEF CancelRunning, Cancellable
  <2>2. disk' = disk \/ disk' = [disk EXCEPT ![r] = Rec("running")]
    BY <1>5 DEF CancelRunning, Put, RollBack
  <2>3. Durable' = Durable \/ Durable' = [Durable EXCEPT ![r] = "running"]
    BY <2>2, DurableWrite
  <2>4. Durable[r] = "running" /\ Durable = [Durable EXCEPT ![r] = Durable[r]]
    BY <2>1, DurableStatus
  <2> QED BY <2>1, <2>3, <2>4
<1>6. ASSUME NEW r \in Request, CancelQueued(r)
      PROVE  Ledger!Settle(r, "cancelled") \/ UNCHANGED <<Durable, calls>>
  <2>1. disk[r].status = "queued" /\ UNCHANGED calls  BY <1>6 DEF CancelQueued
  <2>2. disk' = disk \/ disk' = [disk EXCEPT ![r] = Rec("cancelled")]  BY <1>6 DEF CancelQueued
  <2>3. Durable' = Durable \/ Durable' = [Durable EXCEPT ![r] = "cancelled"]
    BY <2>2, DurableWrite
  <2> QED BY <2>1, <2>3, DurableStatus DEF Ledger!Settle
<1>7. ASSUME NEW r \in Request, Begin(r) PROVE Ledger!Call(r)
  <2>1. disk[r].status = "queued" /\ calls[r] = 0  BY <1>7 DEF Begin, NextUp
  <2>2. disk' = [disk EXCEPT ![r] = Rec("running")]  BY <1>7 DEF Begin, Put
  <2>3. calls' = [calls EXCEPT ![r] = 1]  BY <1>7, <2>1 DEF Begin
  <2>4. Durable' = [Durable EXCEPT ![r] = "running"]  BY <2>2, DurableWrite
  <2> QED BY <2>1, <2>3, <2>4, DurableStatus DEF Ledger!Call
<1>8. ASSUME NEW r \in Request, BeginFails(r)
      PROVE  Ledger!Settle(r, "failed") \/ UNCHANGED <<Durable, calls>>
  <2>1. disk[r].status = "queued" /\ UNCHANGED calls  BY <1>8 DEF BeginFails, NextUp
  <2>2. disk' = disk \/ disk' = [disk EXCEPT ![r] = Rec("failed")]
    BY <1>8 DEF BeginFails, MarkFailed
  <2>3. Durable' = Durable \/ Durable' = [Durable EXCEPT ![r] = "failed"]
    BY <2>2, DurableWrite
  <2> QED BY <2>1, <2>3, DurableStatus DEF Ledger!Settle
<1>9. ASSUME NEW r \in Request, NEW c \in BOOLEAN, Report(r, c)
      PROVE  UNCHANGED <<Durable, calls>>
  <2>1. disk[r].status = "running" /\ UNCHANGED calls  BY <1>9 DEF Report, Running
  <2>2. disk' = disk \/ disk' = [disk EXCEPT ![r] = [status |-> "running", canCancel |-> c]]
    BY <1>9 DEF Report, Put, RollBack
  <2>3. Durable' = Durable \/ Durable' = [Durable EXCEPT ![r] = "running"]
    BY <2>2, DurableWrite
  <2>4. Durable[r] = "running" /\ Durable = [Durable EXCEPT ![r] = Durable[r]]
    BY <2>1, DurableStatus
  <2> QED BY <2>1, <2>3, <2>4
<1>11. ASSUME NEW r \in Request, NEW outcome \in Terminal, Settle(r, outcome)
       PROVE  \/ Ledger!Settle(r, outcome) \/ Ledger!Settle(r, "failed")
              \/ UNCHANGED <<Durable, calls>>
  <2>1. disk[r].status = "running" /\ UNCHANGED calls  BY <1>11 DEF Settle, Running
  <2>2. \/ disk' = disk \/ disk' = [disk EXCEPT ![r] = Rec("failed")]
        \/ disk' = [disk EXCEPT ![r] = Rec(outcome)]
    BY <1>11 DEF Settle, Put, MarkFailed
  <2>3. \/ Durable' = Durable \/ Durable' = [Durable EXCEPT ![r] = "failed"]
        \/ Durable' = [Durable EXCEPT ![r] = outcome]
    BY <2>2, DurableWrite
  <2> QED BY <2>1, <2>3, DurableStatus DEF Ledger!Settle
<1>10. ASSUME NEW d \in Direct, RunExclusive(d) \/ BeginDirect(d) \/ FinishDirect(d)
              \/ (\E t \in Task : RunAdmitted(d, t))
       PROVE  UNCHANGED <<Durable, calls>>
  BY <1>10 DEF RunExclusive, BeginDirect, FinishDirect, RunAdmitted, Durable
<1> QED BY <1>1, <1>2, <1>3, <1>4, <1>5, <1>6, <1>7, <1>8, <1>9, <1>10, <1>11
        DEF Next, Ledger!Next, Terminal

\* The files implement the ledger: a request is written down before it runs,
\* and its handler is called at most once in the life of the Home.
THEOREM Refinement == Spec => ImplementsLedger
<1>1. Init => Ledger!Init
  BY RecIsRecord DEF Init, Ledger!Init, Durable
<1>2. IInv /\ IInv' /\ [Next]_vars => [Ledger!Next]_<<Durable, calls>>
  <2> SUFFICES ASSUME IInv, IInv', [Next]_vars
               PROVE  Ledger!Next \/ UNCHANGED <<Durable, calls>>
    OBVIOUS
  <2>1. TypeOK /\ Strong /\ TypeOK'  BY Parts DEF IInv, Inv
  <2>2. CASE UNCHANGED vars  BY <2>2 DEF vars, Durable
  <2> QED BY <2>1, <2>2, StepRefines
<1> QED BY <1>1, <1>2, Invariance, PTL DEF Spec, ImplementsLedger, Ledger!Spec, Ledger!lvars
=============================================================================
