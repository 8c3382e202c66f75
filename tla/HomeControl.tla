----------------------------- MODULE HomeControl -----------------------------
(***************************************************************************)
(* HomeController (src/adapters/node/home-controller.ts) with its callers: *)
(* the Supervisor's tryOwn, dropWritable and finalizeComponentHandoff, the *)
(* launch that retires a dead predecessor (supervisor-launch.ts) and the   *)
(* one-shot component launcher (component-handoff.ts).                     *)
(*                                                                         *)
(* One action is one file-system call that another process can observe,    *)
(* with the in-memory code around it.  The disk is                         *)
(*   .dsh-spaces-control/run/             runDir                           *)
(*   .dsh-spaces-control/run/owner.json   rec                              *)
(*   .dsh-spaces-control/<reclaim dir>    guard                            *)
(*   .dsh-spaces-control/<endpoint file>  endpoint (the nonce of the owner *)
(*                                        whose service epoch it carries)  *)
(* A member of Proc is one incarnation of a process: it boots once and     *)
(* when it dies it stays dead, but the operating system may give its pid   *)
(* to a later incarnation (PidOf need not be injective).                   *)
(* Symlinks, aliases and damaged records are left out: inspect() answers   *)
(* "held, ambiguous" to all of them and every operation refuses.           *)
(***************************************************************************)
EXTENDS Naturals

CONSTANTS
  Proc,      \* process incarnations
  NoProc,    \* "no such process"
  Pid,       \* process ids
  NoPid,     \* "no pid in this field"
  PidOf,     \* the pid of each incarnation
  MaxNonce   \* bound: how many nonces may be drawn in a behaviour

ASSUME ProcAssumption == NoProc \notin Proc
ASSUME PidAssumption  == NoPid \notin Pid /\ PidOf \in [Proc -> Pid]
ASSUME MaxNonceAssumption == MaxNonce \in Nat

VARIABLES
  pc,        \* what each process is about to do
  handle,    \* the nonce of the HomeControlHandle it holds, 0 when none
  token,     \* the nonce of the handoff token it holds, 0 when none
  child,     \* the launcher or target it spawned
  seen,      \* the owner record it read earlier and still relies on
  runDir, rec, guard, endpoint,   \* the disk
  nonces     \* how many nonces have been drawn

vars == <<pc, handle, token, child, seen, runDir, rec, guard, endpoint, nonces>>
disk == <<runDir, rec, guard, endpoint>>
memory == <<handle, token, child, seen>>

-----------------------------------------------------------------------------
(* Owner records.  A record names its occupant by pid and nonce; startedAt, *)
(* kind and endpoint never differ between records with the same nonce.  A   *)
(* handoff record also names the pid of the original owner and, once it is  *)
(* authorized, the pid of its target.                                       *)

OwnerRecord ==
  [kind   : {"missing", "torn", "owner", "launcher", "authorized"},
   pid    : Pid \cup {NoPid},
   nonce  : Nat,
   old    : Pid \cup {NoPid},
   target : Pid \cup {NoPid}]

Blank(kind) == [kind |-> kind, pid |-> NoPid, nonce |-> 0, old |-> NoPid, target |-> NoPid]

Missing == Blank("missing")   \* no owner.json
Torn    == Blank("torn")      \* created by "wx", contents not written: unreadable

Legacy(p, n) == [Blank("owner") EXCEPT !.pid = PidOf[p], !.nonce = n]

Handoff(q, n, old) ==
  [Blank("launcher") EXCEPT !.pid = PidOf[q], !.nonce = n, !.old = old]

-----------------------------------------------------------------------------
(* Program counters. *)

Acquiring  == {"acqLook", "acqMkdir", "acqCheck", "acqCreate", "acqWrite"}
Reclaiming == {"recLook", "recMkdir", "recRead", "recEndpoint", "recUnlink",
               "recRmdir", "recDrop"}
GuardHolding == {"recRead", "recEndpoint", "recUnlink", "recRmdir", "recDrop"}
\* An owner from the moment owner.json is complete until it is gone.
Owning     == {"publish", "owner", "relEndpoint", "relUnlink", "hoSpawn",
               "xferCheck", "xferWrite"}
\* The old owner after the record moved to the launcher.
Leaving    == {"transferred", "awaitAck", "exiting", "stranded"}
Launching  == {"launcher", "commit", "reserve", "waitOld", "select",
               "authCheck", "authWrite", "sendToken", "awaitAccept"}
Accepting  == {"target", "acceptCheck", "acceptWrite"}
Releasing  == {"relRmdir", "halfReleased"}

State == {"off", "idle", "dropFailed", "dead"} \cup Acquiring \cup Reclaiming \cup Owning
           \cup Leaving \cup Launching \cup Accepting \cup Releasing

Alive(p) == pc[p] \notin {"off", "dead"}

\* defaultPidAlive: only ESRCH proves death.  It asks about a pid, not about
\* the process that wrote the record: a reused pid counts as not dead.
PidAlive(pid) == \E q \in Proc : Alive(q) /\ PidOf[q] = pid

\* The processes that act as the Home's writer: an owner until its record and
\* run directory are gone, an old owner until it has exited, and the launcher
\* while it selects the component pointer and authorizes the target.
Writing == Owning \cup Releasing \cup Leaving \cup {"select", "authCheck", "authWrite"}
Writers == {p \in Proc : pc[p] \in Writing}

Goto(p, s) == pc' = [pc EXCEPT ![p] = s]

Init ==
  /\ pc     = [p \in Proc |-> "off"]
  /\ handle = [p \in Proc |-> 0]
  /\ token  = [p \in Proc |-> 0]
  /\ child  = [p \in Proc |-> NoProc]
  /\ seen   = [p \in Proc |-> Missing]
  /\ runDir = FALSE
  /\ rec    = Missing
  /\ guard  = FALSE
  /\ endpoint = 0
  /\ nonces = 0

-----------------------------------------------------------------------------
(* Processes. *)

\* An incarnation gets a pid that no live process has.
Fresh(p) == pc[p] = "off" /\ ~PidAlive(PidOf[p])

Boot(p) ==
  /\ Fresh(p)
  /\ Goto(p, "idle")
  /\ UNCHANGED <<memory, disk, nonces>>

\* A crash, a kill or an exit, between any two file-system calls: what the
\* process had in memory is gone, the disk stays as it is.
Die(p) ==
  /\ Alive(p)
  /\ Goto(p, "dead")
  /\ handle' = [handle EXCEPT ![p] = 0]
  /\ token' = [token EXCEPT ![p] = 0]
  /\ child' = [child EXCEPT ![p] = NoProc]
  /\ seen' = [seen EXCEPT ![p] = Missing]
  /\ UNCHANGED <<disk, nonces>>

DrawNonce ==
  /\ nonces < MaxNonce
  /\ nonces' = nonces + 1

-----------------------------------------------------------------------------
(* acquire.  inspect() looks for the guard, then for the run directory; a  *)
(* refused attempt changes nothing and leaves the process idle.            *)

AcqStart(p) ==
  /\ pc[p] = "idle" /\ ~guard
  /\ Goto(p, "acqLook")
  /\ UNCHANGED <<memory, disk, nonces>>

Occupied == runDir

AcqLook(p) ==
  /\ pc[p] = "acqLook"
  /\ Goto(p, IF Occupied THEN "idle" ELSE "acqMkdir")
  /\ UNCHANGED <<memory, disk, nonces>>

\* (mutant) a recursive mkdir, which succeeds on an existing directory.
AcqMkdir_Recursive(p) ==
  /\ pc[p] = "acqMkdir"
  /\ Goto(p, "acqCheck")
  /\ runDir' = TRUE
  /\ UNCHANGED <<memory, rec, guard, endpoint, nonces>>

AcqMkdir(p) ==
  /\ pc[p] = "acqMkdir"
  /\ Goto(p, IF runDir THEN "idle" ELSE "acqCheck")
  /\ runDir' = TRUE
  /\ UNCHANGED <<memory, rec, guard, endpoint, nonces>>

\* A guard that appeared meanwhile makes the attempt undo its mkdir; rmdir
\* succeeds only on an empty directory.
AcqCheck(p) ==
  /\ pc[p] = "acqCheck"
  /\ Goto(p, IF guard THEN "idle" ELSE "acqCreate")
  /\ runDir' = IF guard /\ rec = Missing THEN FALSE ELSE runDir
  /\ UNCHANGED <<memory, rec, guard, endpoint, nonces>>

AcqCreate(p) ==
  /\ pc[p] = "acqCreate" /\ rec = Missing
  /\ rec' = Torn
  /\ Goto(p, "acqWrite")
  /\ UNCHANGED <<memory, runDir, guard, endpoint, nonces>>

AcqWrite(p) ==
  /\ pc[p] = "acqWrite"
  /\ DrawNonce
  /\ rec' = Legacy(p, nonces')
  /\ handle' = [handle EXCEPT ![p] = nonces']
  /\ Goto(p, "publish")
  /\ UNCHANGED <<token, child, seen, runDir, guard, endpoint>>

\* A call failed.  After mkdir the run directory stays, and nobody owns it: the
\* second inspect throws past abortUncommittedRun, which itself keeps silent
\* about a directory it cannot remove, and writeOwnerFile leaves it as it is.
AcqFail(p) ==
  /\ pc[p] \in Acquiring
  /\ Goto(p, "idle")
  /\ UNCHANGED <<memory, disk, nonces>>

\* The Supervisor writes its endpoint file, or fails and keeps its lease.
Publish(p) ==
  /\ pc[p] = "publish"
  /\ Goto(p, "owner")
  /\ endpoint' \in {endpoint, handle[p]}
  /\ UNCHANGED <<memory, runDir, rec, guard, nonces>>

-----------------------------------------------------------------------------
(* release: dropWritable removes the endpoint inside removeOwnedRun.        *)

OwnsRecord(p) == rec.kind = "owner" /\ rec.nonce = handle[p]

RelCheck(p) ==
  /\ pc[p] = "owner" /\ OwnsRecord(p)
  /\ Goto(p, "relEndpoint")
  /\ UNCHANGED <<memory, disk, nonces>>

RelEndpoint(p) ==
  /\ pc[p] = "relEndpoint"
  /\ Goto(p, "relUnlink")
  /\ endpoint' = 0
  /\ UNCHANGED <<memory, runDir, rec, guard, nonces>>

RelUnlink(p) ==
  /\ pc[p] = "relUnlink"
  /\ Goto(p, "relRmdir")
  /\ rec' = Missing
  /\ UNCHANGED <<memory, runDir, guard, endpoint, nonces>>

RelRmdir(p) ==
  /\ pc[p] = "relRmdir" /\ rec = Missing
  /\ Goto(p, "idle")
  /\ runDir' = FALSE
  /\ handle' = [handle EXCEPT ![p] = 0]
  /\ UNCHANGED <<token, child, seen, rec, guard, endpoint, nonces>>

\* A failed call throws HomeControlReleaseError: the Supervisor keeps its
\* handle, and after the unlink a second release is refused as well.
RelFail(p) ==
  /\ \/ pc[p] \in {"relEndpoint", "relUnlink"} /\ Goto(p, "owner")
     \/ pc[p] = "relRmdir" /\ Goto(p, "halfReleased")
  /\ UNCHANGED <<memory, disk, nonces>>

-----------------------------------------------------------------------------
(* reclaimDead, called by a launch for the owner it observed when it began. *)

\* (mutant) a launch also retires a handoff record.
Observe_Handoff(p) ==
  /\ pc[p] = "idle" /\ ~guard /\ rec.kind \in {"owner", "launcher"}
  /\ seen' = [seen EXCEPT ![p] = rec]
  /\ Goto(p, "recLook")
  /\ UNCHANGED <<handle, token, child, disk, nonces>>

Observe(p) ==
  /\ pc[p] = "idle" /\ ~guard /\ rec.kind = "owner"
  /\ seen' = [seen EXCEPT ![p] = rec]
  /\ Goto(p, "recLook")
  /\ UNCHANGED <<handle, token, child, disk, nonces>>

\* The record is the one observed and its occupant is proved dead.
Retirable(p) == rec = seen[p] /\ ~PidAlive(rec.pid)

\* retirePreviousSupervisor and the first inspection of reclaimDead; a guard
\* that appears after them is caught by the exclusive mkdir.
RecLook(p) ==
  /\ pc[p] = "recLook"
  /\ Goto(p, IF Retirable(p) THEN "recMkdir" ELSE "idle")
  /\ UNCHANGED <<memory, disk, nonces>>

\* (mutant) the guard directory is not exclusive.
GuardTaken_Never == FALSE

GuardTaken == guard

RecMkdir(p) ==
  /\ pc[p] = "recMkdir"
  /\ Goto(p, IF GuardTaken THEN "idle" ELSE "recRead")
  /\ guard' = TRUE
  /\ UNCHANGED <<memory, runDir, rec, endpoint, nonces>>

\* (mutant) the record is not read again under the guard.
StillRetirable_Assumed(p) == seen[p].kind = "owner"

\* Under the guard the record is read again before anything is removed.
StillRetirable(p) == Retirable(p)

\* (mutant) an early return under the guard forgets to drop it.
RecRead_NoDrop(p) ==
  /\ pc[p] = "recRead"
  /\ Goto(p, IF StillRetirable(p) THEN "recEndpoint" ELSE "idle")
  /\ UNCHANGED <<memory, disk, nonces>>

RecRead(p) ==
  /\ pc[p] = "recRead"
  /\ Goto(p, IF StillRetirable(p) THEN "recEndpoint" ELSE "recDrop")
  /\ UNCHANGED <<memory, disk, nonces>>

\* (mutant) a removal of the endpoint that fails does not stop the reclaim.
RecEndpoint_BestEffort(p) ==
  /\ pc[p] = "recEndpoint" /\ endpoint \in {0, seen[p].nonce}
  /\ Goto(p, "recUnlink")
  /\ endpoint' \in {0, endpoint}
  /\ UNCHANGED <<memory, runDir, rec, guard, nonces>>

\* beforeRelease: only the retired owner's own endpoint may be removed.
RecEndpoint(p) ==
  /\ pc[p] = "recEndpoint" /\ endpoint \in {0, seen[p].nonce}
  /\ Goto(p, "recUnlink")
  /\ endpoint' = 0
  /\ UNCHANGED <<memory, runDir, rec, guard, nonces>>

RecUnlink(p) ==
  /\ pc[p] = "recUnlink"
  /\ Goto(p, "recRmdir")
  /\ rec' = Missing
  /\ UNCHANGED <<memory, runDir, guard, endpoint, nonces>>

RecRmdir(p) ==
  /\ pc[p] = "recRmdir" /\ rec = Missing
  /\ Goto(p, "recDrop")
  /\ runDir' = FALSE
  /\ UNCHANGED <<memory, rec, guard, endpoint, nonces>>

\* Reading the record or any of the three removals throws: the guard is dropped,
\* the rest stays.
RecFail(p) ==
  /\ pc[p] \in {"recRead", "recEndpoint", "recUnlink", "recRmdir"}
  /\ Goto(p, "recDrop")
  /\ UNCHANGED <<memory, disk, nonces>>

\* dropReclaim, which may itself fail, also when the catch calls it again: the
\* guard is left and the launch answers with a failure.  No step removes that
\* guard or passes it, so that is the end of this process.
RecDrop(p) ==
  /\ pc[p] = "recDrop"
  /\ \/ Goto(p, "idle") /\ guard' = FALSE
     \/ Goto(p, "dropFailed") /\ UNCHANGED guard
  /\ seen' = [seen EXCEPT ![p] = Missing]
  /\ UNCHANGED <<handle, token, child, runDir, rec, endpoint, nonces>>

-----------------------------------------------------------------------------
(* Handoff, old owner: finalizeComponentHandoff and transferToLauncher.     *)
(* withHandoffLock may refuse as busy; that changes nothing.                *)

\* (mutant) the endpoint file is left behind.
HandoffStart_KeepsEndpoint(p) ==
  /\ pc[p] = "owner"
  /\ Goto(p, "hoSpawn")
  /\ UNCHANGED <<memory, disk, nonces>>

HandoffStart(p) ==
  /\ pc[p] = "owner"
  /\ Goto(p, "hoSpawn")
  /\ endpoint' = 0
  /\ UNCHANGED <<memory, runDir, rec, guard, nonces>>

SpawnLauncher(p, q) ==
  /\ pc[p] = "hoSpawn" /\ Fresh(q)
  /\ pc' = [pc EXCEPT ![p] = "xferCheck", ![q] = "launcher"]
  /\ child' = [child EXCEPT ![p] = q]
  /\ UNCHANGED <<handle, token, seen, disk, nonces>>

XferCheck(p) ==
  /\ pc[p] = "xferCheck"
  /\ Goto(p, IF ~guard /\ OwnsRecord(p) /\ rec.pid = PidOf[p] /\ PidAlive(PidOf[child[p]])
             THEN "xferWrite" ELSE "owner")
  /\ UNCHANGED <<memory, disk, nonces>>

XferWrite(p) ==
  /\ pc[p] = "xferWrite"
  /\ DrawNonce
  /\ rec' = Handoff(child[p], nonces', PidOf[p])
  /\ token' = [token EXCEPT ![p] = nonces']
  /\ Goto(p, "transferred")
  /\ UNCHANGED <<handle, child, seen, runDir, guard, endpoint>>

\* The spawn or the replacement of the record failed: still the owner, but
\* its HTTP listener and its endpoint file are gone.
HandoffFail(p) ==
  /\ pc[p] \in {"hoSpawn", "xferWrite"}
  /\ Goto(p, "owner")
  /\ UNCHANGED <<memory, disk, nonces>>

SendCommit(p) ==
  /\ pc[p] = "transferred" /\ pc[child[p]] = "launcher"
  /\ pc' = [pc EXCEPT ![p] = "awaitAck", ![child[p]] = "commit"]
  /\ token' = [token EXCEPT ![child[p]] = token[p]]
  /\ UNCHANGED <<handle, child, seen, disk, nonces>>

\* Sent from the message handler, before any of the launcher's own work.
LauncherAck(q) ==
  /\ pc[q] = "commit"
  /\ pc' = [r \in Proc |-> IF r = q THEN "reserve"
                           ELSE IF pc[r] = "awaitAck" /\ child[r] = q THEN "exiting"
                           ELSE pc[r]]
  /\ UNCHANGED <<memory, disk, nonces>>

\* The commit or its acknowledgement is lost (timeout, launcher exit): the
\* old process stays alive without run rights and never takes them back.
CommitFail(p) ==
  /\ pc[p] \in {"transferred", "awaitAck"}
  /\ Goto(p, "stranded")
  /\ UNCHANGED <<memory, disk, nonces>>

Exit(p) == pc[p] = "exiting" /\ Die(p)

-----------------------------------------------------------------------------
(* Handoff, launcher: executeLauncher and authorizeHandoff.  A timeout ends *)
(* the process: Die.                                                        *)

HasReservation(q) ==
  /\ ~guard
  /\ rec.kind = "launcher"
  /\ rec.pid = PidOf[q]
  /\ rec.nonce = token[q]

Reserve(q) ==
  /\ pc[q] = "reserve" /\ HasReservation(q)
  /\ seen' = [seen EXCEPT ![q] = rec]
  /\ Goto(q, "waitOld")
  /\ UNCHANGED <<handle, token, child, disk, nonces>>

\* (mutant) the launcher takes the acknowledged commit for the exit.
OldIsGone_Assumed(q) == TRUE

OldIsGone(q) == ~PidAlive(seen[q].old)

WaitForOldGone(q) ==
  /\ pc[q] = "waitOld" /\ OldIsGone(q)
  /\ Goto(q, "select")
  /\ UNCHANGED <<memory, disk, nonces>>

\* The component pointer is written, then the target is started from it.
SpawnTarget(q, r) ==
  /\ pc[q] = "select" /\ Fresh(r)
  /\ pc' = [pc EXCEPT ![q] = "authCheck", ![r] = "target"]
  /\ child' = [child EXCEPT ![q] = r]
  /\ UNCHANGED <<handle, token, seen, disk, nonces>>

AuthCheck(q) ==
  /\ pc[q] = "authCheck" /\ HasReservation(q) /\ PidAlive(PidOf[child[q]])
  /\ Goto(q, "authWrite")
  /\ UNCHANGED <<memory, disk, nonces>>

AuthWrite(q) ==
  /\ pc[q] = "authWrite"
  /\ rec' = [rec EXCEPT !.kind = "authorized", !.target = PidOf[child[q]]]
  /\ Goto(q, "sendToken")
  /\ UNCHANGED <<memory, runDir, guard, endpoint, nonces>>

SendToken(q) ==
  /\ pc[q] = "sendToken" /\ pc[child[q]] = "target"
  /\ pc' = [pc EXCEPT ![q] = "awaitAccept", ![child[q]] = "acceptCheck"]
  /\ token' = [token EXCEPT ![child[q]] = token[q]]
  /\ UNCHANGED <<handle, child, seen, disk, nonces>>

-----------------------------------------------------------------------------
(* Handoff, target: acceptHandoffFromIpc and acceptHandoff.                 *)

AuthorizedFor(r) ==
  /\ ~guard
  /\ rec.kind = "authorized"
  /\ rec.nonce = token[r]
  /\ rec.target = PidOf[r]

AcceptCheck(r) ==
  /\ pc[r] = "acceptCheck" /\ AuthorizedFor(r)
  /\ Goto(r, "acceptWrite")
  /\ UNCHANGED <<memory, disk, nonces>>

AcceptWrite(r) ==
  /\ pc[r] = "acceptWrite"
  /\ DrawNonce
  /\ rec' = Legacy(r, nonces')
  /\ handle' = [handle EXCEPT ![r] = nonces']
  /\ Goto(r, "publish")
  /\ UNCHANGED <<token, child, seen, runDir, guard, endpoint>>

\* A launcher or target whose check fails gives up: it exits and leaves the
\* handoff record as it found it.
Admitted(q) ==
  CASE pc[q] = "reserve"     -> HasReservation(q)
    [] pc[q] = "authCheck"   -> HasReservation(q) /\ PidAlive(PidOf[child[q]])
    [] pc[q] = "sendToken"   -> pc[child[q]] = "target"
    [] pc[q] = "acceptCheck" -> AuthorizedFor(q)

Refuse(q) ==
  /\ pc[q] \in {"reserve", "authCheck", "sendToken", "acceptCheck"} /\ ~Admitted(q)
  /\ Die(q)

-----------------------------------------------------------------------------
AcquireStep(p) == AcqStart(p) \/ AcqLook(p) \/ AcqMkdir(p) \/ AcqCheck(p)
                  \/ AcqCreate(p) \/ AcqWrite(p) \/ AcqFail(p) \/ Publish(p)
ReleaseStep(p) == RelCheck(p) \/ RelEndpoint(p) \/ RelUnlink(p) \/ RelRmdir(p) \/ RelFail(p)
ReclaimStep(p) == Observe(p) \/ RecLook(p) \/ RecMkdir(p) \/ RecRead(p) \/ RecEndpoint(p)
                  \/ RecUnlink(p) \/ RecRmdir(p) \/ RecFail(p) \/ RecDrop(p)
TransferStep(p) == HandoffStart(p) \/ (\E q \in Proc : SpawnLauncher(p, q)) \/ XferCheck(p)
                   \/ XferWrite(p) \/ HandoffFail(p) \/ SendCommit(p) \/ CommitFail(p) \/ Exit(p)
LaunchStep(q) == LauncherAck(q) \/ Reserve(q) \/ WaitForOldGone(q)
                 \/ (\E r \in Proc : SpawnTarget(q, r)) \/ AuthCheck(q) \/ AuthWrite(q) \/ SendToken(q)
AcceptStep(r) == AcceptCheck(r) \/ AcceptWrite(r) \/ Refuse(r)

Next == \E p \in Proc :
  \/ Boot(p) \/ Die(p)
  \/ AcquireStep(p) \/ ReleaseStep(p) \/ ReclaimStep(p)
  \/ TransferStep(p) \/ LaunchStep(p) \/ AcceptStep(p)

Spec == Init /\ [][Next]_vars

(* A process runs its synchronous protocol code to the end unless it dies,  *)
(* the operating system can always start one more process, and messages on  *)
(* an open IPC channel arrive.  Nothing obliges anybody to boot, to die, to *)
(* acquire, to release or to begin a handoff.                               *)
FairSpec ==
  /\ Spec
  /\ \A p \in Proc :
       /\ WF_vars(RecLook(p) \/ RecMkdir(p) \/ RecRead(p) \/ RecEndpoint(p) \/ RecUnlink(p)
                  \/ RecRmdir(p) \/ RecFail(p) \/ RecDrop(p))
       /\ WF_vars(SendCommit(p)) /\ WF_vars(Exit(p))
       /\ WF_vars(LaunchStep(p)) /\ WF_vars(AcceptStep(p))

-----------------------------------------------------------------------------
(* Properties. *)

TypeOK ==
  /\ pc \in [Proc -> State]
  /\ handle \in [Proc -> Nat]
  /\ token \in [Proc -> Nat]
  /\ child \in [Proc -> Proc \cup {NoProc}]
  /\ seen \in [Proc -> OwnerRecord]
  /\ runDir \in BOOLEAN
  /\ rec \in OwnerRecord
  /\ guard \in BOOLEAN
  /\ endpoint \in Nat
  /\ nonces \in Nat

\* The inductive invariant: what is on disk while a process is at each point.
\* A pid names at most one live process.
PidsDistinct ==
  \A p, q \in Proc : Alive(p) /\ Alive(q) /\ PidOf[p] = PidOf[q] => p = q

\* The record is the process's own, whoever else runs.
OwnRecord ==
  \A p \in Proc :
    /\ pc[p] \in Owning => /\ rec.kind = "owner" /\ rec.pid = PidOf[p]
                          /\ rec.nonce = handle[p]
    /\ pc[p] \in Leaving => rec.kind = "launcher" /\ rec.old = PidOf[p]
    /\ pc[p] \in {"waitOld", "select", "authCheck", "authWrite"}
         => rec.kind = "launcher" /\ rec.pid = PidOf[p]
    /\ pc[p] = "waitOld" => seen[p] = rec
    /\ pc[p] \in {"select", "authCheck", "authWrite"}
         => \A q \in Proc : pc[q] \notin Leaving
    /\ pc[p] = "acceptWrite" => rec.kind = "authorized" /\ rec.target = PidOf[p]

\* One process at most works on a run directory without a complete record.
OneMaker ==
  /\ \A p \in Proc :
       /\ pc[p] \in {"acqCheck", "acqCreate"} \cup Releasing \cup {"recRmdir"}
            => runDir /\ rec = Missing
       /\ pc[p] = "acqWrite" => runDir /\ rec = Torn
  /\ \A p, q \in Proc :
       /\ pc[p] \in {"acqCheck", "acqCreate", "acqWrite", "recRmdir"} \cup Releasing
       /\ pc[q] \in {"acqCheck", "acqCreate", "acqWrite", "recRmdir"} \cup Releasing
       => p = q
  /\ rec # Missing => runDir

\* One launch at most holds the guard, and what it removes is the record of
\* an owner that nobody alive still is.
OneReclaimer ==
  /\ \A p \in Proc : pc[p] \in GuardHolding => guard
  /\ \A p, q \in Proc : pc[p] \in GuardHolding /\ pc[q] \in GuardHolding => p = q
  /\ \A p \in Proc : pc[p] \in Reclaiming \ {"recRmdir", "recDrop"} => seen[p].kind = "owner"
  /\ \A p \in Proc : pc[p] \in {"recEndpoint", "recUnlink"} =>
                       /\ rec = seen[p]
                       /\ \A q \in Proc : pc[q] \notin Owning

\* Whoever is about to give the record away has removed the endpoint.
EndpointGone ==
  \A p \in Proc : pc[p] \in {"relUnlink", "hoSpawn", "xferCheck", "xferWrite", "recUnlink"}
                     => endpoint = 0

HasChild ==
  \A p \in Proc : pc[p] \in {"xferCheck", "xferWrite", "transferred", "authCheck", "authWrite", "sendToken"}
                     => child[p] \in Proc

\* At most one live process acts as the Home's writer, whatever crashes,
\* however many launches retire the same dead owner at once, and across a
\* handoff: the launcher writes only when the old owner has exited.
MutualExclusion == \A p, q \in Writers : p = q

\* The endpoint file clients attach to names the owner on disk: it is gone
\* before the run directory can change hands, in every order of failures.
EndpointNamesOwner == endpoint # 0 => rec.kind = "owner" /\ rec.nonce = endpoint

IInv == /\ TypeOK /\ PidsDistinct /\ OwnRecord /\ OneMaker /\ OneReclaimer
        /\ EndpointGone /\ HasChild /\ EndpointNamesOwner

\* A record is removed by its owner or after its owner died, never while the
\* process that holds the handle of that record is alive.
OnlyOwnerOrDeathRemoves ==
  [][ rec.kind = "owner" /\ rec' = Missing =>
        \A p \in Proc : pc[p] \in Owning /\ handle[p] = rec.nonce => pc[p] = "relUnlink" ]_rec

\* A handoff only moves forward: launcher, then authorized for one target
\* after the old owner exited, then owned by that target.  No launch retires it and nobody cancels it.
HandoffOnlyAdvances ==
  [][ /\ rec.kind = "launcher" =>
           /\ rec'.kind = "authorized" /\ rec'.nonce = rec.nonce
           /\ \A p \in Proc : pc[p] \notin Leaving
      /\ rec.kind = "authorized" => rec'.kind = "owner" /\ rec'.pid = rec.target
    ]_rec

\* A run directory without a readable owner, whose maker is no longer at
\* work on it, is never taken over: it fails closed for ever.
Abandoned ==
  /\ runDir /\ rec.kind \in {"missing", "torn"}
  /\ \A p \in Proc : pc[p] \notin {"acqCheck", "acqCreate", "acqWrite", "relRmdir", "recRmdir"}
IncompleteNeverStolen == [][Abandoned => Abandoned']_vars

\* The run lock implements the abstract right.
Rights == INSTANCE RunRights WITH holders <- Writers
ImplementsRunRights == Rights!Spec

\* The reclaim directory, which makes every acquisition, handoff and reclaim
\* refuse, is off the disk again after every launch that made it, on every early
\* return and failure under it (home-controller.ts 351-391) and whoever else is
\* reclaiming, unless that launch dies or the removal of the directory failed.
GuardIsDropped ==
  \A p \in Proc : pc[p] \in GuardHolding ~> (~guard \/ pc[p] \in {"dead", "dropFailed"})

\* A committed handoff settles: its target becomes the owner unless the
\* launcher or the target dies, or the old owner missed the acknowledgement.
\* The old owner waits for the launcher's acknowledgement, the launcher for
\* the old owner's exit and the target for the launcher's token, and nobody
\* waits for ever.
\* (Exhausted: the instance has no incarnation or no nonce left for the next step.)
Exhausted ==
  \E q \in Proc :
    \/ pc[q] = "select" /\ \A r \in Proc : ~Fresh(r)
    \/ pc[q] = "acceptWrite" /\ nonces = MaxNonce
Committed == \E q \in Proc : pc[q] \in (Launching \ {"launcher", "awaitAccept"})
                                         \cup {"acceptCheck", "acceptWrite"}
HandoffSettles ==
  Committed ~> (~Committed \/ Exhausted \/ \E p \in Proc : pc[p] = "stranded")

\* Nobody who launches, hands over or takes over waits for ever (both above).
LaunchesSettle == GuardIsDropped /\ HandoffSettles
=============================================================================
