----------------------------- MODULE SharedLlm -----------------------------
(***************************************************************************)
(* The shared LLM connections of a Home: GlobalLlmService, GlobalLlmHost,  *)
(* the stores behind them, and the part of the Supervisor that calls them. *)
(* There is one catalog of connections, one file of credential records,    *)
(* one file of operations and one policy per space.  A space freezes what  *)
(* it may use in a snapshot when its process is spawned.                   *)
(*                                                                         *)
(* Writes and jobs run one at a time on the tail of the job store, but a   *)
(* save with a credential writes three files, a batch restarts spaces one  *)
(* by one, the process may die between any two steps or while it holds the *)
(* lock directory of a file, and a client may send an operation again.     *)
(*                                                                         *)
(* A request that is refused and changes nothing is no step: one with an   *)
(* old revision, or an apply plan whose observations no longer hold.  Left *)
(* out: what a connection says beyond being enabled (a default is refused  *)
(* as well when the connection lacks its model), the default of a single   *)
(* space, imports, probes, and the start of the manager at boot, which is  *)
(* not on the tail.                                                        *)
(***************************************************************************)
EXTENDS Naturals, FiniteSets

CONSTANTS Conn,         \* connection ids
          Op,           \* operation ids a client may send, each any number of times
          Space,        \* names of spaces
          All,          \* the selection "all"
          NoFile,       \* no policy file: the space inherits all connections
          None,         \* no connection, no record, no operation, no space
          MaxRevision,  \* bound on the catalog's revision
          MaxCred,      \* bound on the credential revision of a connection
          MaxBoots      \* bound on restarts of the Supervisor

ASSUME BoundAssumption == MaxRevision \in Nat /\ MaxCred \in Nat /\ MaxBoots \in Nat
ASSUME NoneAssumption ==
    None \notin Conn \cup Op \cup Space \cup {All, NoFile} \cup (0..MaxRevision)
ASSUME SelectionAssumption == All # NoFile /\ \A S \in SUBSET Conn : S \notin {All, NoFile}

VARIABLES
    catalog,      \* catalog.json
    records,      \* the credential records: the operation that wrote each
    operations,   \* operations.json
    policy,       \* the policy file of each space
    registered,   \* the profiles that exist
    locks,        \* lock directories a dead process left
    boots,        \* how often the Supervisor has been restarted
    tail,         \* the callback at the head of the job store's tail
    status,       \* the state of each space's process
    snapshot,     \* what each process was launched with
    applied,      \* llmApplied: the revision each space is said to run with
    published     \* history: the records that the catalog has named

disk == <<catalog, records, operations, policy, registered, locks, published>>
spaces == <<status, snapshot>>
vars == <<disk, boots, tail, applied, spaces>>

Record == Conn \X (1..MaxCred)
Selection == {All} \cup SUBSET Conn
Status == {"stopped", "starting", "running", "unknown"}
Connection == [auth : Record \cup {None}, enabled : BOOLEAN]
Free == [kind |-> "free"]

Saves == [kind : {"save"}, op : Op, conn : Conn, enabled : BOOLEAN,
          step : {"record", "publish", "commit"}]
Starts == [kind : {"start"}, space : Space]
Applies == [kind : {"apply"}, revision : 0..MaxRevision, spaces : SUBSET Space,
            todo : SUBSET Space, space : Space \cup {None}]

TypeOK ==
    /\ catalog.revision \in 0..MaxRevision
    /\ DOMAIN catalog.connections \subseteq Conn
    /\ \A c \in DOMAIN catalog.connections : catalog.connections[c] \in Connection
    /\ catalog.default \in Conn \cup {None}
    /\ catalog.retired \subseteq Conn
    /\ records \in [Record -> Op \cup {None}]
    /\ operations \in [Op -> {"absent", "unknown", "committed"}]
    /\ DOMAIN policy = Space
    /\ \A s \in Space : policy[s] \in {All, NoFile} \/ policy[s] \subseteq Conn
    /\ registered \subseteq Space
    /\ locks \subseteq Space \cup {"catalog", "operations"}
    /\ boots \in 0..MaxBoots
    /\ tail \in {Free} \cup Saves \cup Starts \cup Applies
    /\ status \in [Space -> Status]
    /\ DOMAIN snapshot = Space
    /\ \A s \in Space : \/ status[s] = "stopped" /\ snapshot[s] = None
                        \/ /\ status[s] # "stopped"
                           /\ snapshot[s] \in [revision : 0..MaxRevision, uses : SUBSET Conn]
    /\ applied \in [Space -> 0..MaxRevision \cup {None}]
    /\ published \subseteq Record

Existing == DOMAIN catalog.connections

\* What a process holding this policy is launched with.
Selected(s) == IF policy[s] \in {All, NoFile} THEN Existing ELSE policy[s]
Uses(s) == {c \in Selected(s) : catalog.connections[c].enabled}

Binds(s, c) == policy[s] \in {All, NoFile} \/ c \in policy[s]

Init ==
    /\ catalog = [revision |-> 0, connections |-> <<>>, default |-> None, retired |-> {}]
    /\ records = [r \in Record |-> None]
    /\ operations = [o \in Op |-> "absent"]
    /\ policy = [s \in Space |-> NoFile]
    /\ registered = Space
    /\ locks = {} /\ boots = 0 /\ tail = Free
    /\ status = [s \in Space |-> "stopped"]
    /\ snapshot = [s \in Space |-> None]
    /\ applied = [s \in Space |-> None]
    /\ published = {}

(***************************************************************************)
(* Writes of the catalog and of policies.  Each is one callback on the     *)
(* tail with one write.                                                    *)
(***************************************************************************)
Exclusive == tail = Free

\* FileLlmCatalogStore.write: under the lock of the file.
WriteCatalog(connections, default, retired) ==
    /\ "catalog" \notin locks
    /\ catalog.revision < MaxRevision
    /\ catalog' = [revision |-> catalog.revision + 1, connections |-> connections,
                   default |-> default, retired |-> retired]

With(c, connection) == [d \in Existing \cup {c} |->
                            IF d = c THEN connection ELSE catalog.connections[d]]

\* assertDefaultStillValid, when the saved connection is the default's.
KeepsDefault(c, enabled) == catalog.default = c => enabled

\* An id drawn by createConnectionId.
Fresh(c) == c \notin Existing \cup catalog.retired
            /\ \A k \in 1..MaxCred : records[<<c, k>>] = None

\* A save keeps the credential of a connection, takes it away, or names a record:
\* any well-formed id is accepted, of another connection or of no record at all.
Auths == Record \cup {None}

SaveConnection(c, enabled, auth) ==
    /\ Exclusive
    /\ c \in Existing \/ Fresh(c)
    /\ KeepsDefault(c, enabled)
    /\ WriteCatalog(With(c, [auth |-> auth, enabled |-> enabled]),
                    catalog.default, catalog.retired)
    /\ published' = published \cup ({auth} \ {None})
    /\ UNCHANGED <<records, operations, policy, registered, locks,
                   boots, tail, applied, spaces>>

SetDefault(c) ==
    /\ Exclusive
    /\ c # None => c \in Existing /\ catalog.connections[c].enabled
    /\ WriteCatalog(catalog.connections, c, catalog.retired)
    /\ UNCHANGED <<records, operations, policy, registered, locks, published,
                   boots, tail, applied, spaces>>

\* (mutant) only the spaces that run are asked.
ReferencesTo_Running(c) == {s \in registered : status[s] = "running" /\ Binds(s, c)}

ReferencesTo(c) == {s \in registered : Binds(s, c)}

DeleteConnection(c) ==
    /\ Exclusive
    /\ c \in Existing
    /\ ReferencesTo(c) = {}
    /\ catalog.default # c
    /\ WriteCatalog([d \in Existing \ {c} |-> catalog.connections[d]],
                    catalog.default, catalog.retired \cup {c})
    /\ UNCHANGED <<records, operations, policy, registered, locks, published,
                   boots, tail, applied, spaces>>

UpdateSpacePolicy(s, shared) ==
    /\ Exclusive
    /\ s \in registered
    /\ shared # All => shared \subseteq Existing
    /\ s \notin locks
    /\ policy' = [policy EXCEPT ![s] = shared]
    /\ UNCHANGED <<catalog, records, operations, registered, locks, published,
                   boots, tail, applied, spaces>>

(***************************************************************************)
(* A save with a credential: the operation is noted as unknown, the record *)
(* is written, the catalog published, the operation noted as committed.    *)
(* An operation that is noted already is answered from its note.           *)
(***************************************************************************)
WriteOperation(o, value) ==
    /\ "operations" \notin locks
    /\ operations' = [operations EXCEPT ![o] = value]

\* (mutant) an operation whose outcome is unknown is tried again.
SaveBegin_Replays(o, c, enabled) ==
    /\ Exclusive
    /\ operations[o] # "committed"
    /\ WriteOperation(o, "unknown")
    /\ tail' = [kind |-> "save", op |-> o, conn |-> c, enabled |-> enabled, step |-> "record"]
    /\ UNCHANGED <<catalog, records, policy, registered, locks, published,
                   boots, applied, spaces>>

SaveBegin(o, c, enabled) ==
    /\ Exclusive
    /\ operations[o] = "absent"
    /\ WriteOperation(o, "unknown")
    /\ tail' = [kind |-> "save", op |-> o, conn |-> c, enabled |-> enabled, step |-> "record"]
    /\ UNCHANGED <<catalog, records, policy, registered, locks, published,
                   boots, applied, spaces>>

At(step) == tail.kind = "save" /\ tail.step = step

\* nextCredentialRecordId: one more than the revision the connection uses.
NextCred(c) ==
    IF c \in Existing /\ catalog.connections[c].auth # None
    THEN catalog.connections[c].auth[2] + 1 ELSE 1

NextRecord == <<tail.conn, NextCred(tail.conn)>>

SaveRecord ==
    /\ At("record")
    /\ tail.conn \notin catalog.retired
    /\ NextRecord \in Record
    /\ records[NextRecord] = None
    /\ records' = [records EXCEPT ![NextRecord] = tail.op]
    /\ tail' = [tail EXCEPT !.step = "publish"]
    /\ UNCHANGED <<catalog, operations, policy, registered, locks, published,
                   boots, applied, spaces>>

SavePublish ==
    /\ At("publish")
    /\ KeepsDefault(tail.conn, tail.enabled)
    /\ WriteCatalog(With(tail.conn, [auth |-> NextRecord, enabled |-> tail.enabled]),
                    catalog.default, catalog.retired)
    /\ published' = published \cup {NextRecord}
    /\ tail' = [tail EXCEPT !.step = "commit"]
    /\ UNCHANGED <<records, operations, policy, registered, locks, boots, applied, spaces>>

SaveCommit ==
    /\ At("commit")
    /\ WriteOperation(tail.op, "committed")
    /\ tail' = Free
    /\ UNCHANGED <<catalog, records, policy, registered, locks, published,
                   boots, applied, spaces>>

\* Any check or write of a save may fail; the operation stays unknown.
SaveFail ==
    /\ tail.kind = "save"
    /\ tail' = Free
    /\ UNCHANGED <<disk, boots, applied, spaces>>

(***************************************************************************)
(* Spaces.                                                                 *)
(***************************************************************************)
CreateSpace(s, choice) ==
    /\ Exclusive
    /\ s \notin registered
    /\ registered' = registered \cup {s}
    /\ policy' = IF choice # NoFile /\ policy[s] = NoFile /\ s \notin locks
                 THEN [policy EXCEPT ![s] = choice] ELSE policy
    /\ UNCHANGED <<catalog, records, operations, locks, published,
                   boots, tail, applied, spaces>>

\* stopOwned; a process that was not adopted is left alone.
Stop(s) ==
    IF status[s] = "unknown" THEN UNCHANGED spaces
    ELSE /\ status' = [status EXCEPT ![s] = "stopped"]
         /\ snapshot' = [snapshot EXCEPT ![s] = None]

\* space.delete; the data directory, with the policy in it, goes only on request.
DeleteSpace(s, removeData) ==
    /\ Exclusive
    /\ s \in registered
    /\ Stop(s)
    /\ registered' = registered \ {s}
    /\ policy' = IF removeData THEN [policy EXCEPT ![s] = NoFile] ELSE policy
    /\ locks' = IF removeData THEN locks \ {s} ELSE locks
    /\ UNCHANGED <<catalog, records, operations, published, boots, tail, applied>>

StopSpace(s) ==
    /\ Exclusive
    /\ s \in registered
    /\ Stop(s)
    /\ UNCHANGED <<disk, boots, tail, applied>>

StartSpace(s) ==
    /\ Exclusive
    /\ s \in registered
    /\ status[s] = "stopped"
    /\ tail' = [kind |-> "start", space |-> s]
    /\ UNCHANGED <<disk, boots, applied, spaces>>

\* The space that the callback on the tail is starting.
OnTail(s) == tail.kind \in {"start", "apply"} /\ tail.space = s

\* writeSpaceLlmLaunchSnapshot; it throws when the policy names a connection
\* that does not exist.
Spawn(s) ==
    /\ OnTail(s)
    /\ status[s] = "stopped"
    /\ Selected(s) \subseteq Existing
    /\ status' = [status EXCEPT ![s] = "starting"]
    /\ snapshot' = [snapshot EXCEPT ![s] = [revision |-> catalog.revision, uses |-> Uses(s)]]
    /\ UNCHANGED <<disk, boots, tail, applied>>

\* The rest of startSpace: the revision the space is said to run with is read now;
\* in a batch markApplied sets that of the plan, and the next space follows.
StartReady(s) ==
    /\ OnTail(s)
    /\ status[s] = "starting"
    /\ status' = [status EXCEPT ![s] = "running"]
    /\ applied' = [applied EXCEPT ![s] = IF tail.kind = "apply" THEN tail.revision
                                         ELSE catalog.revision]
    /\ tail' = IF tail.kind = "apply" THEN [tail EXCEPT !.space = None, !.todo = @ \ {s}]
               ELSE Free
    /\ UNCHANGED <<disk, boots, snapshot>>

\* A start that fails ends its job, and the whole batch.  One that fails once the
\* process is up (no port, a replaced view, an instance record that cannot be
\* written) leaves the process running, and what is said of it as it was.
StartFail(s) ==
    /\ OnTail(s)
    /\ \/ Stop(s)
       \/ /\ status[s] = "starting"
          /\ status' = [status EXCEPT ![s] = "running"]
          /\ UNCHANGED snapshot
    /\ tail' = Free
    /\ UNCHANGED <<disk, boots, applied>>

SpaceDies(s) ==
    /\ status[s] = "running"
    /\ Stop(s)
    /\ UNCHANGED <<disk, boots, tail, applied>>

(***************************************************************************)
(* The batch that applies a revision to chosen spaces, as a job.           *)
(***************************************************************************)

\* assertApplyReady: the revision and every space are as the client saw them.
ApplyBegin(chosen) ==
    /\ Exclusive
    /\ chosen \subseteq registered
    /\ \A s \in chosen : status[s] # "unknown"
    /\ tail' = [kind |-> "apply", revision |-> catalog.revision, spaces |-> chosen,
                todo |-> chosen, space |-> None]
    /\ UNCHANGED <<disk, boots, applied, spaces>>

Batch == tail.kind = "apply" /\ tail.space = None

\* (mutant) a space that runs is marked like one that is stopped.
ApplyToStopped_Any(s) ==
    /\ Batch /\ s \in tail.todo
    /\ status[s] # "unknown"
    /\ applied' = [applied EXCEPT ![s] = tail.revision]
    /\ tail' = [tail EXCEPT !.todo = @ \ {s}]
    /\ UNCHANGED <<disk, boots, spaces>>

ApplyToStopped(s) ==
    /\ Batch /\ s \in tail.todo
    /\ status[s] = "stopped"
    /\ applied' = [applied EXCEPT ![s] = tail.revision]
    /\ tail' = [tail EXCEPT !.todo = @ \ {s}]
    /\ UNCHANGED <<disk, boots, spaces>>

\* A running space is stopped and, as a start on the tail, started again.
ApplyToRunning(s) ==
    /\ Batch /\ s \in tail.todo
    /\ status[s] = "running"
    /\ Stop(s)
    /\ tail' = [tail EXCEPT !.space = s]
    /\ UNCHANGED <<disk, boots, applied>>

\* The first failure ends the batch: a space is busy, or cannot be stopped.
ApplyFail ==
    /\ Batch /\ tail.todo # {}
    /\ tail' = Free
    /\ UNCHANGED <<disk, boots, applied, spaces>>

ApplyDone ==
    /\ Batch /\ tail.todo = {}
    /\ tail' = Free
    /\ UNCHANGED <<disk, boots, applied, spaces>>

(***************************************************************************)
(* The death of the Supervisor, and the next one.  withExclusiveDir makes  *)
(* a lock directory around each write; a process that dies in it leaves    *)
(* the directory, and every later write of that file is refused.           *)
(***************************************************************************)
Writing ==
    CASE tail = Free -> {"catalog", "operations"} \cup registered
      [] tail.kind = "save" -> IF tail.step = "publish" THEN {"catalog", "operations"}
                               ELSE {"operations"}
      [] tail.kind \in {"start", "apply"} -> {}

\* Processes may outlive the Supervisor; the next one does not adopt them.
Restart(held, left) ==
    /\ boots < MaxBoots
    /\ boots' = boots + 1
    /\ locks' = locks \cup held
    /\ tail' = Free
    /\ applied' = [s \in Space |-> None]
    /\ status' = [s \in Space |-> IF s \in left THEN "unknown" ELSE "stopped"]
    /\ snapshot' = [s \in Space |-> IF s \in left THEN snapshot[s] ELSE None]
    /\ UNCHANGED <<catalog, records, operations, policy, registered, published>>

Alive == {s \in Space : status[s] # "stopped"}

Next ==
    \/ \E c \in Conn, enabled \in BOOLEAN : \E auth \in Auths :
           SaveConnection(c, enabled, auth)
    \/ \E c \in Conn \cup {None} : SetDefault(c)
    \/ \E c \in Conn : DeleteConnection(c)
    \/ \E s \in Space, shared \in Selection : UpdateSpacePolicy(s, shared)
    \/ \E o \in Op, c \in Conn, enabled \in BOOLEAN : SaveBegin(o, c, enabled)
    \/ SaveRecord \/ SavePublish \/ SaveCommit \/ SaveFail
    \/ \E s \in Space, choice \in {NoFile, All, {}} : CreateSpace(s, choice)
    \/ \E s \in Space, removeData \in BOOLEAN : DeleteSpace(s, removeData)
    \/ \E s \in Space : \/ StopSpace(s) \/ StartSpace(s) \/ SpaceDies(s)
                        \/ Spawn(s) \/ StartReady(s) \/ StartFail(s)
                        \/ ApplyToStopped(s) \/ ApplyToRunning(s)
    \/ \E chosen \in SUBSET Space \ {{}} : ApplyBegin(chosen)
    \/ ApplyFail \/ ApplyDone
    \/ \E held \in {{}} \cup {{f} : f \in Writing}, left \in SUBSET Alive :
           Restart(held, left)

Spec == Init /\ [][Next]_vars

(***************************************************************************)
(* Properties.                                                             *)
(***************************************************************************)

\* What the client is told of a save is true: an operation noted as committed
\* was published (operations.commit runs after the catalog's write), and a record
\* that was never published belongs to an operation that stays unknown.
CommittedIsPublished ==
    /\ \A o \in Op : operations[o] = "committed" => \E r \in published : records[r] = o
    /\ \A r \in Record \ published : records[r] # None => operations[records[r]] = "unknown"

\* The default is an enabled connection, and an id that was deleted does not
\* return, although a save with a credential read the catalog two writes before.
CatalogIsSound ==
    /\ catalog.default # None => /\ catalog.default \in Existing
                                /\ catalog.connections[catalog.default].enabled
    /\ catalog.retired \cap Existing = {}

\* A space that runs with an older catalog is shown as waiting for a restart:
\* it is not said to run with the catalog's revision (pendingRestart).  The
\* converse does not hold: after a start that failed late, a space that is up to
\* date is shown as waiting too.
PendingIsShown ==
    \A s \in Space : status[s] = "running" /\ snapshot[s].revision # catalog.revision
                       => applied[s] # catalog.revision

\* An operation id writes one record at most, and so publishes one, however often
\* the client sends it and wherever the process died
\* (GlobalLlmHost.saveConnectionWithCredential).
WrittenOnce == \A p, q \in Record : records[p] # None /\ records[p] = records[q] => p = q

Inv == TypeOK /\ WrittenOnce /\ CommittedIsPublished /\ CatalogIsSound /\ PendingIsShown

-----------------------------------------------------------------------------
(* The inductive invariant: what the properties rest on while the callback   *)
(* on the tail is between two of its steps.                                  *)

\* A record is written for an operation that has been noted.
RecordsAreNoted ==
    \A r \in Record : records[r] # None => operations[records[r]] # "absent"

\* No space is said to run with a revision that is yet to come.
AppliedIsPast == \A s \in Space : applied[s] # None => applied[s] <= catalog.revision

\* Where a save with a credential is; what it read stays as it was.
SaveIsOnRecord ==
    tail.kind = "save" =>
        /\ operations[tail.op] = "unknown"
        /\ tail.step = "record" => \A r \in Record : records[r] # tail.op
        /\ tail.step = "publish" => /\ NextRecord \in Record /\ records[NextRecord] = tail.op
                                    /\ tail.conn \notin catalog.retired
        /\ tail.step = "commit" => \E r \in published : records[r] = tail.op

\* A space starts on the tail, with the catalog as it is.
StartsOnTail ==
    \A s \in Space : status[s] = "starting" =>
        OnTail(s) /\ snapshot[s].revision = catalog.revision

\* The catalog stands still during a batch, which has been through some of the
\* chosen spaces.
BatchIsUnderWay ==
    tail.kind = "apply" =>
        /\ tail.revision = catalog.revision
        /\ \A s \in tail.spaces \ tail.todo :
               status[s] = "running" => snapshot[s].revision = tail.revision

IInv == /\ Inv /\ RecordsAreNoted /\ AppliedIsPast
        /\ SaveIsOnRecord /\ StartsOnTail /\ BatchIsUnderWay

-----------------------------------------------------------------------------
\* A policy never comes to name a connection that was deleted: the check of
\* references and the writes of policies are on one tail.  (A space created over
\* the data directory of a deleted one may find such a policy.)
Dangling == {s \in registered : ~ (Selected(s) \subseteq Existing)}
ReferencesExist == [][Dangling' \cap registered \subseteq Dangling]_vars

\* A batch that ends well has brought every chosen space that runs to the revision
\* of the plan.
BatchIsApplied ==
    [][ApplyDone => \A s \in tail.spaces :
           status[s] = "running" => snapshot[s].revision = tail.revision]_vars
=============================================================================
