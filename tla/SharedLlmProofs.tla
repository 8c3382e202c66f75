---------------------------- MODULE SharedLlmProofs ----------------------------
(***************************************************************************)
(* Proofs about SharedLlm for every set of connections, operations and     *)
(* spaces.  They rest on the inductive invariant IInv: where a save is     *)
(* between its three writes, that no space starts while the catalog moves, *)
(* and what a batch has done so far.                                       *)
(***************************************************************************)
EXTENDS SharedLlm, TLAPS

\* What the tail holds, by the kind of its callback.
LEMMA TailShape ==
  ASSUME TypeOK
  PROVE  /\ tail.kind = "save" => tail \in Saves
         /\ tail.kind = "start" => tail \in Starts
         /\ tail.kind = "apply" => tail \in Applies
         /\ tail.kind \in {"free", "save", "start", "apply"}
         /\ tail.kind = "free" <=> tail = Free
<1>1. CASE tail = Free  BY <1>1 DEF Free
<1>2. CASE tail \in Saves  BY <1>2 DEF Saves, Free
<1>3. CASE tail \in Starts  BY <1>3 DEF Starts, Free
<1>4. CASE tail \in Applies  BY <1>4 DEF Applies, Free
<1> QED BY <1>1, <1>2, <1>3, <1>4 DEF TypeOK

LEMMA FreeIsFree == Free.kind = "free"
  BY DEF Free

\* What stopping a space changes.
LEMMA StopFacts ==
  ASSUME TypeOK, NEW s \in Space, Stop(s)
  PROVE  /\ status' \in [Space -> Status]
         /\ \A t \in Space \ {s} : status'[t] = status[t] /\ snapshot'[t] = snapshot[t]
         /\ \/ status'[s] = "unknown" /\ status[s] = "unknown" /\ snapshot'[s] = snapshot[s]
            \/ status'[s] = "stopped" /\ snapshot'[s] = None
<1>1. CASE status[s] = "unknown"  BY <1>1 DEF TypeOK, Stop, spaces
<1>2. CASE status[s] # "unknown"
  BY <1>2 DEF TypeOK, Stop, Status
<1> QED BY <1>1, <1>2

-----------------------------------------------------------------------------
(* Types.                                                                    *)

CatalogOK ==
    /\ catalog.revision \in 0..MaxRevision
    /\ DOMAIN catalog.connections \subseteq Conn
    /\ \A c \in DOMAIN catalog.connections : catalog.connections[c] \in Connection
    /\ catalog.default \in Conn \cup {None}
    /\ catalog.retired \subseteq Conn
SpacesOK ==
    /\ status \in [Space -> Status]
    /\ DOMAIN snapshot = Space
    /\ \A s \in Space : \/ status[s] = "stopped" /\ snapshot[s] = None
                        \/ /\ status[s] # "stopped"
                           /\ snapshot[s] \in [revision : 0..MaxRevision, uses : SUBSET Conn]
PolicyOK == DOMAIN policy = Space /\ \A s \in Space : policy[s] \in {All, NoFile} \/ policy[s] \subseteq Conn

\* A write of the catalog that puts one connection in.
LEMMA PutOK ==
  ASSUME TypeOK, NEW c \in Conn, NEW connection \in Connection,
         WriteCatalog(With(c, connection), catalog.default, catalog.retired)
  PROVE  CatalogOK'
<1>1. catalog' = [revision |-> catalog.revision + 1, connections |-> With(c, connection),
                  default |-> catalog.default, retired |-> catalog.retired]
      /\ catalog.revision < MaxRevision
  BY DEF WriteCatalog
<1>2. /\ DOMAIN With(c, connection) = Existing \cup {c}
      /\ \A d \in Existing \cup {c} : With(c, connection)[d] \in Connection
  BY DEF With, TypeOK, Existing
<1>3. catalog'.revision \in 0..MaxRevision  BY <1>1, BoundAssumption DEF TypeOK
<1>4. catalog'.connections = With(c, connection) /\ catalog'.default = catalog.default
      /\ catalog'.retired = catalog.retired
  BY <1>1
<1> QED BY <1>2, <1>3, <1>4 DEF CatalogOK, TypeOK, Existing

LEMMA ConnectionOK ==
  ASSUME NEW auth \in Record \cup {None}, NEW enabled \in BOOLEAN
  PROVE  [auth |-> auth, enabled |-> enabled] \in Connection
  BY DEF Connection

\* The record a save goes for.
LEMMA NextRecordOK ==
  ASSUME TypeOK, NEW c \in Conn
  PROVE  NextCred(c) \in Nat \ {0}
<1>1. CASE c \in Existing /\ catalog.connections[c].auth # None
  <2>1. catalog.connections[c].auth \in Record
    BY <1>1 DEF TypeOK, Connection, Existing
  <2> QED BY <1>1, <2>1, BoundAssumption DEF NextCred, Record
<1> QED BY <1>1 DEF NextCred

LEMMA CatalogTypes ==
  ASSUME TypeOK,
         \/ \E c \in Conn, enabled \in BOOLEAN : \E auth \in Auths : SaveConnection(c, enabled, auth)
         \/ \E c \in Conn \cup {None} : SetDefault(c)
         \/ \E c \in Conn : DeleteConnection(c)
         \/ \E s \in Space, shared \in Selection : UpdateSpacePolicy(s, shared)
  PROVE  TypeOK'
<1>1. ASSUME NEW c \in Conn, NEW enabled \in BOOLEAN, NEW auth \in Auths,
             SaveConnection(c, enabled, auth)
      PROVE  TypeOK'
  <2>1. auth \in Record \cup {None}  BY DEF Auths
  <2>2. CatalogOK'  BY <1>1, <2>1, ConnectionOK, PutOK DEF SaveConnection
  <2>3. published' \subseteq Record  BY <1>1, <2>1 DEF SaveConnection, TypeOK
  <2> QED BY <1>1, <2>2, <2>3 DEF SaveConnection, CatalogOK, TypeOK, spaces
<1>2. ASSUME NEW c \in Conn \cup {None}, SetDefault(c) PROVE TypeOK'
  <2>1. CatalogOK'
    BY <1>2, BoundAssumption DEF SetDefault, WriteCatalog, TypeOK, CatalogOK
  <2> QED BY <1>2, <2>1 DEF SetDefault, CatalogOK, TypeOK, spaces
<1>3. ASSUME NEW c \in Conn, DeleteConnection(c) PROVE TypeOK'
  <2>1. CatalogOK'
    BY <1>3, BoundAssumption DEF DeleteConnection, WriteCatalog, TypeOK, CatalogOK, Existing
  <2> QED BY <1>3, <2>1 DEF DeleteConnection, CatalogOK, TypeOK, spaces
<1>4. ASSUME NEW s \in Space, NEW shared \in Selection, UpdateSpacePolicy(s, shared) PROVE TypeOK'
  <2>1. PolicyOK'  BY <1>4 DEF UpdateSpacePolicy, TypeOK, PolicyOK, Selection
  <2> QED BY <1>4, <2>1 DEF UpdateSpacePolicy, PolicyOK, TypeOK, spaces
<1> QED BY <1>1, <1>2, <1>3, <1>4

LEMMA SaveTypes ==
  ASSUME TypeOK, SaveIsOnRecord,
         \/ \E o \in Op, c \in Conn, enabled \in BOOLEAN : SaveBegin(o, c, enabled)
         \/ SaveRecord \/ SavePublish \/ SaveCommit \/ SaveFail
  PROVE  TypeOK'
<1>1. ASSUME NEW o \in Op, NEW c \in Conn, NEW enabled \in BOOLEAN, SaveBegin(o, c, enabled)
      PROVE  TypeOK'
  <2>1. tail' \in Saves  BY <1>1 DEF SaveBegin, Saves
  <2>2. operations' \in [Op -> {"absent", "unknown", "committed"}]
    BY <1>1 DEF SaveBegin, WriteOperation, TypeOK
  <2> QED BY <1>1, <2>1, <2>2 DEF SaveBegin, TypeOK, spaces
<1>2. CASE SaveRecord
  <2>1. tail \in Saves  BY <1>2, TailShape DEF SaveRecord, At
  <2>2. tail' \in Saves  BY <1>2, <2>1 DEF SaveRecord, Saves
  <2>3. records' \in [Record -> Op \cup {None}]
    <3>1. tail.op \in Op  BY <2>1 DEF Saves
    <3> QED BY <1>2, <3>1 DEF SaveRecord, TypeOK
  <2> QED BY <1>2, <2>2, <2>3 DEF SaveRecord, TypeOK, spaces
<1>3. CASE SavePublish
  <2>1. tail \in Saves  BY <1>3, TailShape DEF SavePublish, At
  <2>2. tail' \in Saves  BY <1>3, <2>1 DEF SavePublish, Saves
  <2>3. tail.conn \in Conn /\ tail.enabled \in BOOLEAN  BY <2>1 DEF Saves
  <2>4. NextRecord \in Record
    BY <1>3 DEF SavePublish, At, SaveIsOnRecord
  <2>5. CatalogOK'  BY <1>3, <2>3, <2>4, ConnectionOK, PutOK DEF SavePublish
  <2>6. published' \subseteq Record  BY <1>3, <2>4 DEF SavePublish, TypeOK
  <2> QED BY <1>3, <2>2, <2>5, <2>6 DEF SavePublish, CatalogOK, TypeOK, spaces
<1>4. CASE SaveCommit
  <2>1. operations' \in [Op -> {"absent", "unknown", "committed"}]
    BY <1>4 DEF SaveCommit, WriteOperation, TypeOK
  <2> QED BY <1>4, <2>1 DEF SaveCommit, TypeOK, spaces
<1>5. CASE SaveFail
  BY <1>5 DEF SaveFail, TypeOK, spaces, disk
<1> QED BY <1>1, <1>2, <1>3, <1>4, <1>5

LEMMA SpaceTypes ==
  ASSUME TypeOK, NEW s \in Space,
         \/ \E choice \in {NoFile, All, {}} : CreateSpace(s, choice)
         \/ \E removeData \in BOOLEAN : DeleteSpace(s, removeData)
         \/ StopSpace(s) \/ StartSpace(s) \/ SpaceDies(s)
         \/ Spawn(s) \/ StartReady(s) \/ StartFail(s)
  PROVE  TypeOK'
<1>0. ASSUME Stop(s) PROVE SpacesOK'
  BY <1>0, StopFacts DEF SpacesOK, TypeOK, Stop, spaces
<1>1. ASSUME NEW choice \in {NoFile, All, {}}, CreateSpace(s, choice) PROVE TypeOK'
  <2>1. PolicyOK'  BY <1>1 DEF CreateSpace, TypeOK, PolicyOK
  <2> QED BY <1>1, <2>1 DEF CreateSpace, TypeOK, PolicyOK, spaces
<1>2. ASSUME NEW removeData \in BOOLEAN, DeleteSpace(s, removeData) PROVE TypeOK'
  <2>1. PolicyOK'  BY <1>2 DEF DeleteSpace, TypeOK, PolicyOK
  <2>2. SpacesOK'  BY <1>0, <1>2 DEF DeleteSpace
  <2>3. locks' \subseteq Space \cup {"catalog", "operations"}
    BY <1>2 DEF DeleteSpace, TypeOK
  <2> QED BY <1>2, <2>1, <2>2, <2>3 DEF DeleteSpace, TypeOK, PolicyOK, SpacesOK
<1>3. CASE StopSpace(s)
  <2>1. SpacesOK'  BY <1>0, <1>3 DEF StopSpace
  <2> QED BY <1>3, <2>1 DEF StopSpace, TypeOK, SpacesOK, disk
<1>4. CASE StartSpace(s)
  <2>1. tail' \in Starts  BY <1>4 DEF StartSpace, Starts
  <2> QED BY <1>4, <2>1 DEF StartSpace, TypeOK, disk, spaces
<1>5. CASE SpaceDies(s)
  <2>1. SpacesOK'  BY <1>0, <1>5 DEF SpaceDies
  <2> QED BY <1>5, <2>1 DEF SpaceDies, TypeOK, SpacesOK, disk
<1>6. CASE Spawn(s)
  <2>1. status' \in [Space -> Status] /\ status'[s] = "starting"
        /\ \A t \in Space \ {s} : status'[t] = status[t] /\ snapshot'[t] = snapshot[t]
    BY <1>6 DEF Spawn, TypeOK, Status
  <2>2. DOMAIN snapshot' = Space
        /\ snapshot'[s] = [revision |-> catalog.revision, uses |-> Uses(s)]
    BY <1>6 DEF Spawn, TypeOK
  <2>3. Uses(s) \subseteq Conn /\ catalog.revision \in 0..MaxRevision
    BY <1>6 DEF Spawn, Uses, TypeOK, Existing
  <2>4. SpacesOK'  BY <2>1, <2>2, <2>3 DEF SpacesOK, TypeOK
  <2> QED BY <1>6, <2>4 DEF Spawn, TypeOK, SpacesOK, disk
<1>7. CASE StartReady(s)
  <2>1. tail' \in {Free} \cup Applies
    <3>1. CASE tail.kind = "apply"
      <4>1. tail \in Applies  BY <3>1, TailShape
      <4> QED BY <1>7, <3>1, <4>1 DEF StartReady, Applies
    <3> QED BY <1>7, <3>1 DEF StartReady
  <2>2. tail.kind = "apply" => tail.revision \in 0..MaxRevision
    BY TailShape DEF Applies
  <2>3. applied' \in [Space -> 0..MaxRevision \cup {None}]
    BY <1>7, <2>2 DEF StartReady, TypeOK
  <2>4. SpacesOK'
    BY <1>7 DEF StartReady, TypeOK, SpacesOK, Status
  <2> QED BY <1>7, <2>1, <2>3, <2>4 DEF StartReady, TypeOK, SpacesOK, disk
<1>8. CASE StartFail(s)
  <2>1. SpacesOK'
    <3>1. CASE Stop(s)  BY <1>0, <3>1
    <3>2. CASE /\ status[s] = "starting" /\ UNCHANGED snapshot
               /\ status' = [status EXCEPT ![s] = "running"]
      BY <3>2 DEF TypeOK, SpacesOK, Status
    <3> QED BY <1>8, <3>1, <3>2 DEF StartFail
  <2> QED BY <1>8, <2>1 DEF StartFail, TypeOK, SpacesOK, disk
<1> QED BY <1>1, <1>2, <1>3, <1>4, <1>5, <1>6, <1>7, <1>8

LEMMA BatchTypes ==
  ASSUME TypeOK,
         \/ \E s \in Space : ApplyToStopped(s) \/ ApplyToRunning(s)
         \/ \E chosen \in SUBSET Space \ {{}} : ApplyBegin(chosen)
         \/ ApplyFail \/ ApplyDone
         \/ \E held \in {{}} \cup {{f} : f \in Writing}, left \in SUBSET Alive : Restart(held, left)
  PROVE  TypeOK'
<1>1. ASSUME NEW s \in Space, ApplyToStopped(s) PROVE TypeOK'
  <2>1. tail \in Applies  BY <1>1, TailShape DEF ApplyToStopped, Batch
  <2>2. tail' \in Applies  BY <1>1, <2>1 DEF ApplyToStopped, Applies
  <2>3. applied' \in [Space -> 0..MaxRevision \cup {None}]
    BY <1>1, <2>1 DEF ApplyToStopped, Applies, TypeOK
  <2> QED BY <1>1, <2>2, <2>3 DEF ApplyToStopped, TypeOK, disk, spaces
<1>2. ASSUME NEW s \in Space, ApplyToRunning(s) PROVE TypeOK'
  <2>1. tail \in Applies  BY <1>2, TailShape DEF ApplyToRunning, Batch
  <2>2. tail' \in Applies  BY <1>2, <2>1 DEF ApplyToRunning, Applies
  <2>3. SpacesOK'  BY <1>2, StopFacts DEF ApplyToRunning, Stop, spaces, SpacesOK, TypeOK
  <2> QED BY <1>2, <2>2, <2>3 DEF ApplyToRunning, TypeOK, SpacesOK, disk
<1>3. ASSUME NEW chosen \in SUBSET Space, ApplyBegin(chosen) PROVE TypeOK'
  <2>1. tail' \in Applies  BY <1>3 DEF ApplyBegin, Applies, TypeOK
  <2> QED BY <1>3, <2>1 DEF ApplyBegin, TypeOK, disk, spaces
<1>4. CASE ApplyFail \/ ApplyDone
  BY <1>4 DEF ApplyFail, ApplyDone, TypeOK, disk, spaces
<1>5. ASSUME NEW held \in {{}} \cup {{f} : f \in Writing}, NEW left \in SUBSET Alive, Restart(held, left)
      PROVE  TypeOK'
  <2>1. Writing \subseteq Space \cup {"catalog", "operations"}
    <3>1. CASE tail = Free  BY <3>1 DEF Writing, TypeOK
    <3>2. CASE tail.kind = "save"
      BY <3>2, TailShape DEF Writing, Free
    <3>3. CASE tail.kind \in {"start", "apply"}
      BY <3>3, TailShape DEF Writing, Free
    <3> QED BY <3>1, <3>2, <3>3, TailShape
  <2>2. locks' \subseteq Space \cup {"catalog", "operations"}
    BY <1>5, <2>1 DEF Restart, TypeOK
  <2>3. SpacesOK'
    BY <1>5 DEF Restart, TypeOK, SpacesOK, Status, Alive
  <2>4. boots' \in 0..MaxBoots  BY <1>5, BoundAssumption DEF Restart, TypeOK
  <2>5. applied' \in [Space -> 0..MaxRevision \cup {None}]  BY <1>5 DEF Restart
  <2> QED BY <1>5, <2>2, <2>3, <2>4, <2>5 DEF Restart, TypeOK, SpacesOK
<1> QED BY <1>1, <1>2, <1>3, <1>4, <1>5

-----------------------------------------------------------------------------
(* What a step keeps because it leaves the state it speaks of alone.         *)

Notes == RecordsAreNoted /\ WrittenOnce /\ CommittedIsPublished

LEMMA NotesKept ==
  ASSUME Notes, UNCHANGED <<records, operations>>, published \subseteq published'
  PROVE  Notes'
  BY DEF Notes, RecordsAreNoted, WrittenOnce, CommittedIsPublished

LEMMA CatalogKept ==
  ASSUME CatalogIsSound, UNCHANGED <<catalog, records>>
  PROVE  CatalogIsSound'
  BY DEF CatalogIsSound, Existing

\* What the spaces are said to run with.
Shown == PendingIsShown /\ AppliedIsPast

LEMMA AppliedKept ==
  ASSUME Shown, UNCHANGED <<catalog, spaces, applied>>
  PROVE  Shown'
  BY DEF Shown, PendingIsShown, AppliedIsPast, spaces

\* The catalog moves on: nothing that is said of a space is said of its next revision.
LEMMA AppliedFallsBehind ==
  ASSUME TypeOK, Shown, UNCHANGED <<spaces, applied>>,
         catalog.revision < MaxRevision, catalog'.revision = catalog.revision + 1
  PROVE  Shown'
<1>1. catalog.revision \in Nat  BY BoundAssumption DEF TypeOK
<1>2. \A s \in Space : applied[s] # None => applied[s] \in Nat
  BY BoundAssumption DEF TypeOK
<1>3. catalog'.revision # None  BY <1>1, BoundAssumption, NoneAssumption
<1> QED BY <1>1, <1>2, <1>3 DEF Shown, PendingIsShown, AppliedIsPast, spaces

\* What is said of the spaces that keep running, when one is stopped or starts.
LEMMA OthersShown ==
  ASSUME Shown, NEW s \in Space, UNCHANGED <<catalog, applied>>,
         \A t \in Space \ {s} : status'[t] = status[t] /\ snapshot'[t] = snapshot[t],
         status'[s] # "running" \/ snapshot'[s].revision = catalog.revision
  PROVE  Shown'
  BY DEF Shown, PendingIsShown, AppliedIsPast

\* No space starts when the tail is not starting one.
LEMMA NoneStarting ==
  ASSUME TypeOK, StartsOnTail, tail.kind \notin {"start", "apply"} \/ tail.space = None
  PROVE  \A s \in Space : status[s] # "starting"
  BY NoneAssumption DEF StartsOnTail, OnTail

\* A tail that has come to rest.
LEMMA Idle ==
  ASSUME tail' = Free, \A s \in Space : status'[s] # "starting"
  PROVE  SaveIsOnRecord' /\ StartsOnTail' /\ BatchIsUnderWay'
  BY FreeIsFree DEF SaveIsOnRecord, StartsOnTail, BatchIsUnderWay

\* A save with a credential is on the tail.
LEMMA Saving ==
  ASSUME tail'.kind = "save", \A s \in Space : status'[s] # "starting"
  PROVE  StartsOnTail' /\ BatchIsUnderWay'
  BY DEF StartsOnTail, BatchIsUnderWay

Strong == /\ Notes /\ CatalogIsSound /\ Shown
          /\ SaveIsOnRecord /\ StartsOnTail /\ BatchIsUnderWay

LEMMA Split == IInv <=> TypeOK /\ Strong
  BY DEF IInv, Inv, Strong, Notes, Shown

-----------------------------------------------------------------------------
(* The writes of the catalog and of policies.                                *)

LEMMA CatalogPreserves ==
  ASSUME TypeOK, Strong,
         \/ \E c \in Conn, enabled \in BOOLEAN : \E auth \in Auths : SaveConnection(c, enabled, auth)
         \/ \E c \in Conn \cup {None} : SetDefault(c)
         \/ \E c \in Conn : DeleteConnection(c)
         \/ \E s \in Space, shared \in Selection : UpdateSpacePolicy(s, shared)
  PROVE  Strong'
<1>1. /\ tail = Free /\ tail' = Free
      /\ UNCHANGED <<records, operations>> /\ UNCHANGED <<spaces, applied>>
      /\ published \subseteq published'
  BY DEF SaveConnection, SetDefault, DeleteConnection, UpdateSpacePolicy, Exclusive
<1>0. \/ UNCHANGED catalog
      \/ catalog.revision < MaxRevision /\ catalog'.revision = catalog.revision + 1
  <2>1. ASSUME NEW connections, NEW default, NEW retired,
               WriteCatalog(connections, default, retired)
        PROVE  catalog.revision < MaxRevision /\ catalog'.revision = catalog.revision + 1
    BY <2>1 DEF WriteCatalog
  <2>2. ASSUME NEW c, NEW enabled, NEW auth, SaveConnection(c, enabled, auth)
        PROVE  catalog.revision < MaxRevision /\ catalog'.revision = catalog.revision + 1
    BY <2>2, <2>1 DEF SaveConnection
  <2>3. ASSUME NEW c, SetDefault(c)
        PROVE  catalog.revision < MaxRevision /\ catalog'.revision = catalog.revision + 1
    BY <2>3, <2>1 DEF SetDefault
  <2>4. ASSUME NEW c, DeleteConnection(c)
        PROVE  catalog.revision < MaxRevision /\ catalog'.revision = catalog.revision + 1
    BY <2>4, <2>1 DEF DeleteConnection
  <2>5. ASSUME NEW s, NEW shared, UpdateSpacePolicy(s, shared) PROVE UNCHANGED catalog
    BY <2>5 DEF UpdateSpacePolicy
  <2> QED BY <2>2, <2>3, <2>4, <2>5
<1>2. Notes' /\ Shown'  BY <1>0, <1>1, NotesKept, AppliedKept, AppliedFallsBehind DEF Strong
<1>3. \A s \in Space : status'[s] # "starting"
  BY <1>1, NoneStarting, FreeIsFree DEF Strong, spaces
<1>4. SaveIsOnRecord' /\ StartsOnTail' /\ BatchIsUnderWay'  BY <1>1, <1>3, Idle
<1>5. CatalogIsSound'
  <2>1. ASSUME NEW c \in Conn, NEW enabled \in BOOLEAN, NEW auth \in Auths,
               SaveConnection(c, enabled, auth)
        PROVE  CatalogIsSound'
    <3>1. /\ catalog'.connections = With(c, [auth |-> auth, enabled |-> enabled])
          /\ catalog'.default = catalog.default /\ catalog'.retired = catalog.retired
      BY <2>1 DEF SaveConnection, WriteCatalog
    <3>2. Existing' = Existing \cup {c}  BY <3>1 DEF Existing, With
    <3>3. /\ catalog'.connections[c] = [auth |-> auth, enabled |-> enabled]
          /\ \A d \in Existing \ {c} : catalog'.connections[d] = catalog.connections[d]
      BY <3>1 DEF With
    <3>4. c \notin catalog.retired
      BY <2>1 DEF SaveConnection, Fresh, Strong, CatalogIsSound
    <3>5. catalog.default = c => enabled  BY <2>1 DEF SaveConnection, KeepsDefault
    <3> QED BY <1>1, <3>1, <3>2, <3>3, <3>4, <3>5 DEF CatalogIsSound, Strong
  <2>2. ASSUME NEW c \in Conn \cup {None}, SetDefault(c) PROVE CatalogIsSound'
    BY <1>1, <2>2 DEF SetDefault, WriteCatalog, CatalogIsSound, Strong, Existing
  <2>3. ASSUME NEW c \in Conn, DeleteConnection(c) PROVE CatalogIsSound'
    <3>1. /\ Existing' = Existing \ {c}
          /\ \A d \in Existing' : catalog'.connections[d] = catalog.connections[d]
          /\ catalog'.default = catalog.default /\ catalog'.default # c
          /\ catalog'.retired = catalog.retired \cup {c}
      BY <2>3 DEF DeleteConnection, WriteCatalog, Existing
    <3> QED BY <1>1, <3>1 DEF CatalogIsSound, Strong
  <2>4. ASSUME NEW s \in Space, NEW shared \in Selection, UpdateSpacePolicy(s, shared)
        PROVE  CatalogIsSound'
    BY <1>1, <2>4, CatalogKept DEF UpdateSpacePolicy, Strong
  <2> QED BY <2>1, <2>2, <2>3, <2>4
<1> QED BY <1>2, <1>4, <1>5 DEF Strong

-----------------------------------------------------------------------------
(* A save with a credential.                                                 *)

LEMMA SavePreserves ==
  ASSUME TypeOK, Strong,
         \/ \E o \in Op, c \in Conn, enabled \in BOOLEAN : SaveBegin(o, c, enabled)
         \/ SaveRecord \/ SavePublish \/ SaveCommit \/ SaveFail
  PROVE  Strong'
<1>1. /\ UNCHANGED <<spaces, applied>> /\ tail.kind \in {"free", "save"}
      /\ \/ UNCHANGED catalog
         \/ catalog.revision < MaxRevision /\ catalog'.revision = catalog.revision + 1
  BY FreeIsFree
  DEF SaveBegin, SaveRecord, SavePublish, SaveCommit, SaveFail, At, Exclusive, WriteCatalog, disk
<1>2. Shown'  BY <1>1, AppliedKept, AppliedFallsBehind DEF Strong
<1>3. \A s \in Space : status'[s] # "starting"
  BY <1>1, NoneStarting DEF Strong, spaces
<1>4. ASSUME NEW o \in Op, NEW c \in Conn, NEW enabled \in BOOLEAN, SaveBegin(o, c, enabled)
      PROVE  Strong'
  <2>1. /\ tail'.kind = "save" /\ tail'.op = o /\ tail'.step = "record"
        /\ operations[o] = "absent" /\ operations'[o] = "unknown"
        /\ \A p \in Op \ {o} : operations'[p] = operations[p]
        /\ UNCHANGED <<catalog, records>> /\ published' = published
    BY <1>4 DEF SaveBegin, WriteOperation, TypeOK
  <2>2. \A r \in Record : records[r] # o /\ (records[r] # None => records[r] \in Op)
    BY <2>1, NoneAssumption DEF Strong, Notes, RecordsAreNoted, TypeOK
  <2>3. Notes'
    <3>1. RecordsAreNoted'  BY <2>1, <2>2 DEF RecordsAreNoted, Strong, Notes
    <3>2. WrittenOnce'  BY <2>1 DEF WrittenOnce, Strong, Notes
    <3>3. CommittedIsPublished'  BY <2>1, <2>2 DEF CommittedIsPublished, Strong, Notes
    <3> QED BY <3>1, <3>2, <3>3 DEF Notes
  <2>4. SaveIsOnRecord'  BY <2>1, <2>2 DEF SaveIsOnRecord
  <2> QED BY <1>2, <1>3, <2>1, <2>3, <2>4, CatalogKept, Saving DEF Strong
<1>5. CASE SaveRecord
  <2> DEFINE n == NextRecord
  <2>1. tail \in Saves  BY <1>5, TailShape DEF SaveRecord, At
  <2>2. /\ n \in Record /\ records[n] = None /\ records'[n] = tail.op /\ tail.op \in Op
        /\ \A r \in Record \ {n} : records'[r] = records[r]
        /\ UNCHANGED <<catalog, operations, published>>
        /\ tail.step = "record" /\ tail.conn \notin catalog.retired
    BY <1>5, <2>1 DEF SaveRecord, At, TypeOK, Saves
  <2>3. /\ tail'.kind = "save" /\ tail'.op = tail.op /\ tail'.step = "publish"
        /\ tail'.conn = tail.conn
    BY <1>5, <2>1 DEF SaveRecord, Saves
  <2>4. operations[tail.op] = "unknown" /\ \A r \in Record : records[r] # tail.op
    BY <2>1, <2>2 DEF Strong, SaveIsOnRecord, Saves
  <2>5. tail.op # None  BY <2>2, NoneAssumption
  <2>6. NextRecord' = n  BY <2>2, <2>3 DEF NextRecord, NextCred, Existing
  <2>7. Notes'
    <3> HIDE DEF n
    <3>1. RecordsAreNoted'  BY <2>2, <2>4 DEF RecordsAreNoted, Strong, Notes
    <3>2. WrittenOnce'  BY <2>2, <2>4 DEF WrittenOnce, Strong, Notes
    <3>3. CommittedIsPublished'
      BY <2>2, <2>4, NoneAssumption DEF CommittedIsPublished, Strong, Notes, TypeOK
    <3> QED BY <3>1, <3>2, <3>3 DEF Notes
  <2>8. CatalogIsSound'  BY <2>2 DEF CatalogIsSound, Strong, Existing
  <2>9. SaveIsOnRecord'  BY <2>2, <2>3, <2>4, <2>6 DEF SaveIsOnRecord
  <2> QED BY <1>2, <1>3, <2>3, <2>7, <2>8, <2>9, Saving DEF Strong
<1>6. CASE SavePublish
  <2> DEFINE n == NextRecord
             connection == [auth |-> n, enabled |-> tail.enabled]
  <2>1. tail \in Saves  BY <1>6, TailShape DEF SavePublish, At
  <2>2. /\ n \in Record /\ records[n] = tail.op /\ operations[tail.op] = "unknown"
        /\ tail.conn \notin catalog.retired /\ tail.op \in Op /\ tail.conn \in Conn
    BY <1>6, <2>1 DEF SavePublish, At, Strong, SaveIsOnRecord, Saves
  <2>3. /\ catalog'.connections = With(tail.conn, connection)
        /\ catalog'.default = catalog.default /\ catalog'.retired = catalog.retired
        /\ catalog.default = tail.conn => tail.enabled
        /\ UNCHANGED <<records, operations>> /\ published' = published \cup {n}
    BY <1>6 DEF SavePublish, WriteCatalog, KeepsDefault
  <2>4. tail'.kind = "save" /\ tail'.op = tail.op /\ tail'.step = "commit"
    BY <1>6, <2>1 DEF SavePublish, Saves
  <2>5. Notes'  BY <2>3, NotesKept DEF Strong
  <2>6. CatalogIsSound'
    <3>1. Existing' = Existing \cup {tail.conn}  BY <2>3 DEF Existing, With
    <3>2. /\ catalog'.connections[tail.conn] = connection
          /\ \A d \in Existing \ {tail.conn} : catalog'.connections[d] = catalog.connections[d]
      BY <2>3 DEF With
    <3> HIDE DEF n
    <3> QED BY <2>2, <2>3, <3>1, <3>2 DEF CatalogIsSound, Strong
  <2>7. SaveIsOnRecord'
    <3> HIDE DEF n
    <3> QED BY <2>2, <2>3, <2>4 DEF SaveIsOnRecord
  <2> QED BY <1>2, <1>3, <2>4, <2>5, <2>6, <2>7, Saving DEF Strong
<1>7. CASE SaveCommit
  <2>1. tail \in Saves  BY <1>7, TailShape DEF SaveCommit, At
  <2>2. /\ tail.op \in Op /\ operations'[tail.op] = "committed"
        /\ \A o \in Op \ {tail.op} : operations'[o] = operations[o]
        /\ UNCHANGED <<catalog, records>> /\ published' = published /\ tail' = Free
    BY <1>7, <2>1 DEF SaveCommit, WriteOperation, TypeOK, Saves
  <2>3. PICK p \in published : records[p] = tail.op
    BY <1>7 DEF SaveCommit, At, Strong, SaveIsOnRecord
  <2>4. p \in Record /\ tail.op # None  BY <2>2, NoneAssumption DEF TypeOK
  <2>5. Notes'
    <3>1. RecordsAreNoted'  BY <2>2 DEF RecordsAreNoted, Strong, Notes, TypeOK
    <3>2. WrittenOnce'  BY <2>2 DEF WrittenOnce, Strong, Notes
    <3>3. \A r \in Record \ published : records[r] # tail.op
      BY <2>3, <2>4 DEF Strong, Notes, WrittenOnce
    <3>4. CommittedIsPublished'
      BY <2>2, <2>3, <3>3 DEF CommittedIsPublished, Strong, Notes, TypeOK
    <3> QED BY <3>1, <3>2, <3>4 DEF Notes
  <2> QED BY <1>2, <1>3, <2>2, <2>5, CatalogKept, Idle DEF Strong
<1>8. CASE SaveFail
  <2>1. UNCHANGED <<catalog, records, operations>> /\ published' = published /\ tail' = Free
    BY <1>8 DEF SaveFail, disk
  <2> QED BY <1>2, <1>3, <2>1, NotesKept, CatalogKept, Idle DEF Strong
<1> QED BY <1>4, <1>5, <1>6, <1>7, <1>8

-----------------------------------------------------------------------------
(* Spaces and batches.  They leave the catalog and the credentials alone.    *)

LEMMA FilesKept ==
  ASSUME Strong, UNCHANGED <<catalog, records, operations, published>>
  PROVE  Notes' /\ CatalogIsSound'
  BY NotesKept, CatalogKept DEF Strong

LEMMA SpacePreserves ==
  ASSUME TypeOK, Strong, NEW s \in Space,
         \/ \E choice \in {NoFile, All, {}} : CreateSpace(s, choice)
         \/ \E removeData \in BOOLEAN : DeleteSpace(s, removeData)
         \/ StopSpace(s) \/ StartSpace(s) \/ SpaceDies(s)
         \/ Spawn(s) \/ StartReady(s) \/ StartFail(s)
  PROVE  Strong'
<1>1. UNCHANGED <<catalog, records, operations, published>>
  BY DEF CreateSpace, DeleteSpace, StopSpace, StartSpace, SpaceDies, Spawn, StartReady,
         StartFail, disk
<1>2. Notes' /\ CatalogIsSound'  BY <1>1, FilesKept
<1>3. ASSUME Stop(s), applied' = applied
      PROVE  /\ Shown'
             /\ status'[s] # "starting" /\ \A t \in Space \ {s} : status'[t] = status[t]
  BY <1>1, <1>3, StopFacts, OthersShown DEF Strong
<1>4. CASE \E choice \in {NoFile, All, {}} : CreateSpace(s, choice)
  <2>1. tail = Free /\ tail' = Free /\ UNCHANGED <<spaces, applied>>
    BY <1>4 DEF CreateSpace, Exclusive
  <2>2. \A t \in Space : status'[t] # "starting"
    BY <2>1, NoneStarting, FreeIsFree DEF Strong, spaces
  <2> QED BY <1>1, <1>2, <2>1, <2>2, Idle, AppliedKept DEF Strong
<1>5. CASE (\E removeData \in BOOLEAN : DeleteSpace(s, removeData)) \/ StopSpace(s)
  <2>1. tail = Free /\ tail' = Free /\ Stop(s) /\ applied' = applied
    BY <1>5 DEF DeleteSpace, StopSpace, Exclusive
  <2>2. \A t \in Space : status'[t] # "starting"
    BY <1>3, <2>1, NoneStarting, FreeIsFree DEF Strong
  <2> QED BY <1>2, <1>3, <2>1, <2>2, Idle DEF Strong
<1>6. CASE StartSpace(s)
  <2>1. tail = Free /\ tail'.kind = "start" /\ UNCHANGED <<spaces, applied>>
    BY <1>6 DEF StartSpace, Exclusive
  <2>2. \A t \in Space : status'[t] # "starting"
    BY <2>1, NoneStarting, FreeIsFree DEF Strong, spaces
  <2>3. StartsOnTail' /\ BatchIsUnderWay' /\ SaveIsOnRecord'
    BY <2>1, <2>2 DEF StartsOnTail, BatchIsUnderWay, SaveIsOnRecord
  <2> QED BY <1>2, <2>1, <2>3, <1>1, AppliedKept DEF Strong
<1>7. CASE SpaceDies(s)
  <2>1. Stop(s) /\ applied' = applied /\ tail' = tail /\ status[s] = "running"
    BY <1>7 DEF SpaceDies
  <2>2. status'[s] = "stopped"
        /\ \A t \in Space \ {s} : status'[t] = status[t] /\ snapshot'[t] = snapshot[t]
    BY <2>1, StopFacts
  <2>3. \A t : OnTail(t)' = OnTail(t)  BY <2>1 DEF OnTail
  <2>4. StartsOnTail'  BY <1>1, <2>2, <2>3 DEF Strong, StartsOnTail
  <2>5. BatchIsUnderWay'
    <3>1. tail.kind = "apply" => tail.spaces \subseteq Space  BY TailShape DEF Applies
    <3> QED BY <1>1, <2>1, <2>2, <3>1 DEF Strong, BatchIsUnderWay
  <2>6. SaveIsOnRecord'
    <3>1. NextRecord' = NextRecord  BY <1>1, <2>1 DEF NextRecord, NextCred, Existing
    <3> QED BY <1>1, <2>1, <3>1 DEF Strong, SaveIsOnRecord
  <2> QED BY <1>2, <1>3, <2>1, <2>4, <2>5, <2>6 DEF Strong
<1>8. CASE Spawn(s)
  <2>1. /\ tail' = tail /\ applied' = applied /\ status[s] = "stopped"
        /\ status'[s] = "starting" /\ snapshot'[s].revision = catalog.revision
        /\ \A t \in Space \ {s} : status'[t] = status[t] /\ snapshot'[t] = snapshot[t]
        /\ OnTail(s)
    BY <1>8 DEF Spawn, TypeOK
  <2>2. \A t : OnTail(t)' = OnTail(t)  BY <2>1 DEF OnTail
  <2>3. StartsOnTail'  BY <1>1, <2>1, <2>2 DEF Strong, StartsOnTail
  <2>4. BatchIsUnderWay'
    <3>1. tail.kind = "apply" => tail.spaces \subseteq Space  BY TailShape DEF Applies
    <3> QED BY <1>1, <2>1, <3>1 DEF Strong, BatchIsUnderWay
  <2>5. SaveIsOnRecord'  BY <2>1 DEF SaveIsOnRecord, OnTail
  <2>6. Shown'  BY <1>1, <2>1, OthersShown DEF Strong
  <2> QED BY <1>2, <2>3, <2>4, <2>5, <2>6 DEF Strong
<1>9. CASE StartReady(s)
  <2>1. /\ OnTail(s) /\ status[s] = "starting" /\ snapshot' = snapshot
        /\ status'[s] = "running" /\ \A t \in Space \ {s} : status'[t] = status[t]
        /\ \A t \in Space \ {s} : applied'[t] = applied[t]
        /\ applied'[s] = IF tail.kind = "apply" THEN tail.revision ELSE catalog.revision
    BY <1>9 DEF StartReady, TypeOK
  <2>2. snapshot[s].revision = catalog.revision
    BY <2>1 DEF Strong, StartsOnTail
  <2>3. Shown'
    <3>1. applied'[s] = catalog.revision /\ catalog.revision \in Nat
      BY <2>1, BoundAssumption DEF Strong, BatchIsUnderWay, TypeOK
    <3> QED BY <1>1, <2>1, <2>2, <3>1 DEF Strong, Shown, PendingIsShown, AppliedIsPast
  <2>4. \A t \in Space : status'[t] # "starting"
    BY <2>1 DEF Strong, StartsOnTail, OnTail
  <2>5. CASE tail.kind = "apply"
    <3>1. tail \in Applies  BY <2>5, TailShape
    <3>2. /\ tail'.kind = "apply" /\ tail'.revision = tail.revision
          /\ tail'.spaces = tail.spaces /\ tail'.todo = tail.todo \ {s}
      BY <1>9, <2>5, <3>1 DEF StartReady, Applies
    <3>3. BatchIsUnderWay'
      <4>1. tail.spaces \subseteq Space  BY <3>1 DEF Applies
      <4> QED BY <1>1, <2>1, <2>2, <2>5, <3>2, <4>1 DEF Strong, BatchIsUnderWay
    <3>4. StartsOnTail' /\ SaveIsOnRecord'  BY <2>4, <3>2 DEF StartsOnTail, SaveIsOnRecord
    <3> QED BY <1>2, <2>3, <3>3, <3>4 DEF Strong
  <2>6. CASE tail.kind # "apply"
    <3>1. tail' = Free  BY <1>9, <2>6 DEF StartReady
    <3> QED BY <1>2, <2>3, <2>4, <3>1, Idle DEF Strong
  <2> QED BY <2>5, <2>6
<1>10. CASE StartFail(s)
  <2>1. OnTail(s) /\ tail' = Free /\ applied' = applied  BY <1>10 DEF StartFail
  <2>2. /\ Shown'
        /\ status'[s] # "starting" /\ \A t \in Space \ {s} : status'[t] = status[t]
    <3>1. CASE Stop(s)  BY <1>3, <2>1, <3>1
    <3>2. CASE /\ status[s] = "starting" /\ UNCHANGED snapshot
               /\ status' = [status EXCEPT ![s] = "running"]
      <4>1. snapshot[s].revision = catalog.revision  BY <3>2 DEF Strong, StartsOnTail
      <4> QED BY <1>1, <2>1, <3>2, <4>1, OthersShown DEF Strong, TypeOK
    <3> QED BY <1>10, <3>1, <3>2 DEF StartFail
  <2>3. \A t \in Space : status'[t] # "starting"
    BY <2>1, <2>2 DEF Strong, StartsOnTail, OnTail
  <2> QED BY <1>2, <2>1, <2>2, <2>3, Idle DEF Strong
<1> QED BY <1>4, <1>5, <1>6, <1>7, <1>8, <1>9, <1>10

LEMMA BatchPreserves ==
  ASSUME TypeOK, Strong,
         \/ \E s \in Space : ApplyToStopped(s) \/ ApplyToRunning(s)
         \/ \E chosen \in SUBSET Space \ {{}} : ApplyBegin(chosen)
         \/ ApplyFail \/ ApplyDone
         \/ \E held \in {{}} \cup {{f} : f \in Writing}, left \in SUBSET Alive : Restart(held, left)
  PROVE  Strong'
<1>1. UNCHANGED <<catalog, records, operations, published>>
  BY DEF ApplyToStopped, ApplyToRunning, ApplyBegin, ApplyFail, ApplyDone, Restart, disk
<1>2. Notes' /\ CatalogIsSound'  BY <1>1, FilesKept
<1>3. ASSUME Batch PROVE \A t \in Space : status[t] # "starting"
  BY <1>3, NoneStarting DEF Batch, Strong
<1>4. ASSUME NEW s \in Space, ApplyToStopped(s) PROVE Strong'
  <2>1. tail \in Applies /\ Batch  BY <1>4, TailShape DEF ApplyToStopped, Batch
  <2>2. /\ tail'.kind = "apply" /\ tail'.revision = tail.revision
        /\ tail'.spaces = tail.spaces /\ tail'.todo = tail.todo \ {s}
    BY <1>4, <2>1 DEF ApplyToStopped, Applies
  <2>3. /\ UNCHANGED spaces /\ status[s] = "stopped"
        /\ \A t \in Space \ {s} : applied'[t] = applied[t]
    BY <1>4 DEF ApplyToStopped, TypeOK
  <2>4. Shown'
    <3>1. applied'[s] = tail.revision  BY <1>4 DEF ApplyToStopped, TypeOK
    <3>2. tail.revision = catalog.revision /\ catalog.revision \in Nat
      BY <2>1, BoundAssumption DEF Batch, Strong, BatchIsUnderWay, TypeOK
    <3> QED BY <1>1, <2>3, <3>1, <3>2 DEF Strong, Shown, PendingIsShown, AppliedIsPast, spaces
  <2>5. BatchIsUnderWay'
    BY <1>1, <2>1, <2>2, <2>3 DEF Strong, BatchIsUnderWay, Batch, spaces
  <2>6. StartsOnTail' /\ SaveIsOnRecord'
    BY <1>3, <2>1, <2>2, <2>3 DEF StartsOnTail, SaveIsOnRecord, spaces
  <2> QED BY <1>2, <2>4, <2>5, <2>6 DEF Strong
<1>5. ASSUME NEW s \in Space, ApplyToRunning(s) PROVE Strong'
  <2>1. tail \in Applies /\ Batch  BY <1>5, TailShape DEF ApplyToRunning, Batch
  <2>2. /\ tail'.kind = "apply" /\ tail'.revision = tail.revision
        /\ tail'.spaces = tail.spaces /\ tail'.todo = tail.todo
    BY <1>5, <2>1 DEF ApplyToRunning, Applies
  <2>3. Stop(s) /\ status[s] = "running" /\ applied' = applied
    BY <1>5 DEF ApplyToRunning
  <2>4. status'[s] = "stopped"
        /\ \A t \in Space \ {s} : status'[t] = status[t] /\ snapshot'[t] = snapshot[t]
    BY <2>3, StopFacts
  <2>5. Shown'  BY <1>1, <2>3, <2>4, OthersShown DEF Strong
  <2>6. BatchIsUnderWay'
    <3>1. tail.spaces \subseteq Space  BY <2>1 DEF Applies
    <3> QED BY <1>1, <2>1, <2>2, <2>4, <3>1 DEF Strong, BatchIsUnderWay, Batch
  <2>7. StartsOnTail' /\ SaveIsOnRecord'
    BY <1>3, <2>1, <2>2, <2>4 DEF StartsOnTail, SaveIsOnRecord
  <2> QED BY <1>2, <2>5, <2>6, <2>7 DEF Strong
<1>6. ASSUME NEW chosen \in SUBSET Space, ApplyBegin(chosen) PROVE Strong'
  <2>1. /\ tail = Free /\ UNCHANGED <<spaces, applied>>
        /\ tail'.kind = "apply" /\ tail'.revision = catalog.revision
        /\ tail'.spaces = chosen /\ tail'.todo = chosen
    BY <1>6 DEF ApplyBegin, Exclusive
  <2>2. \A t \in Space : status'[t] # "starting"
    BY <2>1, NoneStarting, FreeIsFree DEF Strong, spaces
  <2>3. StartsOnTail' /\ SaveIsOnRecord' /\ BatchIsUnderWay'
    BY <1>1, <2>1, <2>2 DEF StartsOnTail, SaveIsOnRecord, BatchIsUnderWay
  <2> QED BY <1>2, <2>1, <2>3, <1>1, AppliedKept DEF Strong
<1>7. CASE ApplyFail \/ ApplyDone
  <2>1. Batch /\ tail' = Free /\ UNCHANGED <<spaces, applied>>
    BY <1>7 DEF ApplyFail, ApplyDone
  <2> QED BY <1>1, <1>2, <1>3, <2>1, Idle, AppliedKept DEF Strong, spaces
<1>8. ASSUME NEW held, NEW left \in SUBSET Alive, Restart(held, left) PROVE Strong'
  <2>1. tail' = Free /\ \A t \in Space : status'[t] \in {"unknown", "stopped"}
    BY <1>8 DEF Restart
  <2>2. \A t \in Space : applied'[t] = None  BY <1>8 DEF Restart
  <2> QED BY <1>2, <2>1, <2>2, Idle DEF Strong, Shown, PendingIsShown, AppliedIsPast
<1> QED BY <1>4, <1>5, <1>6, <1>7, <1>8

-----------------------------------------------------------------------------
(* The theorems.                                                             *)

\* The types, the properties of Inv and what they rest on hold in every state
\* that GlobalLlmHost, GlobalLlmService and the Supervisor's batches can reach.
THEOREM Invariance == Spec => []IInv
<1>1. Init => IInv
  <2> SUFFICES ASSUME Init PROVE IInv  OBVIOUS
  <2>1. TypeOK
    BY BoundAssumption DEF Init, TypeOK, Status
  <2>2. tail.kind = "free"  BY FreeIsFree DEF Init
  <2>3. Strong
    <3>1. \A o \in Op : operations[o] = "absent"  BY DEF Init
    <3>2. \A r \in Record : records[r] = None  BY DEF Init
    <3>3. Existing = {} /\ catalog.default = None /\ catalog.retired = {}
      BY DEF Init, Existing
    <3>4. \A s \in Space : status[s] = "stopped"  BY DEF Init
    <3>5. Notes  BY <3>1, <3>2 DEF Notes, RecordsAreNoted, WrittenOnce, CommittedIsPublished
    <3>6. CatalogIsSound  BY <3>3 DEF CatalogIsSound
    <3>7. Shown  BY <3>4 DEF Init, Shown, PendingIsShown, AppliedIsPast
    <3> QED BY <2>2, <3>4, <3>5, <3>6, <3>7
        DEF Strong, SaveIsOnRecord, StartsOnTail, BatchIsUnderWay
  <2> QED BY <2>1, <2>3, Split
<1>2. IInv /\ [Next]_vars => IInv'
  <2> SUFFICES ASSUME TypeOK, Strong, [Next]_vars PROVE TypeOK' /\ Strong'
    BY Split, PTL
  <2>1. CASE Next
    <3>1. TypeOK'
      BY <2>1, CatalogTypes, SaveTypes, SpaceTypes, BatchTypes DEF Next, Strong
    <3>2. Strong'
      BY <2>1, CatalogPreserves, SavePreserves, SpacePreserves, BatchPreserves DEF Next
    <3> QED BY <3>1, <3>2
  <2>2. CASE UNCHANGED vars
    <3>1. UNCHANGED <<catalog, records, operations, policy, registered, locks, published,
                      boots, tail, applied, status, snapshot>>
      BY <2>2 DEF vars, disk, spaces
    <3>2. TypeOK'  BY <3>1 DEF TypeOK
    <3>3. Notes' /\ CatalogIsSound' /\ Shown'
      BY <3>1, FilesKept, AppliedKept DEF Strong, spaces
    <3>4. NextRecord' = NextRecord /\ \A t : OnTail(t)' = OnTail(t)
      BY <3>1 DEF NextRecord, NextCred, Existing, OnTail
    <3>5. SaveIsOnRecord' /\ StartsOnTail' /\ BatchIsUnderWay'
      BY <3>1, <3>4 DEF Strong, SaveIsOnRecord, StartsOnTail, BatchIsUnderWay
    <3> QED BY <3>2, <3>3, <3>5 DEF Strong
  <2> QED BY <2>1, <2>2
<1> QED BY <1>1, <1>2, PTL DEF Spec

\* What a client is told of a save is true, an operation id writes one record at
\* most, the catalog is sound, and a running space is said to run with what it
\* was launched with.
THEOREM Safety == Spec => []Inv
<1>1. IInv => Inv  BY DEF IInv
<1> QED BY <1>1, Invariance, PTL

\* A batch that ends well has brought every chosen space that runs to the revision
\* of its plan (applyLlm in the Supervisor).
THEOREM BatchEnds == Spec => BatchIsApplied
<1> DEFINE A == ApplyDone => \A s \in tail.spaces :
                  status[s] = "running" => snapshot[s].revision = tail.revision
<1>1. IInv /\ [Next]_vars => [A]_vars
  BY DEF IInv, BatchIsUnderWay, ApplyDone, Batch
<1> QED BY <1>1, Invariance, PTL DEF Spec, BatchIsApplied

\* No step makes the policy of a registered space name a connection that does not
\* exist: deleting one asks every policy, and policies are written on the same tail.
THEOREM References == Spec => ReferencesExist
<1> DEFINE A == Dangling' \cap registered \subseteq Dangling
<1>1. IInv /\ [Next]_vars => [A]_vars
  <2> SUFFICES ASSUME IInv, Next PROVE A  OBVIOUS
  <2> SUFFICES ASSUME NEW s \in registered \cap registered',
                      Selected(s) \subseteq Existing
               PROVE  (Selected(s) \subseteq Existing)'
    BY DEF Dangling
  <2>1. s \in Space /\ TypeOK  BY DEF IInv, Inv, TypeOK
  <2>2. ASSUME policy'[s] = policy[s], Existing \subseteq Existing'
        PROVE  (Selected(s) \subseteq Existing)'
    BY <2>2 DEF Selected
  <2>3. ASSUME NEW c \in Conn, DeleteConnection(c) PROVE (Selected(s) \subseteq Existing)'
    <3>1. policy[s] \notin {All, NoFile} /\ c \notin policy[s] /\ policy' = policy
      BY <2>3 DEF DeleteConnection, ReferencesTo, Binds
    <3>2. Existing' = Existing \ {c}  BY <2>3 DEF DeleteConnection, WriteCatalog, Existing
    <3> QED BY <3>1, <3>2 DEF Selected
  <2>4. ASSUME NEW t \in Space, NEW shared \in Selection, UpdateSpacePolicy(t, shared)
        PROVE  (Selected(s) \subseteq Existing)'
    BY <2>1, <2>2, <2>4 DEF UpdateSpacePolicy, Selected, TypeOK, Existing
  <2>5. ASSUME NEW t \in Space, NEW choice, CreateSpace(t, choice)
        PROVE  (Selected(s) \subseteq Existing)'
    BY <2>1, <2>2, <2>5 DEF CreateSpace, TypeOK, Existing
  <2>6. ASSUME NEW t \in Space, NEW removeData, DeleteSpace(t, removeData)
        PROVE  (Selected(s) \subseteq Existing)'
    BY <2>1, <2>2, <2>6 DEF DeleteSpace, TypeOK, Existing
  <2>7. ASSUME NEW c \in Conn, NEW connection, policy' = policy,
               WriteCatalog(With(c, connection), catalog.default, catalog.retired)
        PROVE  (Selected(s) \subseteq Existing)'
    BY <2>2, <2>7 DEF WriteCatalog, With, Existing
  <2>8. ASSUME UNCHANGED <<policy, catalog>> PROVE (Selected(s) \subseteq Existing)'
    BY <2>2, <2>8 DEF Existing
  <2>9. ASSUME NEW c \in Conn \cup {None}, SetDefault(c) PROVE (Selected(s) \subseteq Existing)'
    BY <2>2, <2>9 DEF SetDefault, WriteCatalog, Existing
  <2>10. ASSUME SavePublish PROVE (Selected(s) \subseteq Existing)'
    <3>1. tail.conn \in Conn  BY <2>1, <2>10, TailShape DEF SavePublish, At, Saves
    <3> QED BY <2>7, <2>10, <3>1 DEF SavePublish
  <2> QED BY <2>3, <2>4, <2>5, <2>6, <2>7, <2>8, <2>9, <2>10
      DEF Next, SaveConnection, SaveBegin, SaveRecord, SaveCommit, SaveFail, StopSpace,
          StartSpace, SpaceDies, Spawn, StartReady, StartFail, ApplyToStopped,
          ApplyToRunning, ApplyBegin, ApplyFail, ApplyDone, Restart, disk
<1> QED BY <1>1, Invariance, PTL DEF Spec, ReferencesExist
=============================================================================
