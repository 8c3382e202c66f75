-------------------------- MODULE CoordinatedUpgrade --------------------------
(***************************************************************************)
(* CoordinatedUpgrade (src/adapters/node/coordinated-upgrade.ts) with the  *)
(* stores it commits to: SnapshotStore (snapshot-store.ts) and RuntimeStore*)
(* (runtime-store.ts).  One call of upgrade() runs at a time, inside the   *)
(* home lock; Maintenance composes it with the plans and the spaces.       *)
(* There is one target version.  Disk:                                     *)
(*   profiles/                               live                          *)
(*   .dsh-spaces-upgrade/journal.json        journal                       *)
(*   .dsh-spaces-upgrade/{home,...}          stage, backup                 *)
(*   <runtimes>/versions, current.json       installed, runtime            *)
(*   <snapshots>/<id>                        snaps                         *)
(* Memory: what upgrade() is about to do (up) and journalPhase (phase).    *)
(* Preparing a profile in the stage and verifying it are one step each for *)
(* all profiles: they touch nothing but the stage.                         *)
(***************************************************************************)
EXTENDS Naturals

CONSTANTS
  SnapId,     \* snapshot ids, in the order they are drawn
  NoSnap,
  MaxFaults   \* bound: how many calls may fail and processes exit

ASSUME SnapAssumption == SnapId \subseteq Nat /\ NoSnap \notin SnapId /\ MaxFaults \in Nat

VARIABLES up, phase, journal, live, backup, stage, runtime, installed,
          snaps, candidate, faults

disk    == <<journal, live, backup, stage, runtime, installed, snaps>>
upgrade == <<up, phase, disk, candidate>>

-----------------------------------------------------------------------------
(* The journal, the tree of live profiles, the snapshots. *)

NoJournal == [phase |-> "none", snap |-> NoSnap]
Journal(ph, id) == [phase |-> ph, snap |-> id]
\* writeFileSync is not atomic: a failed or interrupted write leaves a file
\* that cannot be read, and a file is evidence whether or not it can be read.
Garbled(j) == [j EXCEPT !.phase = "torn"]

\* journalEvidencePresent.
Evidence == journal.phase # "none"

Unused == [profiles |-> "unused", runtime |-> "unused"]
Deleted == [profiles |-> "deleted", runtime |-> "deleted"]
Content == [profiles |-> live, runtime |-> runtime]
Published == {id \in SnapId : snaps[id] \notin {Unused, Deleted}}

Begun == {"assert", "stop", "snapshot", "prepare", "install", "stage", "smoke",
          "commit", "backup", "swap", "retarget", "select", "clear", "discard"}
\* The catch block, before and after this.committed was set.
Caught == {"reap", "undo", "reapCommitted"}
Ended == {"ok", "failed", "uncertain"}

UpInit ==
  /\ up = "idle" /\ phase = "none" /\ journal = NoJournal
  /\ live = "old" /\ backup = FALSE /\ stage = "none"
  /\ runtime = "old" /\ installed = FALSE
  /\ snaps = [id \in SnapId |-> Unused] /\ candidate = FALSE

\* A step of upgrade(); a failed call takes the other way and is counted.
At(from, to) == up = from /\ up' = to /\ UNCHANGED faults
FailsAt(from, to) == up = from /\ up' = to /\ faults < MaxFaults /\ faults' = faults + 1

-----------------------------------------------------------------------------
(* RuntimeStore and SnapshotStore. *)

\* install of a version, which select then finds.
Install == installed' = TRUE

\* create copies the Home to a temporary directory, publishes it by a rename
\* and removes it when anything before the rename fails.
Create(id) ==
  /\ \A other \in SnapId : snaps[other] = Unused <=> other >= id
  /\ snaps' = [snaps EXCEPT ![id] = Content]

\* delete: nothing tells it that a journal names the snapshot.
Delete(id) ==
  /\ id \in Published
  /\ snaps' = [snaps EXCEPT ![id] = Deleted]

-----------------------------------------------------------------------------
(* upgrade(). *)

AssertClear_As ==
  /\ At("assert", IF journal.phase = "committing" THEN "failed" ELSE "stop")
  /\ phase' = "none"
  /\ UNCHANGED <<disk, candidate>>
AssertClear ==
  /\ At("assert", IF Evidence THEN "failed" ELSE "stop")
  /\ phase' = "none"
  /\ UNCHANGED <<disk, candidate>>

\* The snapshot, between stopAll and the first journal.
Snapshot(id) ==
  /\ At("snapshot", "prepare")
  /\ Create(id)
  /\ UNCHANGED <<phase, journal, live, backup, stage, runtime, installed, candidate>>

\* The snapshot this run took: the newest.
Taken(id) == id \in Published /\ \A later \in SnapId : later > id => snaps[later] = Unused

\* writeJournal("preparing"), still outside the try block.
Prepare ==
  \E id \in SnapId :
    /\ Taken(id)
    /\ \/ /\ At("prepare", "install")
          /\ journal' = Journal("preparing", id) /\ phase' = "preparing"
       \/ /\ FailsAt("prepare", "failed")
          /\ journal' \in {journal, Garbled(Journal("preparing", id))} /\ UNCHANGED phase
    /\ UNCHANGED <<live, backup, stage, runtime, installed, snaps, candidate>>

InstallRuntime ==
  /\ At("install", "stage")
  /\ Install
  /\ UNCHANGED <<phase, journal, live, backup, stage, runtime, snaps, candidate>>

\* materializeStage, stageProfile and verifyProfile of every profile.
MakeStage ==
  /\ At("stage", "smoke")
  /\ stage' = "ready"
  /\ UNCHANGED <<phase, journal, live, backup, runtime, installed, snaps, candidate>>

\* smoke starts a candidate and releases it; ensureCandidatesGone checks.
Smoke ==
  /\ At("smoke", "commit")
  /\ UNCHANGED <<phase, disk, candidate>>

\* writeJournal("committing"): journalPhase follows only a write that worked.
Commit ==
  /\ \/ /\ At("commit", "backup")
        /\ journal' = Journal("committing", journal.snap) /\ phase' = "committing"
     \/ /\ FailsAt("commit", "reap")
        /\ journal' \in {journal, Garbled(journal)} /\ UNCHANGED phase
  /\ UNCHANGED <<live, backup, stage, runtime, installed, snaps, candidate>>

\* clearFallback and the first rename of commitProfiles, which drops the
\* backup an earlier upgrade could not discard.
Backup ==
  /\ At("backup", "swap")
  /\ live' = "missing" /\ backup' = TRUE
  /\ UNCHANGED <<phase, journal, stage, runtime, installed, snaps, candidate>>

Swap ==
  /\ At("swap", "retarget")
  /\ live' = "moved" /\ stage' = "partial"
  /\ UNCHANGED <<phase, journal, backup, runtime, installed, snaps, candidate>>

Retarget ==
  /\ At("retarget", "select")
  /\ live' = "new"
  /\ UNCHANGED <<phase, journal, backup, stage, runtime, installed, snaps, candidate>>

\* runtimes.select commits the pointer of an installed version.
Select ==
  /\ installed /\ At("select", "clear")
  /\ runtime' = "new"
  /\ UNCHANGED <<phase, journal, live, backup, stage, installed, snaps, candidate>>

ClearJournal ==
  /\ At("clear", "discard")
  /\ journal' = NoJournal /\ phase' = "none"
  /\ UNCHANGED <<live, backup, stage, runtime, installed, snaps, candidate>>

\* discardStage, after committed = true.
DiscardStage ==
  /\ At("discard", "ok")
  /\ stage' = "none" /\ backup' = FALSE
  /\ UNCHANGED <<phase, journal, live, runtime, installed, snaps, candidate>>

-----------------------------------------------------------------------------
(* A call fails. *)

\* Before the try block nothing is undone: "stop", "snapshot".
FailsBefore ==
  /\ \/ FailsAt("stop", "failed") \/ FailsAt("stop", "uncertain")
     \/ FailsAt("snapshot", "failed")
  /\ UNCHANGED <<phase, disk, candidate>>

\* Inside it, before the commit; a CLI run or the smoke candidate may survive.
FailsStaging ==
  /\ \/ FailsAt("install", "reap") /\ UNCHANGED <<stage, candidate>>
     \/ FailsAt("stage", "reap") /\ stage' = "partial" /\ candidate' \in BOOLEAN
     \/ FailsAt("smoke", "reap") /\ candidate' \in BOOLEAN /\ UNCHANGED stage
  /\ UNCHANGED <<phase, journal, live, backup, runtime, installed, snaps>>

\* After the commit journal: renames, retargeting, the pointer, the journal.
FailsCommitting ==
  /\ \/ \E at \in {"backup", "swap", "retarget", "select", "clear"} : FailsAt(at, "reap")
     \/ FailsAt("discard", "reapCommitted")
  /\ UNCHANGED <<phase, disk, candidate>>

\* ensureCandidatesGone of the catch block, then its test of journalPhase.
Undoable_As == phase # "preparing"
Undoable == phase # "committing"

Reap ==
  /\ \/ /\ At("reap", IF Undoable THEN "undo" ELSE "failed")
        /\ candidate' = FALSE
     \/ /\ At("reapCommitted", "failed")
        /\ candidate' = FALSE
     \/ /\ candidate /\ FailsAt("reap", "uncertain")
        /\ UNCHANGED candidate
  /\ UNCHANGED <<phase, disk>>

\* clearJournal and discardStage of the catch block.
Undo ==
  /\ \/ /\ At("undo", "failed")
        /\ journal' = NoJournal /\ phase' = "none" /\ stage' = "none" /\ backup' = FALSE
     \/ /\ FailsAt("undo", "failed")
        /\ \/ UNCHANGED <<journal, phase>>
           \/ journal' = NoJournal /\ phase' = "none"
        /\ UNCHANGED <<stage, backup>>
  /\ UNCHANGED <<live, runtime, installed, snaps, candidate>>

Upgrading ==
  \/ AssertClear \/ (\E id \in SnapId : Snapshot(id)) \/ Prepare
  \/ InstallRuntime \/ MakeStage \/ Smoke \/ Commit
  \/ Backup \/ Swap \/ Retarget \/ Select \/ ClearJournal \/ DiscardStage
  \/ FailsBefore \/ FailsStaging \/ FailsCommitting \/ Reap \/ Undo

\* The process dies: a journal being written is torn, a candidate may survive.
UpgradeDies ==
  /\ up' = "idle" /\ phase' = "none"
  /\ \/ UNCHANGED journal
     \/ /\ up \in {"prepare", "commit"}
        /\ \E id \in SnapId : Taken(id) /\ journal' = Garbled(Journal("torn", id))
  /\ candidate' \in {candidate, FALSE}
  /\ UNCHANGED <<live, backup, stage, runtime, installed, snaps>>

-----------------------------------------------------------------------------
(* Properties. *)

UpTypeOK ==
  /\ up \in {"idle"} \cup Begun \cup Caught \cup Ended
  /\ phase \in {"none", "preparing", "committing"}
  /\ journal \in [phase : {"none", "preparing", "committing", "torn"},
                  snap : SnapId \cup {NoSnap}]
  /\ live \in {"old", "missing", "moved", "new"}
  /\ backup \in BOOLEAN /\ stage \in {"none", "partial", "ready"}
  /\ runtime \in {"old", "new"} /\ installed \in BOOLEAN /\ candidate \in BOOLEAN
  /\ DOMAIN snaps = SnapId

\* The profiles and the runtime that runs them belong together.
Matched == live \in {"old", "new"} /\ runtime = live

\* At every point of an upgrade, a crash or a failure included, profiles and
\* runtime that do not belong together are reported by a commit journal on the
\* disk (coordinated-upgrade.ts 213-240): nobody starts them as if complete.
MixedHasEvidence == ~Matched => journal.phase = "committing"

\* The old profiles are in the live tree or in the backup until the runtime
\* they belong to has been replaced, and no tree at all is never all there is
\* (392-407).
ProfilesNeverLost == runtime = "old" \/ live = "missing" => live = "old" \/ backup

-----------------------------------------------------------------------------
(* What the properties rest on between two steps of upgrade(): what the      *)
(* journal says, and where the profiles are.                                 *)

UpgradeIsInOrder ==
  /\ up \in {"stop", "snapshot", "prepare"} => ~Evidence
  /\ up \in {"install", "stage", "smoke", "commit"} =>
       phase = "preparing" /\ journal.phase = "preparing" /\ Taken(journal.snap)
  /\ up = "reap" => phase # "none"
  /\ up = "undo" => phase = "preparing"
  /\ up \in {"backup", "swap", "retarget", "select", "clear"} => phase = "committing"
  /\ phase = "committing" => journal.phase = "committing"

ProfilesAreInPlace ==
  /\ up \in {"stop", "snapshot", "prepare", "install", "stage", "smoke", "commit", "backup", "undo"}
       \/ (up = "reap" /\ phase = "preparing") => Matched
  /\ up \in {"swap", "retarget", "select"} => backup
  /\ up = "swap" => live = "missing"
  /\ up \in {"select", "clear", "discard"} => live = "new"
  /\ up \in {"clear", "discard"} => runtime = "new"
=============================================================================
