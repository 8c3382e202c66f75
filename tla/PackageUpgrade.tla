---------------------------- MODULE PackageUpgrade ----------------------------
(***************************************************************************)
(* WorkbenchPackageUpgrade.execute (src/adapters/node/                     *)
(* workbench-package-upgrade.ts) as a workbench.upgrade plan runs it: the  *)
(* two packages of the manager are replaced by those of the plan, and the  *)
(* Supervisor is asked to hand over to them.  Supervisor composes it with  *)
(* the jobs, the stops and the handoff.  On disk:                          *)
(*   workbench-upgrade.json           marker, the evidence of an unfinished plan *)
(*   the receipts                     receipts, one for each settled plan  *)
(*   the manager's node_modules       installed                            *)
(* One job executes one plan, so a plan is named by its job.  The candidate,*)
(* its digests and the snapshot are verified or made by single steps.      *)
(***************************************************************************)
EXTENDS Naturals

\* The number of jobs is the bound.
CONSTANTS Job, None

VARIABLES marker, receipts, installed,
          maintenance,  \* setMaintenance
          phase,         \* what execute() does next
          settlement    \* marker.settlement

package == <<marker, receipts, installed, maintenance, phase, settlement>>

-----------------------------------------------------------------------------
Package == {"plugin", "viewBridge"}

NoMarker == [plan |-> None, snapshot |-> FALSE]
NoReceipt == [outcome |-> None, snapshot |-> FALSE]

\* The outcome of a package manager that failed half way is a torn package.
Archive(j, whole) == [plan |-> j, whole |-> whole]
Archives == [plan : Job \cup {None}, whole : BOOLEAN]

PackageInit ==
  /\ marker = NoMarker /\ receipts = [j \in Job |-> NoReceipt]
  /\ installed = [p \in Package |-> Archive(None, TRUE)]
  /\ maintenance = FALSE /\ phase = "none" /\ settlement = None

Current == marker.plan
HasEvidence == marker # NoMarker

\* execute refuses a settled plan, and any plan beside an unfinished one.
MayExecute(j) == receipts[j] = NoReceipt /\ ~HasEvidence

\* The candidate is resolved and the marker written before the first stop.
WriteMarker(j) ==
  /\ MayExecute(j)
  /\ marker' = [NoMarker EXCEPT !.plan = j]
  /\ maintenance' = TRUE /\ phase' = "snapshot" /\ settlement' = None
  /\ UNCHANGED <<receipts, installed>>

\* The spaces are down: a snapshot is taken and its id written to the marker.
TakeSnapshot ==
  /\ phase = "snapshot" /\ phase' = "plugin"
  /\ marker' = [marker EXCEPT !.snapshot = TRUE]
  /\ UNCHANGED <<receipts, installed, maintenance, settlement>>

\* installCandidate.
InstallCandidate ==
  /\ phase \in Package
  /\ installed' = [installed EXCEPT ![phase] = Archive(Current, TRUE)]
  /\ phase' = IF phase = "plugin" THEN "viewBridge" ELSE "verify"
  /\ UNCHANGED <<marker, receipts, maintenance, settlement>>

\* verifyInstalled and the two payloads, before the handoff.
Verified == \A p \in Package : installed[p] = Archive(Current, TRUE)

\* The package manager says it succeeded, and has not.
InstallsTorn ==
  /\ phase \in Package
  /\ installed' = [installed EXCEPT ![phase] = Archive(Current, FALSE)]
  /\ phase' = IF phase = "plugin" THEN "viewBridge" ELSE "verify"
  /\ UNCHANGED <<marker, receipts, maintenance, settlement>>

\* A failure or a cancellation up to the handoff abandons the plan, but a
\* process that could not be stopped leaves the marker as evidence.
Fails ==
  /\ phase \notin {"none", "receipt", "clear", "over"}
  /\ \/ phase' = "receipt" /\ settlement' = "abandoned"
     \/ phase \in {"snapshot"} \cup Package /\ phase' = "over" /\ UNCHANGED settlement
  /\ installed' \in {installed} \cup
       {[installed EXCEPT ![p] = Archive(Current, FALSE)] : p \in Package \cap {phase}}
  /\ UNCHANGED <<marker, receipts, maintenance>>

\* The handoff port has returned.
HandedOver ==
  /\ phase' = "receipt" /\ settlement' = "succeeded"
  /\ UNCHANGED <<marker, receipts, installed, maintenance>>

\* settle: the marker says so, then the receipt is written and the marker removed.
WriteReceipt ==
  /\ phase = "receipt" /\ phase' = "clear"
  /\ receipts' = [receipts EXCEPT ![Current] = [outcome |-> settlement, snapshot |-> marker.snapshot]]
  /\ UNCHANGED <<marker, installed, maintenance, settlement>>

ClearMarker ==
  /\ phase = "clear" /\ phase' = "over"
  /\ marker' = NoMarker
  /\ UNCHANGED <<receipts, installed, maintenance, settlement>>

\* Once settlement has started its evidence is preserved.
SettleFails ==
  /\ phase \in {"receipt", "clear"} /\ phase' = "over"
  /\ UNCHANGED <<marker, receipts, installed, maintenance, settlement>>

Settling == WriteReceipt \/ ClearMarker \/ SettleFails

\* (mutant) a settlement that fails does not fail the plan.
Succeeded == settlement = "succeeded" /\ ~HasEvidence

\* execute() has returned or thrown; maintenance ends unless there is evidence.
Return ==
  /\ phase = "over" /\ phase' = "none" /\ settlement' = None
  /\ maintenance' = HasEvidence
  /\ UNCHANGED <<marker, receipts, installed>>

-----------------------------------------------------------------------------
PackageTypeOK ==
  /\ marker \in [plan : Job \cup {None}, snapshot : BOOLEAN]
  /\ receipts \in [Job -> [outcome : {None, "succeeded", "abandoned"}, snapshot : BOOLEAN]]
  /\ installed \in [Package -> Archives]
  /\ maintenance \in BOOLEAN /\ settlement \in {None, "succeeded", "abandoned"}
  /\ phase \in Package \cup {"none", "snapshot", "verify", "artifacts", "receipt", "clear", "over"}

\* The evidence of an unfinished plan keeps the Home in maintenance.
EvidenceIsMaintenance == HasEvidence => maintenance

\* Whatever is installed, whole or torn, by whatever crash or failure it came
\* there: its plan is on record with the snapshot that goes back behind it, as
\* unfinished in the marker or as settled in its receipt; a plan on record as
\* succeeded has installed both packages whole (unless a later plan has
\* replaced them).
ReplacedIsRecorded ==
  \A p \in Package : LET j == installed[p].plan IN j # None =>
    /\ (marker.plan = j /\ marker.snapshot) \/ (receipts[j].outcome # None /\ receipts[j].snapshot)
    /\ receipts[j].outcome = "succeeded" => installed[p].whole
===============================================================================
