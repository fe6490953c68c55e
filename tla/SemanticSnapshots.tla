------------------------- MODULE SemanticSnapshots -------------------------
(***************************************************************************)
(* The semantic snapshots of one dataset: the rows of                      *)
(* dataset_semantic_snapshots and the processes that rebuild them when     *)
(* the dataset's sources change (the enrichment worker, the API after a    *)
(* membership change, the reconciliation of the link worker, the backfill).*)
(*                                                                         *)
(* A row is identified by the fingerprint of the sources it was built      *)
(* from.  A rebuild takes its generated_at first, previews the sources     *)
(* later, and compares the result with the latest ready row: the one with  *)
(* the greatest generated_at, not the one that became ready last.          *)
(***************************************************************************)
EXTENDS Integers, FiniteSets

CONSTANTS
    Fingerprints,   \* the states the dataset's sources can be in
    FirstSource,    \* the one they are in at first
    Poor,           \* those whose snapshot does not pass the quality gate
    Builders,       \* processes that may rebuild the dataset at one time
    Reverts,        \* may the sources return to an earlier state?
    MaxChanges,     \* bound: changes of the sources in a behaviour
    MaxFailures     \* bound: rebuilds that stop halfway (an Err, a killed process)

ASSUME SnapshotsAssumption ==
    /\ IsFiniteSet(Fingerprints) /\ "none" \notin Fingerprints
    /\ IsFiniteSet(Builders)
    /\ Poor \subseteq Fingerprints
    /\ FirstSource \in Fingerprints \ Poor
    /\ MaxChanges \in Nat
    /\ MaxFailures \in Nat
    /\ Reverts \in BOOLEAN

VARIABLES
    source,         \* the fingerprint of the sources as they are
    changes,        \* how often they changed
    failures,       \* how often a rebuild stopped halfway
    snapshots,      \* dataset_semantic_snapshots: fingerprint -> row
    builders        \* what each rebuild is doing

vars == <<source, changes, failures, snapshots, builders>>

None == "none"

RowStatuses == {"absent", "building", "ready", "failed"}
BuilderPhases == {"idle", "preview", "compare", "begin", "gate"}

IdleBuilder == [phase |-> "idle", generated_at |-> 0, fingerprint |-> FirstSource]
AbsentRow == [status |-> "absent", generated_at |-> 0]

(* load_latest_ready: order by generated_at desc limit 1.                    *)
Ready == {f \in Fingerprints : snapshots[f].status = "ready"}

LatestReady ==
    IF Ready = {} THEN None
    ELSE CHOOSE f \in Ready :
            \A g \in Ready : snapshots[g].generated_at <= snapshots[f].generated_at

(* The dataset has a ready snapshot of its first sources: reconciliation    *)
(* looks at such datasets only.                                             *)
Init ==
    /\ source = FirstSource
    /\ changes = 0
    /\ failures = 0
    /\ snapshots = [f \in Fingerprints |->
                      IF f = FirstSource THEN [status |-> "ready", generated_at |-> 1]
                                         ELSE AbsentRow]
    /\ builders = [b \in Builders |-> IdleBuilder]

(* A document, an asset, a membership or a dictionary entry changes, or a   *)
(* membership reaches its expires_at.                                        *)
ChangeSource ==
    /\ changes < MaxChanges
    /\ \E f \in Fingerprints \ {source} :
          /\ Reverts \/ snapshots[f] = AbsentRow
          /\ source' = f
    /\ changes' = changes + 1
    /\ UNCHANGED <<failures, snapshots, builders>>

-----------------------------------------------------------------------------
(* rebuild_dataset_semantic_snapshot_from_storage, one action per database  *)
(* call.  Only the order of the timestamps matters: they are renumbered     *)
(* whenever a new one is drawn.                                              *)

Timestamps ==
    {snapshots[f].generated_at : f \in Fingerprints}
        \cup {builders[b].generated_at : b \in Builders} \cup {0}

Renumbered(t) == Cardinality({u \in Timestamps : u < t})

(* The caller takes generated_at.                                            *)
StartRebuild(b) ==
    /\ builders[b].phase = "idle"
    /\ snapshots' = [f \in Fingerprints |->
                       [snapshots[f] EXCEPT !.generated_at = Renumbered(@)]]
    /\ builders' = [c \in Builders |->
                      IF c = b
                      THEN [IdleBuilder EXCEPT !.phase = "preview",
                                               !.generated_at = Cardinality(Timestamps)]
                      ELSE [builders[c] EXCEPT !.generated_at = Renumbered(@)]]
    /\ UNCHANGED <<source, changes, failures>>

(* preview_dataset_semantic_snapshot_from_storage                            *)
Preview(b) ==
    /\ builders[b].phase = "preview"
    /\ builders' = [builders EXCEPT ![b].phase = "compare", ![b].fingerprint = source]
    /\ UNCHANGED <<source, changes, failures, snapshots>>

Finish(b) == builders' = [builders EXCEPT ![b] = IdleBuilder]

(* The rebuild is skipped when the latest ready row has the fingerprint.    *)
CompareLatest(b) ==
    /\ builders[b].phase = "compare"
    /\ IF LatestReady = builders[b].fingerprint
       THEN Finish(b)
       ELSE builders' = [builders EXCEPT ![b].phase = "begin"]
    /\ UNCHANGED <<source, changes, failures, snapshots>>

(* Mutant: the upsert takes over a row of any status.                       *)
MayBeginAny(row) == TRUE

(* The rows that try_begin_build inserts or updates.  No statement writes   *)
(* the status superseded.                                                    *)
MayBegin(row) == row.status \in {"absent", "failed"}

TryBeginBuild(b) ==
    LET fingerprint == builders[b].fingerprint
    IN  /\ builders[b].phase = "begin"
        /\ \/ /\ MayBegin(snapshots[fingerprint])
              /\ snapshots' = [snapshots EXCEPT ![fingerprint] =
                                 [status |-> "building", generated_at |-> 0]]
              /\ builders' = [builders EXCEPT ![b].phase = "gate"]
           \/ /\ ~MayBegin(snapshots[fingerprint])
              /\ Finish(b)
              /\ UNCHANGED snapshots
        /\ UNCHANGED <<source, changes, failures>>

(* audit_semantic_snapshot_quality decides between mark_ready and           *)
(* mark_failed; both only touch a row that is still building.                *)
EndBuild(b, status, generated_at) ==
    LET fingerprint == builders[b].fingerprint
    IN  /\ builders[b].phase = "gate"
        /\ snapshots' =
              IF snapshots[fingerprint].status = "building"
              THEN [snapshots EXCEPT ![fingerprint] =
                      [status |-> status, generated_at |-> generated_at]]
              ELSE snapshots
        /\ Finish(b)
        /\ UNCHANGED <<source, changes, failures>>

MarkReady(b) ==
    /\ builders[b].fingerprint \notin Poor
    /\ EndBuild(b, "ready", builders[b].generated_at)

(* Mutant: a build that failed the gate is left building.                   *)
LeaveBuilding(b) ==
    /\ builders[b].phase = "gate"
    /\ builders[b].fingerprint \in Poor
    /\ Finish(b)
    /\ UNCHANGED <<source, changes, failures, snapshots>>

MarkFailed(b) ==
    /\ builders[b].fingerprint \in Poor
    /\ EndBuild(b, "failed", 0)

(* A `?` returns early or the process dies; the row stays as it is.         *)
Abort(b) ==
    /\ failures < MaxFailures
    /\ builders[b].phase /= "idle"
    /\ Finish(b)
    /\ failures' = failures + 1
    /\ UNCHANGED <<source, changes, snapshots>>

-----------------------------------------------------------------------------
Rebuild(b) ==
    \/ StartRebuild(b)
    \/ Preview(b)
    \/ CompareLatest(b)
    \/ TryBeginBuild(b)
    \/ MarkReady(b)
    \/ MarkFailed(b)

Next == ChangeSource \/ \E b \in Builders : Rebuild(b) \/ Abort(b)

Spec == Init /\ [][Next]_vars

(* The link worker previews every dataset with a ready snapshot in each of  *)
(* its reconciliations: a rebuild goes on and another one follows it.       *)
FairSpec == Spec /\ \A b \in Builders : WF_vars(Rebuild(b))

-----------------------------------------------------------------------------
(* Properties                                                                *)

(* Types of the rows and of what a rebuild holds between two calls; the      *)
(* status superseded, which the table allows, never occurs.                  *)
SnapshotsTypeOK ==
    /\ source \in Fingerprints
    /\ changes \in 0 .. MaxChanges
    /\ failures \in 0 .. MaxFailures
    /\ snapshots \in [Fingerprints -> [status : RowStatuses, generated_at : Nat]]
    /\ builders \in [Builders -> [phase : BuilderPhases, generated_at : Nat,
                                  fingerprint : Fingerprints]]

(* The snapshot that readers see is only replaced by one with a later        *)
(* generated_at, and a failed or interrupted rebuild never takes it away     *)
(* (try_begin_build leaves ready rows alone) - whatever rebuilds overlap.    *)
LatestMovesForward ==
    [][LatestReady /= None /\ LatestReady' /= LatestReady =>
          /\ LatestReady' /= None
          /\ snapshots'[LatestReady].status = "ready"
          /\ snapshots'[LatestReady].generated_at < snapshots'[LatestReady'].generated_at]_vars

(* At most one rebuild works on a row: the upsert of try_begin_build hands   *)
(* a fingerprint to a single builder, so no build ends on another's row.     *)
BuildsAreExclusive ==
    \A b, c \in Builders :
        /\ builders[b].phase = "gate" =>
              snapshots[builders[b].fingerprint].status = "building"
        /\ builders[b].phase = "gate" /\ builders[c].phase = "gate" /\ b /= c =>
              builders[b].fingerprint /= builders[c].fingerprint

(* Whatever rebuilds overlap, the sources as they are get a snapshot of     *)
(* their own or a failed build, or a rebuild that stopped halfway has left   *)
(* their row building with nobody at work on it.                             *)
Orphaned(f) ==
    /\ snapshots[f].status = "building"
    /\ \A b \in Builders : ~(builders[b].phase = "gate" /\ builders[b].fingerprint = f)

SourcesAreBuilt ==
    \A f \in Fingerprints :
        source = f ~> \/ source /= f
                      \/ snapshots[f].status \in {"ready", "failed"}
                      \/ failures > 0 /\ Orphaned(f)

(* When the sources stay as they are, the latest ready snapshot becomes the  *)
(* one of these sources, unless their snapshot fails the quality gate.       *)
SnapshotFollowsSource ==
    \A f \in Fingerprints :
        source = f ~> \/ source /= f
                      \/ LatestReady = f
                      \/ snapshots[f].status = "failed"
=============================================================================
