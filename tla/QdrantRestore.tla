---------------------------- MODULE QdrantRestore ----------------------------
(***************************************************************************)
(* The QdrantRestore controller (qdrantrestore_controller.go) beside the   *)
(* backup it restores from: the sources are read from the status of the    *)
(* QdrantBackup while that controller goes on with its generations and     *)
(* with retention.                                                         *)
(***************************************************************************)
EXTENDS QdrantBackup

CONSTANTS
    RestoreCollection,  \* spec.collection
    Sources,            \* spec.sources: snapshots kept elsewhere, {} if not given
    StorageS3,          \* the cluster keeps its snapshots in S3
    RestoreEarly        \* the resource may be made before the backup is finished

VARIABLES
    restore,     \* the resource: existence, pending, restored, completion, Degraded
    recoveries   \* history: recoveries[j], the times peer j[2] was restored

restoreVars == <<vars, restore, recoveries>>
backupOnly == <<spec, status, cronDue, expired, server, history>>

ASSUME RestoreAssumption ==
    /\ RestoreCollection \in UNION Listings /\ Sources \subseteq SnapshotRef
    /\ \A s \in Sources : s.job[1] = RestoreCollection
    /\ StorageS3 \in BOOLEAN /\ RestoreEarly \in BOOLEAN

RestoreRef == {s \in SnapshotRef : s.job[1] = RestoreCollection}

RestoreTypeOK ==
    /\ restore \in [created : BOOLEAN, pending : SUBSET RestoreRef,
                    restored : SUBSET RestoreRef, done : BOOLEAN, degraded : BOOLEAN]
    /\ recoveries \in [Job -> Nat]

RestoreInit ==
    /\ Init
    /\ restore = [created |-> FALSE, pending |-> {}, restored |-> {}, done |-> FALSE,
                  degraded |-> FALSE]
    /\ recoveries = [j \in Job |-> 0]

CreateRestore ==
    /\ ~ restore.created /\ (RestoreEarly \/ recorded)
    /\ restore' = [restore EXCEPT !.created = TRUE]
    /\ UNCHANGED <<vars, recoveries>>

\* Mutant: the snapshots of every collection.
AllSnapshots == IF Sources # {} THEN Sources ELSE status.snapshots

\* resolveSources: given, or read from the backup; {} is an error.
ResolveSources ==
    IF Sources # {} THEN Sources
    ELSE IF StorageS3 THEN {}
    ELSE {s \in status.snapshots : s.job[1] = RestoreCollection}

\* The sources are resolved once, in the pass that restores the first of them.
Remaining ==
    IF restore.pending = {} /\ restore.restored = {} THEN ResolveSources
    ELSE restore.pending

NextSource == CHOOSE s \in Remaining : s.job = First({r.job : r \in Remaining})

Restoring == restore.created /\ ~ restore.done

CommitRestore(written, spent) ==
    \/ restore' = written /\ Spend(spent)
    \/ "updateFails" \in Faults /\ Spend(spent + 1) /\ UNCHANGED restore

DegradeRestore(rs) == [rs EXCEPT !.degraded = TRUE]

\* The cluster is missing, or no source is found.
RestoreRefused ==
    /\ Restoring
    /\ \/ "clusterMissing" \in Faults /\ CommitRestore(DegradeRestore(restore), 1)
       \/ /\ Remaining = {} /\ restore.restored = {}
          /\ CommitRestore(DegradeRestore(restore), 0)
    /\ UNCHANGED <<backupOnly, recoveries>>

\* Mutants: a source that fails is passed over; a restored source stays pending.
PassedOver == [DegradeRestore(restore) EXCEPT !.pending = Remaining \ {NextSource}]
RestoredAndPending ==
    [restore EXCEPT !.restored = @ \cup {NextSource}, !.pending = Remaining]

AfterFailure == [DegradeRestore(restore) EXCEPT !.pending = Remaining]
AfterRecovery ==
    [restore EXCEPT !.restored = @ \cup {NextSource}, !.pending = Remaining \ {NextSource}]

\* restoreNext: a local snapshot that is no longer there makes the call fail.
RestoreNextSource ==
    /\ Restoring /\ Remaining # {}
    /\ LET job == NextSource.job
           there == Sources # {} \/ NextSource.name \in snaps[job]
           recovered == recoveries' = [recoveries EXCEPT ![job] = @ + 1]
       IN  \/ there /\ recovered /\ CommitRestore(AfterRecovery, 0)
           \/ /\ there /\ "responseLost" \in Faults
              /\ recovered /\ CommitRestore(AfterFailure, 1)
           \/ /\ "callFails" \in Faults
              /\ CommitRestore(AfterFailure, 1) /\ UNCHANGED recoveries
           \/ ~ there /\ CommitRestore(AfterFailure, 0) /\ UNCHANGED recoveries
    /\ UNCHANGED backupOnly

\* Mutant: a restore that ever failed is not completed.
CompleteUnlessDegraded ==
    /\ Restoring /\ ~ restore.degraded /\ Remaining = {} /\ restore.restored # {}
    /\ CommitRestore([restore EXCEPT !.done = TRUE], 0)
    /\ UNCHANGED <<backupOnly, recoveries>>

RestoreComplete ==
    /\ Restoring /\ Remaining = {} /\ restore.restored # {}
    /\ CommitRestore([restore EXCEPT !.done = TRUE], 0)
    /\ UNCHANGED <<backupOnly, recoveries>>

RestoreReconcile == RestoreRefused \/ RestoreNextSource \/ RestoreComplete

RestoreNext ==
    \/ CreateRestore
    \/ RestoreReconcile
    \/ Next /\ UNCHANGED <<restore, recoveries>>

RestoreSpec == RestoreInit /\ [][RestoreNext]_restoreVars

\* Both controllers requeue their passes, and the backup's server is fair.
RestoreFairSpec ==
    /\ RestoreSpec
    /\ WF_restoreVars(RestoreReconcile)
    /\ WF_restoreVars(Reconcile /\ UNCHANGED <<restore, recoveries>>)
    /\ WF_restoreVars((\E s \in running : FinishSnapshot(s)) /\ UNCHANGED <<restore, recoveries>>)
    /\ WF_restoreVars(DeadlinePasses /\ UNCHANGED <<restore, recoveries>>)

(***************************************************************************)
(* Properties                                                              *)
(***************************************************************************)

\* qdrantrestore_types.go:29-30: restoring from a backup puts a whole generation
\* back.  A completed restore has restored the collection on every peer.
RestoreWhole ==
    restore.done /\ Sources = {} =>
        {s.job : s \in restore.restored} = {j \in Job : j[1] = RestoreCollection}

\* qdrantrestore_controller.go:38-41: a restore is made once.  Doing it again on a
\* peer would silently undo what was written since.
RestoredOnce == \A j \in Job : recoveries[j] <= 1

\* qdrantrestore_types.go:63: a restore is carried on from its pending sources.  One
\* that was asked for is completed though calls and updates fail, even when it was
\* asked for before the backup had made its first snapshot.
RestoreEnds == restore.created /\ ~ spec.suspend ~> restore.done \/ spec.suspend
=============================================================================
