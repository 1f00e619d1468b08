# TLA+ verification of qdrant-operator

qdrant-operator is a Kubernetes operator, written in Go, that runs Qdrant clusters: it scales
them, moves and repairs shards, reshards collections behind an alias, takes snapshots and
restores them. This directory holds TLA+ models of its controllers, the TLC configurations
that check them on small instances, and proofs, checked by TLAPS, of all their safety
properties: invariants, action properties and the refinement.

Paths such as `drain.go:32` are relative to `internal/controller/` unless another directory
is named; `blueprint` is `docs/design/phase-b-implementation-blueprint.md`.

## 1. The system and its parts

| Part | Code | State | Operations | Model |
|---|---|---|---|---|
| Shard planners | `rebalance.go`, `drain.go` | none (pure) | planReplications, planDeadDrops, planRebalance, planSizeRebalance, planPeerDrain | `ShardPlanner` |
| Cluster controller: rebalance lane | `rebalance.go`, `qdrantcluster_controller.go` | status.activeMove, moveBackoff, Degraded | observe, settle, plan, issue | `QdrantCluster` |
| Cluster controller: scale-in drain | `drain.go` | status.drainStatus, StatefulSet replicas | wait, move, drop, RemovePeer, shrink | `QdrantCluster` |
| Collection controller | `qdrantcollection_controller.go` | status.activeCollection, adopted, conditions, finalizer | create, adopt, report, finalize | `QdrantCollection` |
| Reshard workflow | `reshard.go` | status.reshard (phase, cursor, ...) | prepare, copy, swap, finalize, fail, retarget | `QdrantCollection`, `LogicalCollection` |
| Backup controller | `qdrantbackup_controller.go`, `backup.go` | status.active, pending, snapshots, phase | open, issue, settle, close, prune | `QdrantBackup` |
| Restore controller | `qdrantrestore_controller.go` | status.pending, restored, completionTime | resolve, recover, complete | `QdrantRestore` |
| Rolling-upgrade gate | `upgrade.go` | StatefulSet partition | freeze, advance | `QdrantPods` |
| Node-failure recovery | `nodefailure.go` | pods | delete a stranded pod | `QdrantPods` |
| Drift and TLS guards | `qdrantcluster_controller.go`, `tls.go` | conditions | refuse to apply | `QdrantPods` |
| StatefulSet rendering and apply | `internal/resources/statefulset.go`, `qdrantcluster_controller.go` | StatefulSet replicas, template | render, apply, conflict | `QdrantPods` |
| Upgrade gauge | `metrics.go` | upgrade_in_progress | set, forget | `QdrantPods` |
| Qdrant client | `internal/qdrant/` | none | HTTP calls | by effect and failure |
| Other rendering and metrics, main, generated code | `internal/resources/`, `metrics.go`, `cmd/` | none that is read back | | not modelled |

How they interact. All controllers share one Qdrant cluster. The cluster controller and the
reshard workflow defer to each other through status fields of two different resources
(`status.activeMove`, `status.drainStatus` and `status.reshard`). The restore controller reads
the status of the backup that the backup controller is writing. The cluster controller shares the
StatefulSet with the StatefulSet controller: the one renders replicas, template and partition, the
other rolls the pods and writes the revisions and counts that the first decides by. Each reconcile pass reads the
resource, calls Qdrant, and writes the status with optimistic concurrency: the calls and the
write are not atomic, either can fail, and the process can stop between them. These gaps, the
lag between a command and its visible transfer, pods that start and join late, and users who
edit the spec at any time are what makes the system hard to test, and what the models keep.

## 2. The modules

| Module | Lines of code it models | Run by |
|---|---|---|
| `ShardPlanner` | the planners, as the set of moves a plan may begin with | (extended by `QdrantCluster`) |
| `QdrantCluster` | observe, reconcileStatus, the lane, the drain, with server and StatefulSet controller | `MCQdrantCluster` |
| `QdrantCluster_proofs` | theorems about `QdrantCluster`: types, shards, shrinking | TLAPS |
| `QdrantLane_proofs` | theorems about `QdrantCluster`: the lane, the back-off, dry run, dead replicas | TLAPS |
| `QdrantPods` | Reconcile's guards and apply, the upgrade gate, stranded pods, the upgrade gauge, with StatefulSet controller, kubelets and nodes | `MCQdrantPods` |
| `QdrantPods_proofs` | theorems about `QdrantPods` | TLAPS |
| `LogicalCollection` | abstract: what a user of the alias may rely on | (instance in `QdrantCollection`) |
| `QdrantCollection` | collection controller and reshard workflow | `MCQdrantCollection` |
| `QdrantCollection_proofs` | theorems about `QdrantCollection`, the refinement of `LogicalCollection` among them | TLAPS |
| `QdrantBackup` | backup controller | `MCQdrantBackup` |
| `QdrantBackup_proofs` | theorems about `QdrantBackup` | TLAPS |
| `QdrantRestore` | restore controller, composed with `QdrantBackup` | `MCQdrantRestore` |
| `QdrantRestore_proofs` | theorems about `QdrantRestore` | TLAPS |
| `NatChoice` | lemmas about the least element of a set of numbers | TLAPS |

`PROJECT.json` maps every definition to the lines it stands for.

### ShardPlanner

An observation is a record of members, readable shards, replica states, transfers, replication
factors and whether sizes are complete. A planner returns the set of moves that it may put
first, because the controller executes only the first entry of a plan. The orderings of the
code are kept as lexicographic keys (`Earliest`). Where the code takes the order in which the
server lists shards (the drain plan), the set has several members. A replication factor that
could not be read is 0, as the missing map key is in Go.

### QdrantCluster

*State.* `spec`, `sts`, `pods`, `newborn` are Kubernetes: the desired replicas and the switch
`spec.rebalance.enabled`, the replicas of the StatefulSet, ready pods, pods that have not joined yet. `peers`, `rep`, `transfers`, `inbox` are Qdrant: members,
replica states, running transfers, and commands that were accepted and are not visible yet.
`status` has the four fields that steer the controller. `pc` is the place in the current pass,
`expired` says that the deadline for the recorded move has passed, `edited` that the resource
changed since the pass read it (so that the status write will conflict), and `reshard` that
some collection of this cluster is being resharded. `budget` counts failures, edits and
reshards against the bounds.

*Actions.* A pass is cut where another actor can interfere: the pass up to its status write
(`SteadyPass`, `SteadyHold`, `ScaleOut`, `DrainPass`, `DrainUnobservable`), then the call
(`IssueCommand`, `RemovePeer`), then the shrink (`ShrinkOne`); `AbandonPass` is a crash between
them. Each call may fail before its effect (`callFails`), take effect and report an error
(`responseLost`), be accepted and dropped (`commandLost`), or be accepted and begun after the operator's
deadline (`lateStart`). `moveBackoff` grows without a bound, as in the code; the delay that `backoff`
computes from it, clamped, is time and left out. The server's actions (`ApplyCommand`,
`DiscardCommand`, `FinishTransfer`, `AbortTransfer`, `ReplicaDies`, `Join`) and the StatefulSet
controller's (`PodStart`) are external, modelled from how the code uses them.
`SetReplicas` and `SwitchRebalance` are a user's edits; they may fall in the middle of a pass.
`ReshardBegin` and `ReshardComplete` abstract the collection controller by the status field that
the drain reads.

### QdrantPods

The second view of the cluster controller: its pods instead of its shards.

*State.* `sts` and `stat` are the StatefulSet's spec and status (size, template, partition; update and
current revision, updated and ready counts), `cached` the size in the operator's informer cache,
`pods` the pod of each ordinal with its template and the state of its node. `peer` is the Qdrant peer
of each ordinal: outside the consensus, joining, with shards that are not Active, with a dead replica,
or whole. `pass` holds what a pass decided and has not applied yet, `wake` whether a pass is due,
`status` the phase, the Degraded reason and the upgrade gauge. A pod template is the number of what
the spec says of a pod and the affinity that `resolveAffinity` derives from the size, so that a resize
across two replicas is a rollout too, as it is in the code. `answered` says whether the operator has
run a pass since the latest pod was created (see *Fairness and time* below). `sts.gated`, `pass.stale`
(the pass has read a cached size that was not the one in force) and `budget.disturbed` are history.

*Actions.* `DriftPass`, `DrainPass`, `TlsPass` and `RenderPass` are the branches of `Reconcile`, in the
order of its guards; each begins with `ReconcileStuckPods`. `RenderPass` ends before the write and
`ApplyPass` (or `ConflictPass`, `OrphanPass`) goes on with the apply, the status and the gauge, so that
edits, the StatefulSet controller and the server can come in between. `FailedPass` is a child object
that cannot be applied. `ForgetPass` is a pass over a deleted object. The drain's moves are the subject of
`QdrantCluster`; here a drain waits, removes the peer and shrinks by one. `SyncStatefulSet`, the
kubelet's and the node's actions and the recovery of peers are external; the first follows
Kubernetes' Parallel policy and RollingUpdate strategy (a pod that stops may be seen unready before it is
gone, `PodStopsSlowly`, as an ordinary step): highest outdated ordinal at or above the
partition once all above it are healthy, pods below the partition made from the current revision.

### QdrantCollection and LogicalCollection

A pass is one step; its outcomes are the prefixes of its effects, with the final status write
failing or not. A collection has a shard number, a set of points, and whether its other parameters
match the spec (`fit`). A name is
the sequence of generations in its `-rs-g<generation>` suffixes, which keeps the way the code derives
shadow names. `LogicalCollection` says what a user of the alias may rely on: one collection
whose points change only by client calls, until the resource is deleted. `Implements` is the
refinement: `content` is what the alias (or, before there is one, the base name) names.

### QdrantBackup and QdrantRestore

A generation is a set of (collection, peer) jobs. A pass settles the active snapshot, issues
the next one, closes the generation, opens a new one, or rests; `Commit` is the status write at
the end of each. Snapshot names are naturals in the order of their creation, since the code
relies on that order of Qdrant's names. `cronDue` abstracts the schedule. `planned` and `recorded` are history variables. `QdrantRestore` extends the backup, so that a restore can read the status of
a generation at any moment of its life.

## 3. What is checked

Passing runs:

| Run | Properties | Shows |
|---|---|---|
| `cluster_lane` | TypeOK, CommandTracked, SingleLane, BackoffVisible, DryRunInert, NoShardLost, ShrinkKeepsData | at most one command is at work and the status records it, through crashes, lost commands and failed writes; a back-off is explained by a condition; with `spec.rebalance.enabled` off only a drain moves shards; with dying replicas and a scale-in that overtakes a join, every shard keeps an Active replica on a running member and the StatefulSet shrinks only over empty peers |
| `cluster_live` | NoShardLost, ScaleCompletes, LaneFrees, DeadDroppedLast, RepairCompletes, Rebalanced, MoveFailedCleared | every shard keeps an Active replica on a running member, with partial observations and late or untracked commands; a resize finishes unless a dead replica holds it up; no lost command blocks the lane; repair comes before the removal of a dead replica, and both are done where a peer is spare; moves stop in a balanced placement; MoveFailed does not outlive the trouble |
| `reshard_safe` | TypeOK, Implements, AliasKept | a reshard is invisible through the alias |
| `reshard_live` | Converges, DeletionEnds | a new shard number is reached; a deleted resource goes away from every phase of a reshard |
| `backup_faults` | TypeOK, HonestSuccess, GenerationEnds, BackupMade | a partial generation never passes for a success; generations end; a due backup is made |
| `restore_safe` | RestoreTypeOK, RestoreWhole, RestoredOnce, OneAtATime, RecordedExist, NothingWasted | one snapshot at a time; retention keeps what the status names; a complete generation is closed; a restore is whole and is made once |
| `restore_live` | RestoreEnds | a restore created at any moment of a backup ends |
| `pods` | TypeOK, AdvanceGated, NeverTruncated, RolloutCompletes, StrandedReplaced, GaugeFollows | the gate takes a pod down only when every other peer is whole; unless the guard has read a stale size, the StatefulSet shrinks by one drained ordinal at a time; a rollout that can be carried out completes; a pod stranded on a dead node is replaced, under a TLS guard or a drain too; the upgrade gauge comes down with the upgrade and goes with the object |

Every property of these runs has a mutant in `PROJECT.json`: a plausible error in one mapped
definition that makes TLC report the property violated.

Runs that end in a counterexample. In each, a comment or a document of the repository states
the property and the code does something else; `PROJECT.json` (findings) quotes the line.

| Run | Property | What the code does |
|---|---|---|
| `drain_reshard_deadlock` | ScaleCompletes | drain and reshard wait for each other: the drain publishes drainStatus before it defers, and the reshard defers to drainStatus |
| `drain_dead_deadlock` | DeadRepaired | a drain waits for a dead replica that only the steady path, which the drain replaces, would repair |
| `rebalance_cycle` | Rebalanced | the size stage and the count stage undo each other |
| `reshard_commit` | AliasKept | an error after the alias swap deletes the collection served |

### Where a property stops holding

A passing run leaves out exactly the conditions under which its property fails. Each row can
be reproduced by changing the named constant in the configuration of the run, or by leaving out the
named condition of the property.

| Run | Property | Fails with | Because |
|---|---|---|---|
| `cluster_lane` | SingleLane | `partialObserve` in `Faults` | transfers of a collection that could not be read are not seen (qdrantcluster_controller.go:362, against rebalance.go:68) |
| `cluster_lane` | CommandTracked | `responseLost` in `Faults` | a command that was accepted but reported as failed is dropped from the status |
| `cluster_lane` | SingleLane, CommandTracked | either of the two | by either way a command is at work that the status does not record |
| `cluster_lane` | SingleLane, CommandTracked | `lateStart` in `Faults` | a command that begins after its deadline is no longer recorded, and its retry runs beside it (rebalance.go:249); no shard is lost by it (`cluster_live`) |
| `cluster_live` | ScaleCompletes | `MaxReshards = 1` | see `drain_reshard_deadlock` |
| `cluster_live` | DeadDroppedLast | `rfUnread` in `Faults` | an unread replication factor counts as 0 (against rebalance.go:325) |
| `cluster_live` | DeadDroppedLast | `replicaDies` in `Faults` | another replica dies between the plan and the command it leads to |
| `reshard_safe` | Implements, AliasKept | `Swapping` or `Finalizing` in `EditPhases` | a retarget after the commit point deletes the collection served (reshard.go:128, against :192) |
| `reshard_safe` | AliasKept | `aliasCallFails` in `Faults` | see `reshard_commit` |
| `reshard_safe` | Implements | `Swapping` in `WritePhases`; `Copying` or `Failed`, with four points and `MaxWrites = 2` | a write to the source after its page was copied is lost with the source; a count that agrees again passes the verification (reshard.go:248) |
| `reshard_safe` | Implements | a foreign collection in `InitColls` with the shadow's name and shard number | it is reused as the shadow (reshard.go:151), and its points are served |
| `reshard_live` | Converges | `Copying` in `WritePhases` | retries compare with the point count of the first attempt (reshard.go:248) |
| `restore_safe` | OneAtATime, RecordedExist, RestoredOnce | `updateFails` or `responseLost` in `Faults` | the call comes before the status write that records it, and is repeated |
| `restore_safe` | OneAtATime, RecordedExist | `slow` or `foreign` in `Faults` | a snapshot that was given up, or that somebody else made, is beside or newer than the recorded one |
| `restore_safe` | RestoredOnce | two of the `Sources` for one peer | each is recovered |
| `restore_safe` | NothingWasted | `clusterMissing` in `Faults`; `invalid` in `Schedules` and `MaxEdits = 2` | a pass without a cluster, or with a bad schedule, overwrites the phase that the closing pass looks for (qdrantbackup_controller.go:214) |
| `restore_safe` | RestoreWhole | `cron` in `Schedules`; `RestoreEarly = TRUE` | the restore may resolve its sources while a generation is open (qdrantrestore_controller.go:128) |
| `pods` | NeverTruncated without its exception for `pass.stale` | `MaxEvents = 4` (not 3) | a cache that still misses a growth while the size is edited twice more: the guard reads the old size (qdrantcluster_controller.go:124, :142, against the comment at :139) |
| `pods` | RolloutCompletes, GaugeFollows without the premise `StopsSettle` | | see below |
| `pods` | RolloutCompletes | `MaxEvents = 3` | a scale-in taken back before the pod stops leaves a pod without a peer, and the gate of a later template waits for it (upgrade.go:51) |

`Rebalanced` depends on the sizes: in `cluster_live` one shard outweighs the others and the size
stage comes to rest; in `rebalance_cycle` two large shards share a peer and it does not.
`RepairCompletes` carries its conditions in its statement: without a spare peer a dead replica is
neither replaced nor dropped, and during a scale-in it is not looked at (`DeadRepaired`, without that
second condition, is the property of `drain_dead_deadlock`; `ScaleCompletes` has the other half).

What `AdvanceGated` and `RolloutCompletes` leave out:

* the apply that starts a rollout carries partition 0, since the status does not show a rollout yet;
  the first pod is taken down ungated, and so are later ones while a guard or a drain ends the
  passes before the gate;
* a template that is taken back during its rollout makes the two revisions equal: partition 0, and
  the rollback goes by readiness alone (upgrade.go:35);
* `UpdatedReplicas` counts pods and `frozen` takes them for the highest ordinals (upgrade.go:71), and a
  pod that is leaving still counts as ready: with a failure or a resize the frozen partition may lie
  above an ordinal that is already down, which then comes back on the old revision;
* a template whose pods do not become ready is left by a rollback, but not by a fix forward: the
  broken pod lies below the frozen partition and the gate waits for it for ever (upgrade.go:74);
* a scale-in taken back after `RemovePeer` leaves a pod whose peer nothing brings back into the consensus;
  a later template waits for that peer for ever (three events, the row above);
* a lone replica on a lost node, a dead replica during a scale-in, and a guard, hold the rollout up by
  design or as described above.

`RolloutCompletes` and `GaugeFollows` have the premise `StopsSettle`: from some time on, pods that stop are gone before they
are seen unready. `upgradePartition` computes `frozen` from the updated pods (upgrade.go:71). While the
pod that the gate let go is being replaced, `frozen` is one above the partition in force. A
pass that finds the pod unready, or cannot observe the cluster, then raises the partition instead of
holding it, and the StatefulSet controller may make the pod again from the old revision. Each
repetition costs a restart, and nothing bounds their number. upgrade.go:64
("건강하지 않음 → 현 진행도에서 동결"), :75 ("판정이 설 때까지 이 자리에 머문다") and
CHANGELOG.md:118 ("If the cluster cannot be observed, the rollout holds where it is") say that it holds. The
gate's promise itself, `AdvanceGated`, is kept throughout. Without the premise, `pods` reports the
endless repetition.

Further places where the models show the code and its documents
to differ, without a property of their own, are in the notes of the hazards in `PROJECT.json`:
a pod that has not joined is taken for one that was removed (drain.go:224), a rebalance move
beside a reshard (rebalance.go:361), DrainBlocked left behind (drain.go:271), ImmutableFieldChanged and TLSSecretMissing likewise
(qdrantcluster_controller.go:130, :152), a foreign collection under the shadow's
name deleted by a retarget or a failure (reshard.go:109, :128), the shadow left by the finalizer
(qdrantcollection_controller.go:74).

### Bounds and why they are enough

* Cluster: three peers whose ids are not in the order of their ordinals, so that orderings by
  id and by ordinal differ; two collections with replication factors 2 and 1, so that a move, a
  replication and a drop all happen and one collection can be unreadable while the other is
  not; every initial placement. `cluster_live` has a collection of three shards and one of a single shard, with two
  copies each, all on the same two of three members, one shard with or without a dead copy: levelling
  takes several moves, and one collection can be unreadable while the other is not; one shard is large, so that the size stage
  moves shards too. Two faults, because the recovery from a fault can itself fail; two edits in
  `cluster_lane`, because an aborted scale-in takes two, and one in `cluster_live`, so that a resize is
  not taken back.
* Collection: three points and a batch of two, so that a copy takes two pages and can be
  resumed; shard numbers {1, 2}; one edit, one write, one move of the cluster, two faults.
  `InitColls` includes servers with no collection, with one to adopt, with one that does not
  fit, and with a foreign collection under the name of the shadow.
* Backup and restore: one or two collections on two peers (so that a generation has two to
  four jobs), two generations, two faults. `MaxSnapshots` is high enough not to be reached, so that it is no
  cause of a deadlock.
* Pods: up to three replicas, starting from one and from three, so that a rollout has a middle, and a
  resize can cross the size at which the affinity appears; three templates, the last of them broken;
  two edits or failures in any combination and order (two edits of a template overtake each other, a
  node fails under a rollout, a resize meets a lagging cache), one rebalance move.

Deadlock is checked in the cluster, backup and restore runs. It is not in the collection and pod runs:
the resource may be deleted, after which nothing happens.

### Fairness and time

All fairness is weak. Every return of a controller's pass requeues it or returns an error, which
controller-runtime retries, so a pass that stays possible is taken (`Reconcile`, `SteadyPass`,
`DrainPass`, `ScaleOut`, `SteadyHold`), and a pass that has begun goes on (`IssueCommand`,
`RemovePeer`, `ShrinkOne`). The server handles what it has accepted and ends its transfers, the StatefulSet
controller starts pods, pods join, a snapshot that is being made is finished, and time passes
deadlines. Faults, edits, client writes, deletions and the creation of a restore are not fair.
In `QdrantPods`, the operator's passes and the StatefulSet controller are fair, and so is each
ordinal's progress (a pod stops, becomes ready, its peer recovers, its grace runs out); nodes do not have
to return. The one pass that is not requeued (immutable drift, qdrantcluster_controller.go:137) is
modelled by `wake`: only an event brings the next one.
Faults are bounded in number, so liveness is stated for systems in which failures stop.

Clocks are left out but for two orders that they fix. A recorded move's deadline passes (`expired`) only when its
command has had its time; a server that starts it later still is the fault `lateStart`. And a pod becomes ready no sooner than its probe's initial delay of 5 s
(statefulset.go:40) after it was made, by when the operator has answered the event of its creation;
a slower operator is the fault `lateAnswer`.

## 4. What is proved

Every invariant and every action property of the passing runs, and the refinement, has a theorem. A
theorem holds for every value of the constants that meets the assumptions of the modules and the
hypotheses in the table: any number of peers, shards, points, replicas, templates, snapshots, edits and
faults. A hypothesis names fault classes, or moments of an edit or a write, that are excluded; without it the
property fails (section 3 has the counterexamples).

| Theorem | States | Hypotheses |
|---|---|---|
| **`QdrantCluster_proofs`** | | |
| `TypeCorrect` | `[]TypeOK` | |
| `ShardsNeverLost` | `[]NoShardLost` | |
| `ShrinkSafe` | `ShrinkKeepsData` | |
| **`QdrantLane_proofs`** | | |
| `CommandsTracked` | `[]CommandTracked` | no `responseLost`, `partialObserve`, `lateStart` |
| `OneCommandAtATime` | `[]SingleLane` | no `responseLost`, `partialObserve`, `lateStart` |
| `BackoffExplained` | `[]BackoffVisible` | |
| `DryRunGivesNoCommand` | `DryRunInert` | |
| `DeadReplicasDroppedLast` | `DeadDroppedLast` | no `rfUnread`, no `replicaDies` |
| **`QdrantBackup_proofs`** | | |
| `BackupTypeCorrect` | `[]TypeOK` | |
| `SuccessIsHonest` | `HonestSuccess` | |
| `SnapshotsOneByOne`, `RecordedOnesExist` | `[]OneAtATime`, `[]RecordedExist` | `Undisturbed`: no `responseLost`, `updateFails`, `slow`, `foreign` |
| `GenerationsNotWasted` | `NothingWasted` | `NeverRefused`: no `clusterMissing`, no `invalid` schedule |
| **`QdrantRestore_proofs`** (of `RestoreSpec`) | | |
| `BackupBesideRestore` | `[](OneAtATime /\ RecordedExist)` | `Undisturbed` |
| `NotWastedBesideRestore` | `NothingWasted` | `NeverRefused` |
| `RestoreTypeCorrect` | `[]RestoreTypeOK` | |
| `EachPeerRestoredOnce` | `[]RestoredOnce` | `Reported`: no `responseLost`, no `updateFails`; `Sources` names a peer once |
| `RestoreIsWhole` | `[]RestoreWhole` | `MadeOnce`: no `cron` among the schedules, and the restore is created once the backup is recorded |
| **`QdrantCollection_proofs`** | | |
| `CollectionTypeCorrect` | `[]TypeOK` | |
| `AliasIsKept` | `AliasKept` | `Orderly`: no `aliasCallFails`, no edit while Swapping or Finalizing |
| `ReshardIsInvisible` | `Implements` | `Orderly`; `ReadOnly`: clients write outside a reshard, before the copy begins or after the swap; `Undisputed`: no foreign collection has a shard number that the spec may ask for |
| **`QdrantPods_proofs`** | | |
| `PodsTypeCorrect` | `[]TypeOK` | |
| `ScaleInDrainsFirst` | `NeverTruncated` | (the property itself excepts passes with a stale size) |
| `RolloutIsGated` | `AdvanceGated` | (the property itself speaks of undisturbed rollouts) |

*Assumptions.* `PeerAssumption` and `ShardAssumption` (finite sets of ids), `OrdinalAssumption` (no two
peers share an ordinal), `PlacementAssumption` (at the start every shard has an Active replica and replicas
lie on running members), `ServerAssumption` (what the server holds are collections), `PointAssumption`
(finitely many points), and `RFAssumption`, `BoundAssumption`, `BackupAssumption`, `RestoreAssumption`,
`ReshardBounds`, `PodsAssumption` (types and signs of the bounds). TLC evaluates them in every run. That no
replica becomes the last one by dying is part of the model of the server (`ReplicaDies` leaves
another Active replica): the theorems are about what the operator does.

*Layout.* A proof has a lemma per action that says what the action does to the variables in question (named
`...Outcome` where it stands alone), a lemma that every step preserves the inductive invariant, and a
theorem that combines the two. `NatChoice` has the two lemmas about the least element of a set
of numbers that the choice of a snapshot's name and of a page's cursor rest on.

### No shard is lost (`IInv`)

`NoShardLost` is not inductive: a transfer may end by removing its source, a removal
may follow an observation that is out of date. `IInv` adds what makes it so.

* `ReplicasPlaced`: a shard has an Active replica; replicas lie on members, and Active ones on
  ordinals that the StatefulSet runs.
* `TransfersPartial`: a running transfer owns a Partial replica at its target, and a shard has
  one transfer at most; so the end of a transfer makes an Active replica before the source goes.
* `InboxToMembers`: an accepted command creates replicas on members only.
* `PodsWithin`: no pod runs beyond the StatefulSet's size.
* `LeavingEmpty`: while a pass is about to shrink, the leaving ordinal is not the last one, its
  peer is empty, and no accepted command can fill it. This is what the server's refusal of
  `RemovePeer(force=false)` for a peer with shards gives, and why a stale plan does no harm.
* `IssueCommitted`: a pass about to issue has committed what it issues.

`ShrinkSafe` follows from `LeavingEmpty` at the one action that shrinks. The mutants `RemovePeerForced`,
`ResumeShrinkAlways` and `ShrinkToSpec` show that both properties depend on the code: with `force=true`, with a
member taken for a removed peer, or with a shrink straight to `spec.replicas`, TLC finds a lost shard or one cut off.

### One command at a time (`LaneInv`, `TransfersTracked`)

The status records one move, and the server may have accepted it, be working at it, or have forgotten
it. `LaneInv`: what is accepted is the recorded move, and the placement does not show it as completed, so that
`settleActiveMove` cannot clear it (`InboxTracked`); a pass about to issue finds nothing accepted
(`LaneOpen`); the deadline passes only over a command that had its time (`DeadlineFar`, hence no `lateStart`); transfers beside a
command that has not begun belong to collections that could not be read (`TransfersElsewhere`). It needs
only answered calls and timely starts. With readable layouts there are no such transfers (`TransfersTracked`), which is
the step from tracking to a single lane.
`BackoffExplained` goes by the set of statuses in which a back-off has a reason, and every write stays in
it. `DryRunGivesNoCommand` needs `PassInv`: a pass that is about to issue a balancing command began with
the switch on, or the resource was edited since; a drain's command empties the highest ordinal.
`DeadReplicasDroppedLast` allows lost answers, so there may be commands at work that no record shows.
`DeadCopies`: none of them, and no recorded move, takes an Active copy from a shard that has a dead one. A drain
waits for dead copies, the steady path drops dead ones only, and no transfer fills a dead one. With it,
`DeadLastInv`: between the plan to drop a dead replica and the call, the replication factor stays
reached; this is where the planner's guard (rebalance.go:325) enters.

### Backup and restore (`BackupInv`, `ServerInv`, `KeptInv`, `OnceInv`, `FinalInv`, `WholeInv`)

`BackupInv`: while a generation is open, its recorded, active and pending jobs make up the plan, no two of
these overlap, and a job is recorded once. `SuccessIsHonest` follows at `Close`, the one action that records:
nothing is pending or active then.
`ServerInv` ties the status to the server: what is being made is the newest snapshot, of the active job,
not yet seen and not given up (`RunningTracked`); names grow, and the only name that can be new to the active job is
the latest (`NamesInOrder`); what is recorded is there and is the newest of its pair
(`RecordedNewest`). The last conjunct is why retention, which keeps the newest, spares it even with
`keep = 1`.
`KeptInv`: a complete generation that is not recorded can be told by its phase, from which
`JustFinished` reads that it must be closed. A refused pass overwrites the phase, hence `NeverRefused`.
A restore shares the server and the bound on faults with the backup, so that `RestoreSpec` does not imply the
backup's `Spec`; the lemma `RestoreQuiet` shows what a restore's step leaves alone, and the invariants carry over.
`OnceInv`: what is restored is not pending and was recovered once. `FinalInv` and `WholeInv`: the record
of a one-shot backup is final and has the collection for every peer or, when it was not listed, for
none; what a restore has resolved are all peers of the collection.

### A reshard is invisible (`AliasInv`, `NamesInv`, `CopyInv`)

`AliasInv`: the workflow's source is the active collection; the alias names it, or, once
the swap is due, its shadow; in Finalizing it names the shadow. So the deletion of the source never takes what
the alias serves.
`NamesInv`: a shadow has the name of the active collection with a generation that is no newer than the
spec's, and a collection that could be taken for the shadow of a new attempt is the workflow's own. This is
what makes the reuse of a shadow with the target's shard number (reshard.go:151) sound, and
`Undisputed` is what it takes.
`CopyInv`: while Preparing the shadow, if it is there already, is empty; until the swap it holds only points
of the source; while Copying it holds every point before the cursor, and while Swapping all of them.
The refinement maps `content` to the points of the collection that the alias (before there is one, the base
name) names. `NextRefines` shows action by action that a step of the controller is a stutter of `LogicalCollection`, its
`Delete` or its `Drop`, and that a client's write is a `Put` or a `Remove`.

### Scale-in and rollout of pods (`SizeInv`, `GateInv`)

`PodsTypeCorrect` includes the range of the partition, which rests on the clamp of `Frozen` (upgrade.go:71).
`SizeInv`: a size in flight to the apply is no smaller than the one in force, if that is the size the guard has
read: nothing else changes the size before the pass applies it. The only other step that shrinks is the
drain's, with its `RemovePeer`.
`GateInv` holds while nothing disturbs the rollout. `Sizes` and `Placed`: the size is the one asked for, no
node is lost, no peer has left. `Ladder`: updated pods are the highest ordinals and at most one pod is not healthy.
`Told`: what the StatefulSet's status, late as it may be, still says truly of the pods: the count of
updated ones once the revision is that of the template, readiness of all when it counts all, the end of a
rollout (a pod that stops may be unready by then). `Pending`: a pass in flight wants the template in force or the one asked for. `Permitted`: the
partition in force, and one that a pass has decided and not applied yet, opens at most one ordinal that is not
updated, and that one only with every other peer whole and no transfer in flight. The hard part is
`Told`: `upgradePartition` computes an ordinal from a count, which is right only because of `Ladder`, and
`Ladder` is kept only because of `Permitted`.

## 5. What is only model-checked

* Liveness (`ScaleCompletes`, `LaneFrees`, `Rebalanced`, `RepairCompletes`, `MoveFailedCleared`, `Converges`,
  `DeletionEnds`, `GenerationEnds`, `BackupMade`, `RestoreEnds`, `RolloutCompletes`, `StrandedReplaced`, `GaugeFollows`): temporal reasoning with fairness and ENABLED is beyond
  the prover's backends.
* What recursion over data computes, which would need induction over data. No module uses RECURSIVE, so theorems can
  be added to each of them.

## 6. What is not modelled

* Rendering beyond the StatefulSet's replicas, partition and template: pure functions whose result is the
  shape of an object, which the unit tests compare with golden files. What `stsImmutableChanged` compares is
  part of it: the model says that a guard is up, not which field differs.
* The disruption budget and evictions: the budget is created and deleted with the size, and only the
  eviction API, which the code does not call, reads it.
* Metrics other than the upgrade gauge, events, messages, printer columns: nothing reads them back.
* A user's own `spec.affinity`, with which a resize does not change the template.
* The calls of one observation as separate steps. A shard belongs to one collection, so each collection
  is seen consistently; a transfer that starts between two calls is like one that starts after the pass.
* The HTTP client's encoding and status codes, the TLS transport, flag parsing and the wiring of the
  manager, generated deep copies, and the in-memory fake server of the tests: no state of their own.
* Pods that return with a new peer id after losing their volume.
* Writes from the first page of a reshard's copy to its swap, in the passing runs: blueprint:26 makes a quiet source
  a condition of use.

## 7. Plan

1. A run of its own for the partition that is raised while a pod is being replaced (section 3).
2. Composition of `QdrantCluster` with the collection controller's exclusion (check, then act,
   across two resources) in place of the flag `reshard`.
3. Lemmas about the planners on their own: a count move never raises the spread, a drain plan never
   targets the leaving peer.

## 8. Running

In this directory: `tlc -config <run>.cfg <module>` with the module of the run in `PROJECT.json`, and
`tlapm <module>.tla` for `NatChoice` and each module that ends in `_proofs`. The longest runs are `pods` (470,000 distinct states,
about two minutes) and `cluster_live`; the largest is `reshard_safe` (520,000 distinct states). The proofs
of a module take from some seconds (`NatChoice`) to a quarter of an hour (`QdrantCollection_proofs`).
