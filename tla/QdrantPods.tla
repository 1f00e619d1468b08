----------------------------- MODULE QdrantPods -----------------------------
(***************************************************************************)
(* The Kubernetes side of the QdrantCluster controller: the order of the   *)
(* guards of Reconcile (qdrantcluster_controller.go), the gate of a rolling *)
(* upgrade (upgrade.go), the removal of pods stranded on a dead node       *)
(* (nodefailure.go), the TLS guard (tls.go) and the gauges (metrics.go),   *)
(* beside the StatefulSet controller, the kubelets and the nodes.          *)
(*                                                                         *)
(* A pass has two steps: it reads the StatefulSet and the servers and      *)
(* decides, then it writes the StatefulSet and the status.  The drain's    *)
(* shard moves are QdrantCluster's subject: here a drain removes a peer    *)
(* and shrinks by one ordinal.  What the spec says of a pod is a number;   *)
(* the rendered template adds the affinity, which depends on the size.  A  *)
(* pod carries the template it was made from and the health of its node.   *)
(***************************************************************************)
EXTENDS Integers, FiniteSets, FiniteSetsExt

CONSTANTS
    MaxReplicas,   \* bound on spec.replicas
    InitSizes,     \* the sizes of the cluster at the start
    Templates,     \* 1..Templates: what the spec may say of a pod
    BadTemplates,  \* those whose pods never become ready
    Edits,         \* the parts of the spec that the user edits
    Faults,        \* the classes of failure that may happen
    MaxEvents,     \* bound on the number of failures and edits together
    MaxMoves       \* bound on the number of rebalance moves

VARIABLES
    spec,      \* replicas, template, guard: which guard the spec runs into
    object,    \* the QdrantCluster object: "live" or "gone"
    sts,       \* spec of the StatefulSet: replicas, template, partition
    stat,      \* its status: update and current revision, updated, ready
    cached,    \* the replicas of the StatefulSet in the operator's cache
    pods,      \* pods[k]: phase, template and node of the pod of ordinal k
    peer,      \* peer[k]: the Qdrant peer of ordinal k
    moving,    \* a shard transfer is in flight
    pass,      \* the pass under way: its step and the StatefulSet it wants
    answered,  \* the operator's answer to the latest pod: none, begun, given
    wake,      \* a pass is due: an event or a requeue is pending
    status,    \* phase, Degraded reason, upgrade_in_progress gauge
    budget

kube == <<sts, stat, cached, pods>>
qdrant == <<peer, moving>>
operator == <<pass, answered, wake, status>>
vars == <<spec, object, kube, qdrant, operator, budget>>

FaultClass == {"nodeDown", "unobservable", "callFails", "cacheLag", "lateAnswer",
               "deadReplica"}
EditClass == {"replicas", "template", "guard", "delete"}

ASSUME PodsAssumption ==
    /\ MaxReplicas \in Nat \ {0} /\ InitSizes \subseteq 1..MaxReplicas
    /\ Templates \in Nat \ {0} /\ BadTemplates \subseteq 2..Templates
    /\ Edits \subseteq EditClass /\ Faults \subseteq FaultClass
    /\ MaxEvents \in Nat /\ MaxMoves \in Nat

Ordinal == 0..(MaxReplicas - 1)
Template == 1..Templates
Guard == {"none", "drift", "tls"}

\* A pod template: spread is the anti-affinity of a cluster of several replicas.
PodTemplate == [version : Template, spread : BOOLEAN]

Pod == [template : PodTemplate, ready : BOOLEAN, stopping : BOOLEAN, node : {"up", "down", "lost"}]
NoPod == [node |-> "none"]
NewPod(template, ready) ==
    [template |-> template, ready |-> ready, stopping |-> FALSE, node |-> "up"]

\* gated is history: the partition was decided by the gate for this template.
StatefulSet == [replicas : 1..MaxReplicas, template : PodTemplate, partition : 0..MaxReplicas,
                gated : BOOLEAN]

Resource == [replicas : 1..MaxReplicas, template : Template, guard : Guard]
SetStatus == [update : PodTemplate, current : PodTemplate,
              updated : 0..MaxReplicas, ready : 0..MaxReplicas]
Status ==
    [phase : {"Running", "Provisioning", "Upgrading", "Rebalancing", "Draining"},
     degraded : {"none", "ImmutableFieldChanged", "TLSSecretMissing", "DrainBlocked"},
     gauge : {"none", "idle", "upgrading"}]
Budget == [events : 0..MaxEvents, disturbed : BOOLEAN, moves : 0..MaxMoves]

TypeOK ==
    /\ spec \in Resource
    /\ object \in {"live", "gone"}
    /\ sts \in StatefulSet /\ cached \in 1..MaxReplicas
    /\ stat \in SetStatus
    /\ pods \in [Ordinal -> Pod \cup {NoPod}]
    /\ peer \in [Ordinal -> {"out", "joining", "partial", "dead", "whole"}]
    /\ moving \in BOOLEAN
    /\ pass \in [step : {"idle", "apply"}, want : StatefulSet, stale : BOOLEAN]
    /\ answered \in {"none", "begun", "given"} /\ wake \in BOOLEAN
    /\ status \in Status /\ budget \in Budget

\* resolveAffinity, and what else BuildStatefulSet renders from the spec.
Spread(replicas) == replicas >= 2
Rendered(asked) == [version |-> asked.template, spread |-> Spread(asked.replicas)]

BuildStatefulSet(asked) ==
    [replicas |-> asked.replicas, template |-> Rendered(asked), partition |-> 0, gated |-> FALSE]

Init ==
    \E n \in InitSizes :
        LET asked == [replicas |-> n, template |-> 1, guard |-> "none"]
            built == BuildStatefulSet(asked)
        IN  /\ spec = asked /\ object = "live" /\ sts = built /\ cached = n
            /\ stat = [update |-> built.template, current |-> built.template,
                       updated |-> n, ready |-> n]
            /\ pods = [k \in Ordinal |-> IF k < n THEN NewPod(built.template, TRUE) ELSE NoPod]
            /\ peer = [k \in Ordinal |-> IF k < n THEN "whole" ELSE "out"]
            /\ moving = FALSE
            /\ pass = [step |-> "idle", want |-> built, stale |-> FALSE] /\ answered = "given" /\ wake = TRUE
            /\ status = [phase |-> "Running", degraded |-> "none", gauge |-> "idle"]
            /\ budget = [events |-> 0, disturbed |-> FALSE, moves |-> 0]

\* One more failure or edit within the bound; disturbed is history: a failure,
\* a change of size, or a template that overtook the rollout of the last one.
Event(disturbing) ==
    /\ budget.events < MaxEvents
    /\ budget' = [budget EXCEPT !.events = @ + 1, !.disturbed = @ \/ disturbing]

Fail(f) == f \in Faults /\ Event(TRUE)

(***************************************************************************)
(* What a pass reads.                                                      *)
(***************************************************************************)
Members == {k \in Ordinal : peer[k] \notin {"out", "joining"}}

\* obs.transitioning, obs.allShardsActive
Transitioning == \E k \in Members : peer[k] = "partial"
AllShardsActive == \A k \in Members : peer[k] = "whole"

RolloutInProgress == stat.update # stat.current

\* Mutant: readiness of the pods alone.
UpgradeReadyOnReadiness(replicas, obs) == obs /\ stat.ready = replicas

UpgradeReady(replicas, obs) ==
    /\ obs
    /\ stat.ready = replicas
    /\ Cardinality(Members) = replicas
    /\ ~Transitioning /\ ~moving

\* Mutant: not clamped; updated counts the pods of a size that is left behind.
FrozenUnclamped(replicas) == replicas - stat.updated

Frozen(replicas) == Max({replicas - stat.updated, 0})

\* Mutant: the partition is never lowered.
PartitionHeld(replicas, obs) == IF RolloutInProgress THEN Frozen(replicas) ELSE 0

UpgradePartition(replicas, obs) ==
    IF ~RolloutInProgress THEN 0
    ELSE IF UpgradeReady(replicas, obs) THEN Max({Frozen(replicas) - 1, 0})
    ELSE Frozen(replicas)

\* nodeDown: the node is gone, or has been NotReady for nodeFailureGrace.
NodeDown(k) == pods[k].node = "lost"

\* Mutant: a pod that is already terminating is taken to be on its way.
StuckPodsNotTerminating ==
    {k \in Ordinal : spec.replicas >= 2 /\ NodeDown(k) /\ ~pods[k].stopping}

\* reconcileStuckPods: at most one stranded pod is deleted in a pass.
StuckPods == {k \in Ordinal : spec.replicas >= 2 /\ NodeDown(k)}

ReconcileStuckPods ==
    \/ StuckPods = {} /\ UNCHANGED pods
    \/ \E k \in StuckPods : pods' = [pods EXCEPT ![k] = NoPod]

(***************************************************************************)
(* The passes of Reconcile, in the order of its guards.                    *)
(***************************************************************************)
Due == pass.step = "idle" /\ wake /\ object = "live"

\* Mutant: a scale-in by one is not seen.
DrainingByTwo == spec.replicas + 1 < cached

Draining == spec.replicas < cached

StsImmutableChanged == spec.guard = "drift"
TlsMisconfigured == spec.guard = "tls"

\* The StatefulSet is left alone and nothing is requeued.
DriftPass ==
    /\ Due /\ StsImmutableChanged
    /\ ReconcileStuckPods
    /\ status' = [status EXCEPT !.degraded = "ImmutableFieldChanged"]
    /\ answered' = "given" /\ wake' = FALSE
    /\ UNCHANGED <<spec, object, sts, stat, cached, qdrant, pass, budget>>

\* shrinkOne: one ordinal, refused when the cached object is out of date.
ShrinkOne ==
    IF cached = sts.replicas
    THEN sts' = [sts EXCEPT !.replicas = @ - 1] /\ cached' = cached - 1
    ELSE UNCHANGED <<sts, cached>>

\* reconcileDrainCycle, its shard moves apart.
DrainPass ==
    LET target == cached - 1
        present == target \in Members
    IN  /\ Due /\ ~StsImmutableChanged /\ Draining
        /\ ReconcileStuckPods
        /\ \/ /\ Fail("unobservable")
              /\ status' = [status EXCEPT !.phase = "Draining", !.degraded = "DrainBlocked"]
              /\ UNCHANGED <<sts, cached, peer>>
           \/ /\ moving \/ (present /\ ~AllShardsActive)
              /\ status' = [status EXCEPT !.phase = "Draining"]
              /\ UNCHANGED <<sts, cached, peer, budget>>
           \/ /\ ~moving /\ (present => AllShardsActive)
              /\ ShrinkOne
              /\ peer' = [peer EXCEPT ![target] = IF present THEN "out" ELSE @]
              /\ status' = [status EXCEPT !.phase = IF present THEN "Draining" ELSE @]
              /\ UNCHANGED budget
        /\ answered' = "given"
        /\ UNCHANGED <<spec, object, stat, moving, pass, wake>>

\* The StatefulSet is left alone and looked at again in 30 s.
TlsPass ==
    /\ Due /\ ~StsImmutableChanged /\ ~Draining /\ TlsMisconfigured
    /\ ReconcileStuckPods
    /\ status' = [status EXCEPT !.degraded = "TLSSecretMissing"]
    /\ answered' = "given"
    /\ UNCHANGED <<spec, object, sts, stat, cached, qdrant, pass, wake, budget>>

\* The StatefulSet is rendered; gateRollout sets its partition.  stale is history:
\* the size that Draining compared was not the size of the StatefulSet any more.
RenderPass ==
    /\ Due /\ ~StsImmutableChanged /\ ~Draining /\ ~TlsMisconfigured
    /\ ReconcileStuckPods
    /\ \E obs \in BOOLEAN :
           /\ \/ obs /\ UNCHANGED budget
              \/ ~obs /\ RolloutInProgress /\ Fail("unobservable")
           /\ pass' = [step |-> "apply",
                       want |-> [BuildStatefulSet(spec) EXCEPT
                                    !.partition = UpgradePartition(spec.replicas, obs),
                                    !.gated = RolloutInProgress /\ stat.update = Rendered(spec)],
                       stale |-> cached # sts.replicas]
    /\ answered' = IF answered = "none" THEN "begun" ELSE answered
    /\ UNCHANGED <<spec, object, sts, stat, cached, qdrant, wake, status>>

\* A call fails before the StatefulSet is read: the pass is retried.
FailedPass ==
    /\ Due /\ Fail("callFails")
    /\ ReconcileStuckPods \/ UNCHANGED pods
    /\ UNCHANGED <<spec, object, sts, stat, cached, qdrant, operator>>

\* reconcileStatus: the phase and the gauge, a rebalance move if none is barred.
Phase(replicas) ==
    CASE RolloutInProgress -> "Upgrading"
      [] ~RolloutInProgress /\ stat.ready # replicas -> "Provisioning"
      [] OTHER -> "Running"

Gauge == IF RolloutInProgress THEN "upgrading" ELSE "idle"

ReconcileStatus(replicas) ==
    \/ /\ \/ Phase(replicas) # "Running" \/ Cardinality(Members) # replicas \/ ~moving
          \/ "unobservable" \in Faults
       /\ status' = [status EXCEPT !.phase = Phase(replicas), !.gauge = Gauge]
       /\ UNCHANGED <<moving, budget>>
    \/ /\ Phase(replicas) = "Running" /\ Cardinality(Members) = replicas
       /\ \/ moving /\ UNCHANGED budget
          \/ /\ ~moving /\ ~Transitioning /\ budget.moves < MaxMoves
             /\ budget' = [budget EXCEPT !.moves = @ + 1]
       /\ moving' = TRUE
       /\ status' = [status EXCEPT !.phase = "Rebalancing", !.gauge = Gauge]

\* applyOwned: the update is refused when the cached object is out of date.
ApplyPass ==
    /\ pass.step = "apply" /\ object = "live"
    /\ cached = sts.replicas
    /\ sts' = pass.want
    /\ \/ cached' = pass.want.replicas /\ ReconcileStatus(pass.want.replicas)
       \/ /\ pass.want.replicas # cached /\ Fail("cacheLag")
          /\ status' = [status EXCEPT !.phase = Phase(pass.want.replicas), !.gauge = Gauge]
          /\ UNCHANGED <<cached, moving>>
    /\ pass' = [pass EXCEPT !.step = "idle"]
    /\ answered' = IF answered = "begun" THEN "given" ELSE answered
    /\ UNCHANGED <<spec, object, stat, pods, peer, wake>>

ConflictPass ==
    /\ pass.step = "apply" /\ object = "live"
    /\ \/ cached # sts.replicas /\ UNCHANGED budget
       \/ Fail("callFails")
    /\ pass' = [pass EXCEPT !.step = "idle"]
    /\ answered' = IF answered = "begun" THEN "none" ELSE answered
    /\ UNCHANGED <<spec, object, kube, qdrant, wake, status>>

\* The object was deleted under the pass: the gauge is set, the commit fails.
OrphanPass ==
    /\ pass.step = "apply" /\ object = "gone"
    /\ status' = [status EXCEPT !.gauge = Gauge]
    /\ pass' = [pass EXCEPT !.step = "idle"] /\ wake' = TRUE
    /\ UNCHANGED <<spec, object, kube, qdrant, answered, budget>>

\* Mutant: the series of the upgrade is left behind.
ForgetOthers == UNCHANGED status

ForgetCluster == status' = [status EXCEPT !.gauge = "none"]

\* The object is not found.
ForgetPass ==
    /\ pass.step = "idle" /\ wake /\ object = "gone"
    /\ ForgetCluster
    /\ wake' = FALSE
    /\ UNCHANGED <<spec, object, kube, qdrant, pass, answered, budget>>

(***************************************************************************)
(* The StatefulSet controller (external): one synchronisation creates what *)
(* is missing, stops what is beyond the size, takes down the highest pod   *)
(* that is out of date once all above it are healthy, and writes status.   *)
(***************************************************************************)
Exists(k) == pods[k] # NoPod
Healthy(pod) == pod # NoPod /\ pod.ready /\ ~pod.stopping

\* A pod below the partition is made from the current revision.
Revision(k) == IF k < sts.partition THEN stat.current ELSE sts.template

Sized ==
    [k \in Ordinal |->
        IF k < sts.replicas
        THEN IF Exists(k) THEN pods[k] ELSE NewPod(Revision(k), FALSE)
        ELSE IF Exists(k) THEN [pods[k] EXCEPT !.stopping = TRUE] ELSE NoPod]

UpToDate(pod) == pod.template = sts.template

Outdated(sized, k) ==
    /\ k \in sts.partition..(sts.replicas - 1)
    /\ ~UpToDate(sized[k]) /\ ~sized[k].stopping
    /\ \A j \in (k + 1)..(sts.replicas - 1) : UpToDate(sized[j]) /\ Healthy(sized[j])

Rolled(sized) ==
    [k \in Ordinal |-> IF Outdated(sized, k) THEN [sized[k] EXCEPT !.stopping = TRUE] ELSE sized[k]]

\* A pod that is stopping is not counted as updated, but as ready while it is.
Counted(rolled) ==
    LET present == {k \in Ordinal : rolled[k] # NoPod}
        updated == Cardinality({k \in present : UpToDate(rolled[k]) /\ ~rolled[k].stopping})
        ready == Cardinality({k \in Ordinal : Exists(k) /\ pods[k].ready})
        done == {updated, ready, Cardinality(present)} = {sts.replicas}
    IN  [update |-> sts.template, current |-> IF done THEN sts.template ELSE stat.current,
         updated |-> updated, ready |-> ready]

SyncStatefulSet ==
    /\ object = "live" /\ wake' = TRUE
    /\ UNCHANGED <<spec, object, sts, cached, qdrant, pass, status, budget>>
    /\ \E rolled \in {Rolled(Sized)} : \E counted \in {Counted(rolled)} :
           /\ <<pods, stat>> # <<rolled, counted>>
           /\ pods' = rolled /\ stat' = counted
           /\ answered' = IF \E k \in Ordinal : ~Exists(k) /\ rolled[k] # NoPod THEN "none"
                          ELSE answered

\* The operator's cache catches up with its own write.
DeliverStatefulSet ==
    /\ cached # sts.replicas
    /\ cached' = sts.replicas /\ wake' = TRUE
    /\ UNCHANGED <<spec, object, sts, stat, pods, qdrant, pass, answered, status, budget>>

(***************************************************************************)
(* Kubelets, nodes and Qdrant peers (external).                            *)
(***************************************************************************)
\* A restarted peer comes back with or without shards to recover.  The probe
\* waits 5 s: by then the operator has answered the pod's creation and its cache
\* has caught up, or the answer is late.
PodReady(k) ==
    /\ Exists(k) /\ ~pods[k].ready /\ ~pods[k].stopping /\ pods[k].node = "up"
    /\ pods[k].template.version \notin BadTemplates
    /\ pods' = [pods EXCEPT ![k].ready = TRUE]
    /\ \/ answered = "given" /\ cached = sts.replicas /\ UNCHANGED budget
       \/ (answered # "given" \/ cached # sts.replicas) /\ Fail("lateAnswer")
    /\ \E p \in (IF k \in Members THEN {"whole", "partial"}
                 ELSE IF k < sts.replicas THEN {"joining"} ELSE {peer[k]}) :
           peer' = [peer EXCEPT ![k] = p]
    /\ UNCHANGED <<spec, object, sts, stat, cached, moving, operator>>

PodStopped(k) ==
    /\ Exists(k) /\ pods[k].stopping /\ pods[k].node = "up"
    /\ pods' = [pods EXCEPT ![k] = NoPod]
    /\ UNCHANGED <<spec, object, sts, stat, cached, qdrant, operator, budget>>

\* A pod that takes its time to stop is reported unready before it is gone.
PodStopsSlowly(k) ==
    /\ Exists(k) /\ pods[k].stopping /\ pods[k].ready
    /\ pods' = [pods EXCEPT ![k].ready = FALSE]
    /\ UNCHANGED <<spec, object, sts, stat, cached, qdrant, operator, budget>>

\* The node of a pod is lost to the cluster, at once or after the grace.
NodeFails(k, state) ==
    /\ pods[k].node = "up" /\ Fail("nodeDown")
    /\ pods' = [pods EXCEPT ![k].node = state, ![k].ready = FALSE]
    /\ UNCHANGED <<spec, object, sts, stat, cached, qdrant, operator>>

\* The toleration of 300 s, then nodeFailureGrace, run out.
GraceExpires(k) ==
    /\ pods[k].node = "down"
    /\ pods' = [pods EXCEPT ![k].node = "lost", ![k].stopping = TRUE]
    /\ UNCHANGED <<spec, object, sts, stat, cached, qdrant, operator, budget>>

NodeReturns(k) ==
    /\ pods[k].node \in {"down", "lost"}
    /\ pods' = [pods EXCEPT ![k].node = "up"]
    /\ UNCHANGED <<spec, object, sts, stat, cached, qdrant, operator, budget>>

\* The peer has joined the consensus, or its shards are Active again.  A dead
\* one is repaired by the moves of a steady cluster alone (planDeadDrops).
PeerRecovers(k) ==
    /\ peer[k] \in {"joining", "partial", "dead"} /\ Healthy(pods[k]) /\ k < sts.replicas
    /\ peer[k] = "dead" => status.phase \in {"Running", "Rebalancing"}
    /\ peer' = [peer EXCEPT ![k] = "whole"]
    /\ UNCHANGED <<spec, object, kube, moving, operator, budget>>

ReplicaDies(k) ==
    /\ peer[k] \in {"whole", "partial"} /\ Fail("deadReplica")
    /\ peer' = [peer EXCEPT ![k] = "dead"]
    /\ UNCHANGED <<spec, object, kube, moving, operator>>

TransferEnds ==
    /\ moving /\ moving' = FALSE
    /\ UNCHANGED <<spec, object, kube, peer, operator, budget>>

(***************************************************************************)
(* The user.                                                               *)
(***************************************************************************)
Edit(class, disturbing) ==
    /\ object = "live" /\ class \in Edits /\ Event(disturbing)
    /\ wake' = TRUE
    /\ UNCHANGED <<sts, stat, cached, qdrant, pass, answered, status>>

EditReplicas(n) ==
    /\ Edit("replicas", TRUE) /\ n # spec.replicas
    /\ spec' = [spec EXCEPT !.replicas = n]
    /\ UNCHANGED <<object, pods>>

\* The template changes while the last one is still being rolled out.
Unfinished ==
    Rendered(spec) # sts.template \/ sts.template # stat.update \/ RolloutInProgress

EditTemplate(t) ==
    /\ Edit("template", Unfinished) /\ t # spec.template
    /\ spec' = [spec EXCEPT !.template = t]
    /\ UNCHANGED <<object, pods>>

EditGuard(g) ==
    /\ Edit("guard", FALSE) /\ g # spec.guard
    /\ spec' = [spec EXCEPT !.guard = g]
    /\ UNCHANGED <<object, pods>>

\* The children of the object are collected with it.
DeleteObject ==
    /\ Edit("delete", FALSE)
    /\ object' = "gone" /\ pods' = [k \in Ordinal |-> NoPod]
    /\ UNCHANGED spec

Operator ==
    \/ DriftPass \/ DrainPass \/ TlsPass \/ RenderPass
    \/ ApplyPass \/ ConflictPass \/ OrphanPass \/ ForgetPass

Controller == SyncStatefulSet \/ DeliverStatefulSet

Progress(k) == PodReady(k) \/ PodStopped(k) \/ PeerRecovers(k) \/ GraceExpires(k)

Surroundings == TransferEnds \/ \E k \in Ordinal : Progress(k) \/ PodStopsSlowly(k)

Failure ==
    \/ FailedPass
    \/ \E k \in Ordinal :
           \/ NodeReturns(k) \/ ReplicaDies(k)
           \/ \E state \in {"down", "lost"} : NodeFails(k, state)

User ==
    \/ \E n \in 1..MaxReplicas : EditReplicas(n)
    \/ \E t \in Template : EditTemplate(t)
    \/ \E g \in Guard : EditGuard(g)
    \/ DeleteObject

Next == Operator \/ Controller \/ Surroundings \/ Failure \/ User

Spec == Init /\ [][Next]_vars

\* Passes are requeued, the StatefulSet controller runs, pods, peers and graces
\* move on; nothing has to fail, no node has to return, nobody has to edit.
Fairness ==
    /\ WF_vars(Operator) /\ WF_vars(Controller) /\ WF_vars(TransferEnds)
    /\ \A k \in Ordinal : WF_vars(Progress(k))

FairSpec == Spec /\ Fairness

(***************************************************************************)
(* Properties                                                              *)
(***************************************************************************)
Whole(k) == Healthy(pods[k]) /\ peer[k] = "whole"

TakenDown(k) ==
    /\ k < sts.replicas /\ Exists(k) /\ ~pods[k].stopping
    /\ pods'[k] # NoPod /\ pods'[k].stopping

\* From the first partition that the gate decides for a template, the rollout
\* takes a pod down only when every other peer is back: its pod ready, in the
\* consensus, its shards Active and no transfer in flight (upgradeReady, the gate
\* described at upgrade.go:20-23).  Stated as long as nothing disturbs the
\* rollout: no failure, no change of size, no template that overtakes it.
AdvanceGated ==
    [][\A k \in Ordinal :
           TakenDown(k) /\ sts.gated /\ ~budget.disturbed
               => ~moving /\ \A j \in 0..(sts.replicas - 1) : j # k => Whole(j)]_vars

\* qdrantcluster_controller.go:139-141: the StatefulSet shrinks one ordinal at a
\* time, after the peer of that ordinal has left the consensus, and no rendered
\* size ever shrinks it, whatever is edited between the reading and the writing of
\* a pass.  The condition: the pass that writes did not read a size that lagged
\* behind the StatefulSet (the guard compares with a cached object).
NeverTruncated ==
    [][sts'.replicas < sts.replicas =>
           \/ pass.step = "apply" /\ pass.stale
           \/ sts'.replicas = sts.replicas - 1 /\ peer'[sts'.replicas] \in {"out", "joining"}]_vars

\* The spec can be carried out: no guard holds it up, a lone replica is not lost
\* with its node, no dead replica stands in the way of a scale-in, and a pod of a
\* broken template is left behind by a rollback alone.
Sound ==
    /\ object = "live" /\ spec.guard = "none" /\ spec.template \notin BadTemplates
    /\ Draining => \A k \in Ordinal : peer[k] # "dead"
    /\ spec.replicas >= 2 \/ \A k \in Ordinal : pods[k].node \in {"none", "up"}
    /\ Rendered(spec) = stat.current
       \/ \A k \in Ordinal : Exists(k) => pods[k].template.version \notin BadTemplates

\* From some moment on pods are not seen unready before they are gone.  A pass
\* that sees one so takes the step of the rollout back (upgrade.go:74), and the pod
\* may be made from the old template again: without end, if that happens each time.
StopsSettle == <>[][\A k \in Ordinal : ~PodStopsSlowly(k)]_vars

\* After any two edits and failures every pod of the cluster is in the end ready on
\* the template asked for and the partition is open again (gateRollout,
\* upgradePartition, reconcileStuckPods together).  One case that takes three is
\* not covered: a pod whose peer a scale-in has removed before it was taken back
\* runs on without a peer, and the gate of a later template waits for it.
RolloutCompletes ==
    StopsSettle =>
        <>[](Sound => /\ sts.replicas = spec.replicas /\ sts.template = Rendered(spec)
                      /\ sts.partition = 0
                      /\ \A k \in 0..(spec.replicas - 1) : Healthy(pods[k]) /\ UpToDate(pods[k])
                      /\ ~RolloutInProgress)

\* A pod stranded on a dead node is replaced, also while a TLS secret is missing
\* or a drain waits (reconcileStuckPods runs before the guards), unless the spec
\* asks for one replica or an immutable field has drifted.
StrandedReplaced ==
    \A k \in Ordinal :
        []<>(pods[k].node # "lost" \/ spec.replicas < 2 \/ spec.guard = "drift")

\* The gauge of an upgrade comes down with the upgrade and goes with the object
\* (clusterMetrics, forgetCluster).
GaugeFollows ==
    StopsSettle =>
        <>[](/\ object = "gone" => status.gauge = "none"
             /\ Sound => status.gauge = "idle" /\ status.phase = "Running")
=============================================================================
