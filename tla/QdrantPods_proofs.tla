------------------------- MODULE QdrantPods_proofs -------------------------
(***************************************************************************)
(* Proofs about QdrantPods for every bound on the replicas, every number   *)
(* of templates and every number of failures and edits: the type of the    *)
(* state, the scale-in that never cuts off a peer, and the gate of a       *)
(* rolling upgrade.                                                        *)
(***************************************************************************)
EXTENDS QdrantPods, NatChoice

(***************************************************************************)
(* Numbers and sets of ordinals.                                           *)
(***************************************************************************)

\* The clamp of upgradePartition.
LEMMA MaxOfTwo ==
    ASSUME NEW a \in Int, NEW b \in Int
    PROVE  Max({a, b}) = IF a >= b THEN a ELSE b
<1>1. CASE a >= b
  <2>1. a \in {a, b} /\ \A y \in {a, b} : a >= y
    BY <1>1
  <2>2. Max({a, b}) \in {a, b} /\ \A y \in {a, b} : Max({a, b}) >= y
    BY <2>1 DEF Max
  <2> QED
    BY <1>1, <2>2
<1>2. CASE ~ (a >= b)
  <2>1. b \in {a, b} /\ \A y \in {a, b} : b >= y
    BY <1>2
  <2>2. Max({a, b}) \in {a, b} /\ \A y \in {a, b} : Max({a, b}) >= y
    BY <2>1 DEF Max
  <2> QED
    BY <1>2, <2>2
<1> QED
  BY <1>1, <1>2

\* A count of ordinals is at most the bound on the replicas.
LEMMA CountBound ==
    ASSUME NEW S \in SUBSET Ordinal
    PROVE  IsFiniteSet(S) /\ Cardinality(S) \in 0..MaxReplicas
<1>1. MaxReplicas \in Nat \ {0}
  BY PodsAssumption
<1>2. IsFiniteSet(Ordinal) /\ Cardinality(Ordinal) = MaxReplicas
  <2>1. 0 \in Int /\ MaxReplicas - 1 \in Int /\ ~ (0 > MaxReplicas - 1)
        /\ (MaxReplicas - 1) - 0 + 1 = MaxReplicas
    BY <1>1
  <2> QED
    BY <2>1, FS_Interval DEF Ordinal
<1>3. IsFiniteSet(S) /\ Cardinality(S) <= Cardinality(Ordinal)
  BY <1>2, FS_Subset
<1>4. Cardinality(S) \in Nat
  BY <1>3, FS_CardinalityType
<1> QED
  BY <1>1, <1>2, <1>3, <1>4

\* upgradePartition is a partition, whatever the status counts.
LEMMA PartitionType ==
    ASSUME NEW n \in 1..MaxReplicas, stat \in SetStatus, NEW obs \in BOOLEAN
    PROVE  UpgradePartition(n, obs) \in 0..MaxReplicas
<1>1. MaxReplicas \in Nat /\ stat.updated \in 0..MaxReplicas
  BY PodsAssumption DEF SetStatus
<1>2. n - stat.updated \in Int /\ n - stat.updated <= MaxReplicas
  BY <1>1
<1>3. Frozen(n) = IF n - stat.updated >= 0 THEN n - stat.updated ELSE 0
  BY <1>2, MaxOfTwo DEF Frozen
<1>4. Frozen(n) \in 0..MaxReplicas
  BY <1>1, <1>2, <1>3
<1>5. Max({Frozen(n) - 1, 0}) = IF Frozen(n) - 1 >= 0 THEN Frozen(n) - 1 ELSE 0
  BY <1>1, <1>4, MaxOfTwo
<1>6. Max({Frozen(n) - 1, 0}) \in 0..MaxReplicas /\ 0 \in 0..MaxReplicas
  BY <1>1, <1>4, <1>5
<1> QED
  BY <1>4, <1>6 DEF UpgradePartition

(***************************************************************************)
(* Types.                                                                  *)
(***************************************************************************)
Placement == Pod \cup {NoPod}
Passing == [step : {"idle", "apply"}, want : StatefulSet, stale : BOOLEAN]

LEMMA PodOrNone ==
    /\ NoPod \notin Pod /\ NoPod.node = "none"
    /\ \A p \in Placement : p.node \in {"up", "down", "lost"} => p \in Pod
    /\ \A t \in PodTemplate, r \in BOOLEAN : NewPod(t, r) \in Pod
BY DEF Placement, Pod, NoPod, NewPod

\* A pod that becomes ready, and one that is told to stop.
LEMMA PodChanged ==
    ASSUME NEW p \in Pod
    PROVE  /\ [p EXCEPT !.ready = TRUE] \in Pod /\ [p EXCEPT !.ready = TRUE].ready
           /\ [p EXCEPT !.ready = TRUE].stopping = p.stopping
           /\ [p EXCEPT !.ready = TRUE].node = p.node
           /\ [p EXCEPT !.ready = TRUE].template = p.template
           /\ [p EXCEPT !.stopping = TRUE] \in Pod /\ [p EXCEPT !.stopping = TRUE].stopping
           /\ [p EXCEPT !.stopping = TRUE].ready = p.ready
           /\ [p EXCEPT !.stopping = TRUE].node = p.node
           /\ [p EXCEPT !.stopping = TRUE].template = p.template
BY DEF Pod

LEMMA RenderedType ==
    ASSUME spec \in Resource
    PROVE  /\ Rendered(spec) \in PodTemplate
           /\ BuildStatefulSet(spec) \in StatefulSet
<1>1. spec.replicas \in 1..MaxReplicas /\ spec.template \in Template
  BY DEF Resource
<1>2. Rendered(spec) \in PodTemplate
  BY <1>1 DEF Rendered, Spread, PodTemplate
<1>3. 0 \in 0..MaxReplicas
  BY PodsAssumption
<1> QED
  BY <1>1, <1>2, <1>3 DEF BuildStatefulSet, StatefulSet

\* One more event keeps the budget within its bounds.
LEMMA EventType ==
    ASSUME budget \in Budget, NEW d \in BOOLEAN, Event(d)
    PROVE  budget' \in Budget /\ budget'.disturbed = (budget.disturbed \/ d)
<1>1. budget.events \in 0..MaxEvents /\ budget.events < MaxEvents /\ MaxEvents \in Nat
  BY PodsAssumption DEF Budget, Event
<1>2. budget.events + 1 \in 0..MaxEvents
  BY <1>1
<1>3. budget' = [budget EXCEPT !.events = budget.events + 1,
                               !.disturbed = budget.disturbed \/ d]
  BY DEF Event
<1> QED
  BY <1>2, <1>3 DEF Budget

LEMMA FailType ==
    ASSUME budget \in Budget, NEW f, Fail(f)
    PROVE  budget' \in Budget /\ budget'.disturbed
BY EventType DEF Fail

\* reconcileStuckPods takes pods away and adds none.
LEMMA StuckType ==
    ASSUME pods \in [Ordinal -> Placement], ReconcileStuckPods
    PROVE  pods' \in [Ordinal -> Placement]
BY DEF ReconcileStuckPods, StuckPods, Placement

\* What a synchronisation makes of the pods and of the status.
LEMMA SyncType ==
    ASSUME TypeOK
    PROVE  Rolled(Sized) \in [Ordinal -> Placement] /\ Counted(Rolled(Sized)) \in SetStatus
<1>1. /\ pods \in [Ordinal -> Placement] /\ stat.current \in PodTemplate
      /\ sts.template \in PodTemplate
  BY DEF TypeOK, Placement, SetStatus, StatefulSet
<1>2. \A k \in Ordinal : Revision(k) \in PodTemplate
  BY <1>1 DEF Revision
<1>3. ASSUME NEW k \in Ordinal
      PROVE  Sized[k] \in Placement
  <2>1. CASE ~Exists(k)
    <3>1. Sized[k] \in {NewPod(Revision(k), FALSE), NoPod}
      BY <2>1 DEF Sized
    <3> QED
      BY <1>2, <3>1, PodOrNone DEF Placement
  <2>2. CASE Exists(k)
    <3>1. pods[k] \in Pod
      BY <1>1, <2>2 DEF Exists, Placement
    <3>2. [pods[k] EXCEPT !.stopping = TRUE] \in Pod
      BY <3>1 DEF Pod
    <3>3. Sized[k] \in {pods[k], [pods[k] EXCEPT !.stopping = TRUE]}
      BY <2>2 DEF Sized
    <3> QED
      BY <3>1, <3>2, <3>3 DEF Placement
  <2> QED
    BY <2>1, <2>2
<1>4. ASSUME NEW k \in Ordinal, Outdated(Sized, k)
      PROVE  [Sized[k] EXCEPT !.stopping = TRUE] \in Placement
  <2>1. sts.replicas \in Int /\ sts.partition \in Int /\ k \in Int
    BY PodsAssumption DEF TypeOK, StatefulSet, Ordinal
  <2>2. k < sts.replicas
    BY <1>4, <2>1 DEF Outdated
  <2>3. Sized[k] # NoPod
    BY <1>2, <2>2, PodOrNone DEF Sized, Exists
  <2>4. Sized[k] \in Pod
    BY <1>3, <2>3 DEF Placement
  <2> QED
    BY <2>4 DEF Pod, Placement
<1>5. Rolled(Sized) \in [Ordinal -> Placement]
  BY <1>3, <1>4 DEF Rolled
<1> DEFINE rolled == Rolled(Sized)
           present == {k \in Ordinal : rolled[k] # NoPod}
           updated == {k \in present : UpToDate(rolled[k]) /\ ~rolled[k].stopping}
           ready == {k \in Ordinal : Exists(k) /\ pods[k].ready}
<1>6. Cardinality(updated) \in 0..MaxReplicas
  <2>1. updated \in SUBSET Ordinal
    OBVIOUS
  <2> QED
    BY <2>1, CountBound
<1>7. Cardinality(ready) \in 0..MaxReplicas
  BY CountBound
<1>8. /\ Counted(rolled).update = sts.template
      /\ Counted(rolled).current \in {sts.template, stat.current}
      /\ Counted(rolled).updated = Cardinality(updated)
      /\ Counted(rolled).ready = Cardinality(ready)
      /\ Counted(rolled) = [update |-> Counted(rolled).update, current |-> Counted(rolled).current,
                            updated |-> Counted(rolled).updated, ready |-> Counted(rolled).ready]
  BY DEF Counted
<1> HIDE DEF rolled, updated, ready
<1>9. Counted(rolled) \in SetStatus
  BY <1>1, <1>6, <1>7, <1>8 DEF SetStatus
<1> QED
  BY <1>5, <1>9 DEF rolled

\* The status that reconcileStatus writes.
LEMMA StatusType ==
    ASSUME TypeOK, NEW n \in 1..MaxReplicas, ReconcileStatus(n)
    PROVE  /\ status' \in Status /\ moving' \in BOOLEAN /\ budget' \in Budget
           /\ budget'.disturbed = budget.disturbed
           /\ moving' => moving \/ (~RolloutInProgress /\ ~Transitioning)
<1>1. status \in Status /\ budget \in Budget /\ moving \in BOOLEAN
  BY DEF TypeOK
<1>2. /\ Phase(n) \in {"Running", "Provisioning", "Upgrading"} /\ Gauge \in {"idle", "upgrading"}
      /\ Phase(n) = "Running" => ~RolloutInProgress
  BY DEF Phase, Gauge
<1>3. \A p \in {"Running", "Provisioning", "Upgrading", "Rebalancing"}, g \in {"idle", "upgrading"} :
          [status EXCEPT !.phase = p, !.gauge = g] \in Status
  BY <1>1 DEF Status
<1>4. CASE moving' = moving /\ budget' = budget
           /\ status' = [status EXCEPT !.phase = Phase(n), !.gauge = Gauge]
  BY <1>1, <1>2, <1>3, <1>4
<1>5. CASE /\ Phase(n) = "Running"
           /\ (moving /\ UNCHANGED budget)
              \/ (~moving /\ ~Transitioning /\ budget.moves < MaxMoves
                  /\ budget' = [budget EXCEPT !.moves = @ + 1])
           /\ moving' = TRUE
           /\ status' = [status EXCEPT !.phase = "Rebalancing", !.gauge = Gauge]
  <2>1. status' \in Status
    BY <1>2, <1>3, <1>5
  <2>2. CASE moving /\ UNCHANGED budget
    BY <1>1, <1>5, <2>1, <2>2
  <2>3. CASE /\ ~moving /\ ~Transitioning /\ budget.moves < MaxMoves
             /\ budget' = [budget EXCEPT !.moves = @ + 1]
    <3>1. budget.moves + 1 \in 0..MaxMoves
      BY <1>1, <2>3, PodsAssumption DEF Budget
    <3>2. budget' \in Budget /\ budget'.disturbed = budget.disturbed
      BY <1>1, <2>3, <3>1 DEF Budget
    <3> QED
      BY <1>2, <1>5, <2>1, <2>3, <3>2
  <2> QED
    BY <1>5, <2>2, <2>3
<1> QED
  BY <1>4, <1>5 DEF ReconcileStatus

LEMMA TypeInit == Init => TypeOK
<1> SUFFICES ASSUME Init PROVE TypeOK
  OBVIOUS
<1> DEFINE asked(n) == [replicas |-> n, template |-> 1, guard |-> "none"]
<1>1. PICK n \in InitSizes :
          /\ spec = asked(n) /\ object = "live" /\ sts = BuildStatefulSet(asked(n)) /\ cached = n
          /\ stat = [update |-> sts.template, current |-> sts.template, updated |-> n, ready |-> n]
          /\ pods = [k \in Ordinal |-> IF k < n THEN NewPod(sts.template, TRUE) ELSE NoPod]
          /\ peer = [k \in Ordinal |-> IF k < n THEN "whole" ELSE "out"]
          /\ moving = FALSE
          /\ pass = [step |-> "idle", want |-> sts, stale |-> FALSE] /\ answered = "given" /\ wake = TRUE
          /\ status = [phase |-> "Running", degraded |-> "none", gauge |-> "idle"]
          /\ budget = [events |-> 0, disturbed |-> FALSE, moves |-> 0]
  BY DEF Init
<1>2. n \in 1..MaxReplicas /\ n \in 0..MaxReplicas /\ 1 \in Template
  BY PodsAssumption DEF Template
<1>3. spec \in Resource
  BY <1>1, <1>2 DEF Resource, Guard
<1>4. sts \in StatefulSet /\ sts.template \in PodTemplate
  BY <1>1, <1>3, RenderedType DEF StatefulSet
<1>5. stat \in SetStatus
  BY <1>1, <1>2, <1>4 DEF SetStatus
<1>6. pods \in [Ordinal -> Pod \cup {NoPod}]
  BY <1>1, <1>4, PodOrNone
<1>7. status \in Status /\ budget \in Budget
  BY <1>1, PodsAssumption DEF Status, Budget
<1> QED
  BY <1>1, <1>2, <1>3, <1>4, <1>5, <1>6, <1>7 DEF TypeOK

LEMMA TypeStep == TypeOK /\ [Next]_vars => TypeOK'
<1> SUFFICES ASSUME TypeOK, [Next]_vars PROVE TypeOK'
  OBVIOUS
<1> USE DEF kube, qdrant, operator
<1>a. /\ pods \in [Ordinal -> Placement] /\ budget \in Budget /\ status \in Status
      /\ spec \in Resource /\ sts \in StatefulSet /\ stat \in SetStatus
      /\ pass \in Passing
  BY DEF TypeOK, Placement, Passing
<1>b. \A s \in {"idle", "apply"} : [pass EXCEPT !.step = s] \in Passing
  BY <1>a DEF Passing
<1>c. \A k \in Ordinal : pods[k] # NoPod => pods[k] \in Pod
  BY <1>a DEF Placement
<1>1. CASE DriftPass
  <2>1. status' \in Status
    BY <1>1, <1>a DEF DriftPass, Status
  <2> QED
    BY <1>1, <1>a, <2>1, StuckType DEF DriftPass, TypeOK, Placement
<1>2. CASE DrainPass
  <2>1. status' \in Status
    BY <1>2, <1>a DEF DrainPass, Status
  <2>2. budget' \in Budget
    BY <1>2, <1>a, FailType DEF DrainPass
  <2>3. pods' \in [Ordinal -> Placement]
    BY <1>2, <1>a, StuckType DEF DrainPass
  <2>4. peer' \in [Ordinal -> {"out", "joining", "partial", "dead", "whole"}]
    BY <1>2 DEF DrainPass, TypeOK
  <2>5. sts' \in StatefulSet /\ cached' \in 1..MaxReplicas
    <3>1. CASE UNCHANGED <<sts, cached>>
      BY <3>1 DEF TypeOK
    <3>2. CASE cached = sts.replicas /\ sts' = [sts EXCEPT !.replicas = @ - 1] /\ cached' = cached - 1
      <4>1. spec.replicas \in 1..MaxReplicas /\ cached \in 1..MaxReplicas /\ spec.replicas < cached
        BY <1>2, <1>a DEF DrainPass, Draining, TypeOK, Resource
      <4>2. cached - 1 \in 1..MaxReplicas
        BY <4>1, PodsAssumption
      <4> QED
        BY <1>a, <3>2, <4>2 DEF StatefulSet
    <3> QED
      BY <1>2, <3>1, <3>2 DEF DrainPass, ShrinkOne
  <2> QED
    BY <1>2, <2>1, <2>2, <2>3, <2>4, <2>5 DEF DrainPass, TypeOK, Placement
<1>3. CASE TlsPass
  <2>1. status' \in Status
    BY <1>3, <1>a DEF TlsPass, Status
  <2> QED
    BY <1>3, <1>a, <2>1, StuckType DEF TlsPass, TypeOK, Placement
<1>4. CASE RenderPass
  <2>1. PICK obs \in BOOLEAN :
            /\ \/ obs /\ UNCHANGED budget
               \/ ~obs /\ RolloutInProgress /\ Fail("unobservable")
            /\ pass' = [step |-> "apply",
                        want |-> [BuildStatefulSet(spec) EXCEPT
                                     !.partition = UpgradePartition(spec.replicas, obs),
                                     !.gated = RolloutInProgress /\ stat.update = Rendered(spec)],
                        stale |-> cached # sts.replicas]
    BY <1>4 DEF RenderPass
  <2>2. budget' \in Budget
    BY <1>a, <2>1, FailType
  <2>3. spec.replicas \in 1..MaxReplicas
    BY <1>a DEF Resource
  <2>4. UpgradePartition(spec.replicas, obs) \in 0..MaxReplicas
    BY <1>a, <2>3, PartitionType
  <2>5. pass' \in Passing
    BY <1>a, <2>1, <2>4, RenderedType DEF StatefulSet, Passing
  <2> QED
    BY <1>4, <1>a, <2>2, <2>5, StuckType DEF RenderPass, TypeOK, Placement, Passing
<1>5. CASE ApplyPass
  <2>1. pass.want \in StatefulSet /\ pass.want.replicas \in 1..MaxReplicas
    BY <1>a DEF StatefulSet, Passing
  <2>2. CASE cached' = pass.want.replicas /\ ReconcileStatus(pass.want.replicas)
    BY <1>5, <1>b, <2>1, <2>2, StatusType DEF ApplyPass, TypeOK, Passing
  <2>3. CASE /\ Fail("cacheLag")
             /\ status' = [status EXCEPT !.phase = Phase(pass.want.replicas), !.gauge = Gauge]
             /\ UNCHANGED <<cached, moving>>
    <3>1. Phase(pass.want.replicas) \in {"Running", "Provisioning", "Upgrading"} /\ Gauge \in {"idle", "upgrading"}
      BY DEF Phase, Gauge
    <3>2. status' \in Status
      BY <1>a, <2>3, <3>1 DEF Status
    <3> QED
      BY <1>5, <1>a, <1>b, <2>1, <2>3, <3>2, FailType DEF ApplyPass, TypeOK, Passing
  <2> QED
    BY <1>5, <2>2, <2>3 DEF ApplyPass
<1>6. CASE ConflictPass
  BY <1>6, <1>a, <1>b, FailType DEF ConflictPass, TypeOK, Passing
<1>7. CASE OrphanPass
  <2>1. status' \in Status
    BY <1>7, <1>a DEF OrphanPass, Status, Gauge
  <2> QED
    BY <1>7, <1>b, <2>1 DEF OrphanPass, TypeOK, Passing
<1>8. CASE ForgetPass
  <2>1. status' \in Status
    BY <1>8, <1>a DEF ForgetPass, ForgetCluster, Status
  <2> QED
    BY <1>8, <2>1 DEF ForgetPass, TypeOK
<1>9. CASE SyncStatefulSet
  <2>1. pods' = Rolled(Sized) /\ stat' = Counted(Rolled(Sized))
    BY <1>9 DEF SyncStatefulSet
  <2>2. answered' \in {"none", answered}
    BY <1>9 DEF SyncStatefulSet
  <2> QED
    BY <1>9, <2>1, <2>2, SyncType DEF SyncStatefulSet, TypeOK, Placement
<1>10. CASE DeliverStatefulSet
  BY <1>10 DEF DeliverStatefulSet, TypeOK, StatefulSet
<1>11. CASE \E k \in Ordinal : PodReady(k)
  <2>1. PICK k \in Ordinal : PodReady(k)
    BY <1>11
  <2>2. pods' \in [Ordinal -> Placement]
    BY <1>a, <1>c, <2>1 DEF PodReady, Exists, Pod, Placement
  <2>3. peer' \in [Ordinal -> {"out", "joining", "partial", "dead", "whole"}]
    BY <2>1 DEF PodReady, TypeOK
  <2>4. budget' \in Budget
    BY <1>a, <2>1, FailType DEF PodReady
  <2> QED
    BY <2>1, <2>2, <2>3, <2>4 DEF PodReady, TypeOK, Placement
<1>12. CASE \E k \in Ordinal : PodStopped(k)
  BY <1>12 DEF PodStopped, TypeOK
<1>13. CASE \E k \in Ordinal : PodStopsSlowly(k)
  <2>1. PICK k \in Ordinal : PodStopsSlowly(k)
    BY <1>13
  <2>2. pods' \in [Ordinal -> Placement]
    BY <1>a, <1>c, <2>1 DEF PodStopsSlowly, Exists, Pod, Placement
  <2> QED
    BY <2>1, <2>2 DEF PodStopsSlowly, TypeOK, Placement
<1>14. CASE \E k \in Ordinal : \E state \in {"down", "lost"} : NodeFails(k, state)
  <2>1. PICK k \in Ordinal, state \in {"down", "lost"} : NodeFails(k, state)
    BY <1>14
  <2>2. pods[k] \in Pod
    BY <1>a, <2>1, PodOrNone DEF NodeFails
  <2>3. pods' \in [Ordinal -> Placement]
    BY <1>a, <2>1, <2>2 DEF NodeFails, Pod, Placement
  <2> QED
    BY <1>a, <2>1, <2>3, FailType DEF NodeFails, TypeOK, Placement
<1>15. CASE \E k \in Ordinal : GraceExpires(k)
  <2>1. PICK k \in Ordinal : GraceExpires(k)
    BY <1>15
  <2>2. pods[k] \in Pod
    BY <1>a, <2>1, PodOrNone DEF GraceExpires
  <2>3. pods' \in [Ordinal -> Placement]
    BY <1>a, <2>1, <2>2 DEF GraceExpires, Pod, Placement
  <2> QED
    BY <2>1, <2>3 DEF GraceExpires, TypeOK, Placement
<1>16. CASE \E k \in Ordinal : NodeReturns(k)
  <2>1. PICK k \in Ordinal : NodeReturns(k)
    BY <1>16
  <2>2. pods[k] \in Pod
    BY <1>a, <2>1, PodOrNone DEF NodeReturns
  <2>3. pods' \in [Ordinal -> Placement]
    BY <1>a, <2>1, <2>2 DEF NodeReturns, Pod, Placement
  <2> QED
    BY <2>1, <2>3 DEF NodeReturns, TypeOK, Placement
<1>17. CASE \E k \in Ordinal : PeerRecovers(k)
  BY <1>17 DEF PeerRecovers, TypeOK
<1>18. CASE \E k \in Ordinal : ReplicaDies(k)
  BY <1>18, <1>a, FailType DEF ReplicaDies, TypeOK
<1>19. CASE TransferEnds
  BY <1>19 DEF TransferEnds, TypeOK
<1>20. CASE FailedPass
  BY <1>20, <1>a, StuckType, FailType DEF FailedPass, TypeOK, Placement
<1>21. CASE \E n \in 1..MaxReplicas : EditReplicas(n)
  <2>1. PICK n \in 1..MaxReplicas : EditReplicas(n)
    BY <1>21
  <2>2. spec' \in Resource
    BY <1>a, <2>1 DEF EditReplicas, Resource
  <2> QED
    BY <1>a, <2>1, <2>2, EventType DEF EditReplicas, Edit, TypeOK
<1>22. CASE \E t \in Template : EditTemplate(t)
  <2>1. PICK t \in Template : EditTemplate(t)
    BY <1>22
  <2>2. spec' \in Resource
    BY <1>a, <2>1 DEF EditTemplate, Resource
  <2>3. Unfinished \in BOOLEAN
    BY DEF Unfinished
  <2> QED
    BY <1>a, <2>1, <2>2, <2>3, EventType DEF EditTemplate, Edit, TypeOK
<1>23. CASE \E g \in Guard : EditGuard(g)
  <2>1. PICK g \in Guard : EditGuard(g)
    BY <1>23
  <2>2. spec' \in Resource
    BY <1>a, <2>1 DEF EditGuard, Resource
  <2> QED
    BY <1>a, <2>1, <2>2, EventType DEF EditGuard, Edit, TypeOK
<1>24. CASE DeleteObject
  BY <1>24, <1>a, EventType DEF DeleteObject, Edit, TypeOK
<1>25. CASE UNCHANGED vars
  BY <1>25 DEF vars, TypeOK
<1> QED
  BY <1>1, <1>2, <1>3, <1>4, <1>5, <1>6, <1>7, <1>8, <1>9, <1>10, <1>11, <1>12, <1>13, <1>14,
     <1>15, <1>16, <1>17, <1>18, <1>19, <1>20, <1>21, <1>22, <1>23, <1>24, <1>25
     DEF Next, Operator, Controller, Surroundings, Progress, Failure, User

\* Whatever fails and whatever is edited, every variable keeps its type: the
\* partition and the counts stay within the replicas (upgradePartition's clamp),
\* and a shrink leaves at least one replica (shrinkOne).
THEOREM PodsTypeCorrect == Spec => []TypeOK
BY TypeInit, TypeStep, PTL DEF Spec

(***************************************************************************)
(* The scale-in.                                                           *)
(***************************************************************************)

\* A guard that has read the size in force renders no smaller one, and nothing
\* else changes the size before the pass applies it.
SizeInv == pass.step = "apply" /\ ~pass.stale => pass.want.replicas >= sts.replicas

\* The steps that touch neither the sizes nor the pass.
SizesKept == UNCHANGED <<sts, cached>> /\ (pass' = pass \/ pass' = [pass EXCEPT !.step = "idle"])

LEMMA SizesMove ==
    ASSUME [Next]_vars
    PROVE  DrainPass \/ RenderPass \/ ApplyPass \/ DeliverStatefulSet \/ SizesKept
<1> USE DEF kube, qdrant, operator, SizesKept
<1>1. CASE DriftPass \/ TlsPass \/ ConflictPass \/ OrphanPass \/ ForgetPass
  BY <1>1 DEF DriftPass, TlsPass, ConflictPass, OrphanPass, ForgetPass
<1>2. CASE SyncStatefulSet \/ Surroundings
  BY <1>2 DEF SyncStatefulSet, Surroundings, Progress, TransferEnds, PodReady, PodStopped,
              PeerRecovers, GraceExpires, PodStopsSlowly
<1>3. CASE Failure
  BY <1>3 DEF Failure, FailedPass, NodeReturns, ReplicaDies, NodeFails
<1>4. CASE User
  BY <1>4 DEF User, EditReplicas, EditTemplate, EditGuard, DeleteObject, Edit
<1>5. CASE UNCHANGED vars
  BY <1>5 DEF vars
<1> QED
  BY <1>1, <1>2, <1>3, <1>4, <1>5 DEF Next, Operator, Controller

\* What a pass wants once it has rendered the StatefulSet.
LEMMA RenderOutcome ==
    ASSUME RenderPass
    PROVE  /\ Due /\ ~Draining /\ ReconcileStuckPods
           /\ UNCHANGED <<spec, object, sts, stat, cached, peer, moving>>
           /\ pass'.step = "apply" /\ pass'.want.replicas = spec.replicas
           /\ pass'.stale = (cached # sts.replicas)
           /\ pass'.want.template = Rendered(spec)
           /\ pass'.want.gated = (RolloutInProgress /\ stat.update = Rendered(spec))
           /\ \E obs \in BOOLEAN :
                  /\ (obs /\ UNCHANGED budget) \/ Fail("unobservable")
                  /\ pass'.want.partition = UpgradePartition(spec.replicas, obs)
<1>1. PICK obs \in BOOLEAN :
          /\ \/ obs /\ UNCHANGED budget
             \/ ~obs /\ RolloutInProgress /\ Fail("unobservable")
          /\ pass' = [step |-> "apply",
                      want |-> [BuildStatefulSet(spec) EXCEPT
                                   !.partition = UpgradePartition(spec.replicas, obs),
                                   !.gated = RolloutInProgress /\ stat.update = Rendered(spec)],
                      stale |-> cached # sts.replicas]
  BY DEF RenderPass
<1>2. pass'.step = "apply" /\ pass'.stale = (cached # sts.replicas)
      /\ pass'.want = [replicas |-> spec.replicas, template |-> Rendered(spec),
                       partition |-> UpgradePartition(spec.replicas, obs),
                       gated |-> RolloutInProgress /\ stat.update = Rendered(spec)]
  BY <1>1 DEF BuildStatefulSet
<1> QED
  BY <1>1, <1>2 DEF RenderPass, qdrant

LEMMA SizeInit == Init => SizeInv
BY DEF Init, SizeInv

\* What a step does to the size that is in force.
Shrunk ==
    sts'.replicas < sts.replicas =>
        \/ pass.step = "apply" /\ pass.stale
        \/ sts'.replicas = sts.replicas - 1 /\ peer'[sts'.replicas] \in {"out", "joining"}

LEMMA SizeStep ==
    ASSUME TypeOK, SizeInv, [Next]_vars
    PROVE  SizeInv' /\ Shrunk
<1>1. /\ sts.replicas \in 1..MaxReplicas /\ spec.replicas \in 1..MaxReplicas
      /\ MaxReplicas \in Nat /\ sts \in StatefulSet /\ cached \in 1..MaxReplicas
      /\ pass \in Passing
      /\ peer \in [Ordinal -> {"out", "joining", "partial", "dead", "whole"}]
  BY PodsAssumption DEF TypeOK, StatefulSet, Resource, Passing
<1>2. CASE DrainPass
  <2>1. pass' = pass /\ pass.step = "idle"
    BY <1>2 DEF DrainPass, Due
  <2>2. CASE UNCHANGED <<sts, cached>>
    BY <1>1, <2>1, <2>2 DEF SizeInv, Shrunk
  <2>3. CASE /\ cached = sts.replicas /\ sts' = [sts EXCEPT !.replicas = @ - 1]
             /\ peer' = [peer EXCEPT ![cached - 1] = IF cached - 1 \in Members THEN "out" ELSE @]
    <3>1. sts'.replicas = sts.replicas - 1 /\ sts'.replicas = cached - 1
      BY <1>1, <2>3 DEF StatefulSet
    <3>2. cached - 1 \in Ordinal
      BY <1>1 DEF Ordinal
    <3>3. peer'[cached - 1] \in {"out", "joining"}
      BY <1>1, <2>3, <3>2 DEF Members
    <3> QED
      BY <2>1, <3>1, <3>3 DEF SizeInv, Shrunk
  <2> QED
    BY <1>2, <2>2, <2>3 DEF DrainPass, ShrinkOne
<1>3. CASE RenderPass
  <2>1. /\ UNCHANGED <<sts, cached>> /\ ~ (spec.replicas < cached)
        /\ pass'.want.replicas = spec.replicas /\ pass'.stale = (cached # sts.replicas)
    BY <1>3, RenderOutcome DEF Draining
  <2>2. ~ (sts'.replicas < sts.replicas)
    BY <1>1, <2>1
  <2>3. ASSUME ~pass'.stale
        PROVE  cached = sts.replicas
    BY <2>1, <2>3
  <2>4. ~pass'.stale => pass'.want.replicas >= sts'.replicas
    <3>1. cached = sts.replicas => spec.replicas >= sts.replicas
      BY <1>1, <2>1
    <3>2. pass'.want.replicas = spec.replicas /\ sts' = sts
      BY <2>1
    <3> QED
      BY <2>3, <3>1, <3>2
  <2> QED
    BY <2>2, <2>4 DEF SizeInv, Shrunk
<1>4. CASE ApplyPass
  <2>1. sts' = pass.want /\ pass'.step = "idle" /\ pass.step = "apply"
    BY <1>1, <1>4 DEF ApplyPass, Passing
  <2>2. pass.want.replicas \in 1..MaxReplicas
    BY <1>1 DEF StatefulSet, Passing
  <2> QED
    BY <1>1, <2>1, <2>2 DEF SizeInv, Shrunk
<1>5. CASE DeliverStatefulSet
  BY <1>1, <1>5 DEF DeliverStatefulSet, SizeInv, Shrunk
<1>6. CASE SizesKept
  BY <1>1, <1>6 DEF SizesKept, SizeInv, Shrunk, Passing
<1> QED
  BY <1>2, <1>3, <1>4, <1>5, <1>6, SizesMove

\* Whatever fails and however often the size is edited, the StatefulSet shrinks by
\* one ordinal at a time, whose peer the drain has removed
\* (qdrantcluster_controller.go:139, shrinkOne), unless the pass has compared the
\* size asked for with a cached size that lagged behind the operator's own write.
THEOREM ScaleInDrainsFirst == Spec => NeverTruncated
<1>1. Init => SizeInv
  BY SizeInit
<1>2. TypeOK /\ SizeInv /\ [Next]_vars => SizeInv' /\ [Shrunk]_vars
  BY SizeStep
<1>3. Spec => [][Shrunk]_vars
  BY <1>1, <1>2, PodsTypeCorrect, PTL DEF Spec
<1> QED
  BY <1>3 DEF NeverTruncated, Shrunk

(***************************************************************************)
(* The gate of a rolling upgrade.  As long as nothing disturbs the cluster *)
(* (Calm), the pods on the new template are the highest ordinals, at most  *)
(* one pod is not healthy, and whatever partition the gate has decided,    *)
(* applied or still in flight, opens at most one ordinal that is not       *)
(* updated yet, and that one only with every other peer back.              *)
(***************************************************************************)
Calm == ~budget.disturbed /\ object = "live"

Replica == 0..(sts.replicas - 1)
Updated(k) == Exists(k) /\ UpToDate(pods[k]) /\ ~pods[k].stopping

\* The size is the one asked for.
Sizes ==
    /\ cached = sts.replicas /\ spec.replicas = sts.replicas
    /\ pass.step = "apply" => pass.want.replicas = sts.replicas

\* No node is lost, no peer has left.
Placed ==
    \A k \in Ordinal :
        /\ k < sts.replicas => /\ Exists(k) => pods[k].node = "up"
                               /\ peer[k] \in {"whole", "partial"}
        /\ k >= sts.replicas => pods[k] = NoPod /\ peer[k] = "out"

\* The rollout goes from the highest ordinal down, one pod at a time.
Ladder ==
    /\ \A i, j \in Replica : i < j /\ Updated(i) => Updated(j)
    /\ \A i, j \in Replica : i < j /\ ~Updated(j) => Healthy(pods[i])
    /\ \A i, j \in Replica : i # j /\ ~Healthy(pods[i]) => Healthy(pods[j])

\* What the status of the StatefulSet says of the pods, late as it may be.
Told ==
    /\ sts.template = stat.update => stat.updated = Cardinality({k \in Replica : Updated(k)})
    /\ stat.ready = sts.replicas
           => \A k \in Replica : Exists(k) => pods[k].ready \/ pods[k].stopping
    /\ ~RolloutInProgress => \A k \in Replica : Healthy(pods[k]) /\ pods[k].template = stat.update
    /\ sts.template # stat.update => ~RolloutInProgress /\ ~sts.gated
    /\ Rendered(spec) # sts.template => sts.template = stat.update /\ ~RolloutInProgress

\* A pass in flight wants the template in force or the one asked for.
Pending ==
    pass.step = "apply" =>
        /\ pass.want.template \in {sts.template, Rendered(spec)}
        /\ pass.want.gated => pass.want.template = sts.template /\ sts.template = stat.update

\* What the partition opens: one ordinal at most, the others being back.
Permit(partition) ==
    /\ \A k \in Replica : k > partition => Updated(k)
    /\ \A k \in Replica :
           k = partition /\ ~Updated(k) => ~moving /\ \A j \in Replica : j # k => Whole(j)

Permitted ==
    /\ sts.gated => Permit(sts.partition)
    /\ pass.step = "apply" /\ pass.want.gated => Permit(pass.want.partition)

Gate == Sizes /\ Placed /\ Ladder /\ Told /\ Pending /\ Permitted
GateInv == Calm => Gate

(***************************************************************************)
(* What can happen while nothing is disturbed.                             *)
(***************************************************************************)
Still ==
    /\ UNCHANGED <<sts, stat, cached, pods, peer, moving>>
    /\ spec'.replicas = spec.replicas /\ spec'.template = spec.template
    /\ pass' = pass \/ pass'.step = "idle"

Templated ==
    /\ UNCHANGED <<sts, stat, cached, pods, peer, moving, pass>>
    /\ spec'.replicas = spec.replicas /\ ~Unfinished

Rendering ==
    /\ UNCHANGED <<spec, sts, stat, cached, pods, peer, moving>>
    /\ pass'.step = "apply" /\ pass'.want.replicas = spec.replicas
    /\ pass'.want.template = Rendered(spec)
    /\ pass'.want.gated = (RolloutInProgress /\ stat.update = Rendered(spec))
    /\ pass'.want.partition = UpgradePartition(spec.replicas, TRUE)

Applying ==
    /\ UNCHANGED <<spec, stat, pods, peer>>
    /\ pass.step = "apply" /\ pass'.step = "idle"
    /\ sts' = pass.want /\ cached' = pass.want.replicas
    /\ moving' => moving \/ ~RolloutInProgress

CalmMove ==
    \/ Still \/ Templated \/ Rendering \/ Applying \/ SyncStatefulSet \/ TransferEnds
    \/ \E k \in Ordinal : PodReady(k) \/ PodStopped(k) \/ PodStopsSlowly(k) \/ PeerRecovers(k)

\* No failure, no edit of the size and no overtaking template among them.
LEMMA CalmStep ==
    ASSUME TypeOK, GateInv, [Next]_vars, Calm'
    PROVE  Calm /\ Gate /\ CalmMove
<1> USE DEF kube, qdrant, operator
<1>1. /\ budget \in Budget /\ ~budget'.disturbed /\ object' = "live"
      /\ object \in {"live", "gone"} /\ pods \in [Ordinal -> Placement]
      /\ pass \in Passing
      /\ spec \in Resource
  BY DEF TypeOK, Calm, Placement, Passing
<1>2. \A f : ~Fail(f)
  BY <1>1, FailType
<1>3. Calm
  <2>1. object = "live"
    <3>1. object' = object \/ DeleteObject
      BY DEF Next, Operator, Controller, Surroundings, Progress, Failure, User, vars,
             DriftPass, DrainPass, TlsPass, RenderPass, ApplyPass, ConflictPass, OrphanPass,
             ForgetPass, SyncStatefulSet, DeliverStatefulSet, PodReady, PodStopped, PeerRecovers,
             GraceExpires, TransferEnds, FailedPass, PodStopsSlowly, NodeReturns, ReplicaDies,
             NodeFails, EditReplicas, EditTemplate, EditGuard
    <3> QED
      BY <1>1, <3>1 DEF DeleteObject
  <2>2. CASE budget' = budget
    BY <1>1, <2>1, <2>2 DEF Calm
  <2>3. CASE ApplyPass
    <3>1. ReconcileStatus(pass.want.replicas) /\ pass.want.replicas \in 1..MaxReplicas
      BY <1>1, <1>2, <2>3 DEF ApplyPass, StatefulSet, Passing
    <3> QED
      BY <1>1, <2>1, <3>1, StatusType DEF Calm
  <2>4. CASE User
    <3>1. Unfinished \in BOOLEAN
      BY DEF Unfinished
    <3>2. \E d \in BOOLEAN : Event(d)
      BY <2>4, <3>1 DEF User, EditReplicas, EditTemplate, EditGuard, DeleteObject, Edit
    <3>3. ~budget.disturbed
      BY <1>1, <3>2, EventType
    <3> QED
      BY <2>1, <3>3 DEF Calm
  <2> QED
    BY <1>2, <2>2, <2>3, <2>4
       DEF Next, Operator, Controller, Surroundings, Progress, Failure, vars,
           DriftPass, DrainPass, TlsPass, RenderPass, ConflictPass, OrphanPass,
           ForgetPass, SyncStatefulSet, DeliverStatefulSet, PodReady, PodStopped, PeerRecovers,
           GraceExpires, TransferEnds, FailedPass, PodStopsSlowly, NodeReturns, ReplicaDies,
           NodeFails
<1>4. Gate /\ object = "live"
  BY <1>3 DEF GateInv, Calm
<1>5. \A k \in Ordinal : pods[k].node \in {"none", "up"}
  <2>1. ASSUME NEW k \in Ordinal
        PROVE  pods[k].node \in {"none", "up"}
    <3>1. pods[k] = NoPod \/ pods[k].node = "up"
      <4>1. k \in Int /\ sts.replicas \in Int
        BY PodsAssumption DEF TypeOK, StatefulSet, Ordinal
      <4>2. k < sts.replicas \/ k >= sts.replicas
        BY <4>1
      <4> QED
        BY <1>4, <4>2 DEF Gate, Placed, Exists
    <3> QED
      BY <3>1, PodOrNone
  <2> QED
    BY <2>1
<1>6. ReconcileStuckPods => UNCHANGED pods
  BY <1>5 DEF ReconcileStuckPods, StuckPods, NodeDown
<1>7. ~DrainPass /\ ~DeliverStatefulSet
  <2>1. spec.replicas = cached /\ cached = sts.replicas /\ cached \in 1..MaxReplicas
    BY <1>4 DEF Gate, Sizes, TypeOK
  <2>2. ~ (spec.replicas < cached)
    BY <2>1
  <2> QED
    BY <2>1, <2>2 DEF DrainPass, Draining, DeliverStatefulSet
<1>8. ~OrphanPass /\ ~ForgetPass /\ ~FailedPass
  BY <1>2, <1>4 DEF OrphanPass, ForgetPass, FailedPass
<1>9. CASE DriftPass \/ TlsPass \/ ConflictPass
  <2>1. [pass EXCEPT !.step = "idle"].step = "idle"
    BY <1>1 DEF Passing
  <2>2. Still
    BY <1>2, <1>6, <1>9, <2>1 DEF DriftPass, TlsPass, ConflictPass, Still
  <2> QED
    BY <1>3, <1>4, <2>2 DEF CalmMove
<1>10. CASE RenderPass
  <2>1. PICK obs \in BOOLEAN :
            /\ (obs /\ UNCHANGED budget) \/ Fail("unobservable")
            /\ pass'.want.partition = UpgradePartition(spec.replicas, obs)
    BY <1>10, RenderOutcome
  <2>2. pass'.want.partition = UpgradePartition(spec.replicas, TRUE)
    BY <1>2, <2>1
  <2>3. Rendering
    BY <1>6, <1>10, <2>2, RenderOutcome DEF Rendering
  <2> QED
    BY <1>3, <1>4, <2>3 DEF CalmMove
<1>11. CASE ApplyPass
  <2>1. /\ cached' = pass.want.replicas /\ ReconcileStatus(pass.want.replicas)
        /\ pass.want.replicas \in 1..MaxReplicas /\ pass'.step = "idle"
    BY <1>1, <1>2, <1>11 DEF ApplyPass, StatefulSet, Passing
  <2>2. moving' => moving \/ ~RolloutInProgress
    BY <2>1, StatusType
  <2>3. Applying
    BY <1>11, <2>1, <2>2 DEF ApplyPass, Applying
  <2> QED
    BY <1>3, <1>4, <2>3 DEF CalmMove
<1>12. CASE \E k \in Ordinal : GraceExpires(k) \/ NodeReturns(k)
  BY <1>5, <1>12 DEF GraceExpires, NodeReturns
<1>13. CASE User
  <2>1. CASE \E n \in 1..MaxReplicas : EditReplicas(n)
    BY <1>1, <2>1, EventType DEF EditReplicas, Edit
  <2>2. CASE \E t \in Template : EditTemplate(t)
    <3>1. PICK t \in Template : EditTemplate(t)
      BY <2>2
    <3>2. Unfinished \in BOOLEAN
      BY DEF Unfinished
    <3>3. ~Unfinished
      BY <1>1, <3>1, <3>2, EventType DEF EditTemplate, Edit
    <3>4. spec'.replicas = spec.replicas
      BY <1>1, <3>1 DEF EditTemplate, Resource
    <3>5. Templated
      BY <3>1, <3>3, <3>4 DEF EditTemplate, Edit, Templated
    <3> QED
      BY <1>3, <1>4, <3>5 DEF CalmMove
  <2>3. CASE \E g \in Guard : EditGuard(g)
    <3>1. spec'.replicas = spec.replicas /\ spec'.template = spec.template
      BY <1>1, <2>3 DEF EditGuard, Resource
    <3>2. Still
      BY <2>3, <3>1 DEF EditGuard, Edit, Still
    <3> QED
      BY <1>3, <1>4, <3>2 DEF CalmMove
  <2>4. CASE DeleteObject
    BY <1>1, <2>4 DEF DeleteObject
  <2> QED
    BY <1>13, <2>1, <2>2, <2>3, <2>4 DEF User
<1>14. CASE UNCHANGED vars
  <2>1. Still
    BY <1>14 DEF vars, Still
  <2> QED
    BY <1>3, <1>4, <2>1 DEF CalmMove
<1>15. CASE SyncStatefulSet \/ TransferEnds
            \/ \E k \in Ordinal : PodReady(k) \/ PodStopped(k) \/ PodStopsSlowly(k) \/ PeerRecovers(k)
  BY <1>3, <1>4, <1>15 DEF CalmMove
<1>16. CASE \E k \in Ordinal : ReplicaDies(k) \/ \E state \in {"down", "lost"} : NodeFails(k, state)
  BY <1>2, <1>16 DEF ReplicaDies, NodeFails
<1> QED
  BY <1>7, <1>8, <1>9, <1>10, <1>11, <1>12, <1>13, <1>14, <1>15, <1>16
     DEF Next, Operator, Controller, Surroundings, Progress, Failure

(***************************************************************************)
(* What the gate decides.                                                  *)
(***************************************************************************)
LEMMA ReplicaType ==
    ASSUME TypeOK
    PROVE  /\ sts.replicas \in Nat \ {0} /\ sts.partition \in Nat
           /\ Replica = {k \in Ordinal : k < sts.replicas} /\ Replica \subseteq Nat
           /\ IsFiniteSet(Replica) /\ Cardinality(Replica) = sts.replicas
<1>1. sts.replicas \in 1..MaxReplicas /\ sts.partition \in 0..MaxReplicas /\ MaxReplicas \in Nat
  BY PodsAssumption DEF TypeOK, StatefulSet
<1>2. sts.replicas \in Nat \ {0} /\ sts.partition \in Nat
  BY <1>1
<1>3. Replica = {k \in Ordinal : k < sts.replicas} /\ Replica \subseteq Nat
  BY <1>1 DEF Replica, Ordinal
<1>4. 0 \in Int /\ sts.replicas - 1 \in Int /\ ~ (0 > sts.replicas - 1)
      /\ (sts.replicas - 1) - 0 + 1 = sts.replicas
  BY <1>1
<1>5. IsFiniteSet(Replica) /\ Cardinality(Replica) = sts.replicas
  BY <1>4, FS_Interval DEF Replica
<1> QED
  BY <1>2, <1>3, <1>5

\* A set of ordinals that holds all above each of its members is an interval.
LEMMA TopInterval ==
    ASSUME NEW n \in Nat, NEW S \in SUBSET (0..(n - 1)),
           \A i \in S, j \in 0..(n - 1) : i < j => j \in S
    PROVE  Cardinality(S) \in 0..n /\ S = (n - Cardinality(S))..(n - 1)
<1>1. CASE S = {}
  <2>1. Cardinality(S) = 0
    BY <1>1, FS_EmptySet
  <2> QED
    BY <1>1, <2>1
<1>2. CASE S # {}
  <2>1. S \in SUBSET Nat
    OBVIOUS
  <2>2. PICK m \in S : \A y \in S : m <= y
    BY <1>2, <2>1, LeastNat
  <2>3. S = m..(n - 1)
    <3>1. ASSUME NEW j \in S
          PROVE  j \in m..(n - 1)
      BY <2>2
    <3>2. ASSUME NEW j \in m..(n - 1)
          PROVE  j \in S
      <4>1. j \in 0..(n - 1) /\ m \in Int /\ (j = m \/ m < j)
        BY <2>1
      <4> QED
        BY <4>1
    <3> QED
      BY <3>1, <3>2
  <2>4. m \in Int /\ n - 1 \in Int /\ ~ (m > n - 1) /\ (n - 1) - m + 1 = n - m
    BY <2>2
  <2>5. Cardinality(S) = n - m
    BY <2>3, <2>4, FS_Interval
  <2> QED
    BY <2>2, <2>3, <2>5
<1> QED
  BY <1>1, <1>2

\* In a cluster that is not disturbed, upgradePartition opens one ordinal at most,
\* and only when upgradeReady has seen every other peer back.
LEMMA GateDecides ==
    ASSUME TypeOK, Sizes, Placed, Ladder, Told, RolloutInProgress, sts.template = stat.update
    PROVE  Permit(UpgradePartition(spec.replicas, TRUE))
<1> DEFINE n == sts.replicas
           S == {k \in Replica : Updated(k)}
           u == n - Cardinality(S)
           p == UpgradePartition(spec.replicas, TRUE)
<1>1. n \in Nat \ {0} /\ Replica \subseteq Nat /\ spec.replicas = n /\ Replica = 0..(n - 1)
      /\ Replica \subseteq Ordinal
  BY ReplicaType DEF Sizes, Replica
<1>2. Cardinality(S) \in 0..n /\ S = u..(n - 1)
  <2>1. S \in SUBSET (0..(n - 1)) /\ \A i \in S, j \in 0..(n - 1) : i < j => j \in S
    BY <1>1 DEF Ladder
  <2> QED
    BY <1>1, <2>1, TopInterval
<1>3. stat.updated = Cardinality(S)
  BY DEF Told
<1> HIDE DEF S
<1>4. u \in 0..n /\ Frozen(spec.replicas) = u
  <2>1. u \in 0..n /\ n - stat.updated = u
    BY <1>1, <1>2, <1>3
  <2> QED
    BY <1>1, <2>1, MaxOfTwo DEF Frozen
<1>5. \A k \in Replica : k >= u => Updated(k)
  <2>1. \A k \in Replica : k >= u => k \in S
    BY <1>1, <1>2, <1>4
  <2> QED
    BY <2>1 DEF S
<1> HIDE DEF u
<1>6. CASE UpgradeReady(spec.replicas, TRUE)
  <2>1. p = IF u - 1 >= 0 THEN u - 1 ELSE 0
    <3>1. p = Max({u - 1, 0})
      BY <1>4, <1>6 DEF UpgradePartition
    <3>2. u - 1 \in Int /\ 0 \in Int
      BY <1>1, <1>4
    <3> QED
      BY <3>1, <3>2, MaxOfTwo
  <2> HIDE DEF p
  <2>2. \A k \in Replica : k > p => k >= u
    BY <1>1, <1>4, <2>1
  <2>3. ASSUME NEW k \in Replica, k = p, ~Updated(k), NEW j \in Replica, j # k
        PROVE  ~moving /\ Whole(j)
    <3>1. ~moving
      BY <1>6 DEF UpgradeReady
    <3>2. peer[j] = "whole"
      <4>1. j \in Ordinal /\ j < sts.replicas
        BY <1>1
      <4>2. peer[j] \in {"whole", "partial"}
        BY <4>1 DEF Placed
      <4> QED
        BY <1>6, <4>1, <4>2 DEF UpgradeReady, Transitioning, Members
    <3>3. CASE j < k
      BY <2>3, <3>1, <3>2, <3>3 DEF Ladder, Whole
    <3>4. CASE j > k
      <4>1. Updated(j)
        BY <1>5, <2>2, <2>3, <3>4
      <4>2. stat.ready = sts.replicas
        BY <1>1, <1>6 DEF UpgradeReady
      <4>3. pods[j].ready
        BY <4>1, <4>2 DEF Updated, Told
      <4> QED
        BY <3>1, <3>2, <4>1, <4>3 DEF Updated, Exists, Healthy, Whole
    <3> QED
      BY <1>1, <2>3, <3>3, <3>4
  <2>4. ASSUME NEW k \in Replica, k = p, ~Updated(k)
        PROVE  ~moving
    BY <1>6 DEF UpgradeReady
  <2> QED
    BY <1>5, <2>2, <2>3, <2>4 DEF Permit, p
<1>7. CASE ~UpgradeReady(spec.replicas, TRUE)
  <2>1. p = u
    BY <1>4, <1>7 DEF UpgradePartition
  <2>2. \A k \in Replica : k >= p => Updated(k)
    BY <1>5, <2>1
  <2> HIDE DEF p
  <2>3. \A k \in Replica : k > p \/ k = p => k >= p
    BY <1>1, <1>4, <2>1
  <2> QED
    BY <2>2, <2>3 DEF Permit, p
<1> QED
  BY <1>6, <1>7

(***************************************************************************)
(* The steps that leave the pods alone.                                    *)
(***************************************************************************)

\* Where size, template and pods stay, so does what is said of the pods.
LEMMA PodsKept ==
    ASSUME pods' = pods, sts'.replicas = sts.replicas, sts'.template = sts.template
    PROVE  /\ Replica' = Replica
           /\ \A k : Updated(k)' = Updated(k)
           /\ \A k : Exists(k)' = Exists(k)
           /\ {k \in Replica : Updated(k)}' = {k \in Replica : Updated(k)}
           /\ Ladder => Ladder'
BY DEF Replica, Updated, Exists, UpToDate, Ladder, Healthy

LEMMA StillStep ==
    ASSUME TypeOK, Gate, Still
    PROVE  Gate'
<1>1. Sizes'
  BY DEF Gate, Sizes, Still
<1>2. Placed'
  BY DEF Gate, Placed, Still, Exists
<1>3. Ladder'
  BY PodsKept DEF Gate, Still
<1>4. Rendered(spec)' = Rendered(spec)
  BY DEF Still, Rendered
<1>5. Told'
  BY <1>4, PodsKept DEF Gate, Told, Still, RolloutInProgress
<1>6. Pending'
  BY <1>4 DEF Gate, Pending, Still
<1>7. \A p : Permit(p)' = Permit(p)
  BY PodsKept DEF Still, Permit, Whole
<1>8. Permitted'
  BY <1>7 DEF Gate, Permitted, Still
<1> QED
  BY <1>1, <1>2, <1>3, <1>5, <1>6, <1>8 DEF Gate

LEMMA TemplatedStep ==
    ASSUME TypeOK, Gate, Templated
    PROVE  Gate'
<1>1. Sizes'
  BY DEF Gate, Sizes, Templated
<1>2. Placed'
  BY DEF Gate, Placed, Templated, Exists
<1>3. Ladder'
  BY PodsKept DEF Gate, Templated
<1>4. Rendered(spec) = sts.template /\ sts.template = stat.update /\ ~RolloutInProgress
  BY DEF Templated, Unfinished
<1>5. Told'
  BY <1>4, PodsKept DEF Gate, Told, Templated, RolloutInProgress
<1>6. Pending'
  BY <1>4 DEF Gate, Pending, Templated
<1>7. \A p : Permit(p)' = Permit(p)
  BY PodsKept DEF Templated, Permit, Whole
<1>8. Permitted'
  BY <1>7 DEF Gate, Permitted, Templated
<1> QED
  BY <1>1, <1>2, <1>3, <1>5, <1>6, <1>8 DEF Gate

LEMMA RenderingStep ==
    ASSUME TypeOK, Gate, Rendering
    PROVE  Gate'
<1>1. Sizes'
  BY DEF Gate, Sizes, Rendering
<1>2. Placed'
  BY DEF Gate, Placed, Rendering, Exists
<1>3. Ladder'
  BY PodsKept DEF Gate, Rendering
<1>4. Rendered(spec)' = Rendered(spec)
  BY DEF Rendering, Rendered
<1>5. Told'
  BY <1>4, PodsKept DEF Gate, Told, Rendering, RolloutInProgress
<1>6. pass'.want.gated => /\ RolloutInProgress /\ stat.update = Rendered(spec)
                          /\ sts.template = stat.update /\ sts.template = Rendered(spec)
  BY DEF Gate, Told, Rendering
<1>7. Pending'
  BY <1>4, <1>6 DEF Pending, Rendering
<1>8. \A p : Permit(p)' = Permit(p)
  BY PodsKept DEF Rendering, Permit, Whole
<1>9. pass'.want.gated => Permit(pass'.want.partition)
  BY <1>6, GateDecides DEF Gate, Rendering
<1>10. Permitted'
  BY <1>8, <1>9 DEF Gate, Permitted, Rendering
<1> QED
  BY <1>1, <1>2, <1>3, <1>5, <1>7, <1>10 DEF Gate

\* applyOwned brings the partition into force, for the template in force or for
\* the next one, whose rollout no pod has begun.
LEMMA ApplyingStep ==
    ASSUME TypeOK, Gate, Applying
    PROVE  Gate'
<1>1. sts'.replicas = sts.replicas /\ Sizes'
  BY DEF Gate, Sizes, Applying
<1>2. Placed'
  BY <1>1 DEF Gate, Placed, Applying, Exists
<1>3. Rendered(spec)' = Rendered(spec)
  BY DEF Applying, Rendered
<1>4. Pending'
  BY DEF Pending, Applying
<1>5. CASE sts'.template = sts.template
  <2>1. Ladder'
    BY <1>1, <1>5, PodsKept DEF Gate, Applying
  <2>2. sts'.gated => sts.template = stat.update
    BY DEF Gate, Pending, Applying
  <2>3. Told'
    BY <1>1, <1>3, <1>5, <2>2, PodsKept DEF Gate, Told, Applying, RolloutInProgress
  <2>4. ASSUME sts'.gated
        PROVE  Permit(sts.partition)'
    <3>1. Permit(pass.want.partition) /\ sts'.partition = pass.want.partition
      BY <2>4 DEF Gate, Permitted, Applying
    <3>2. CASE RolloutInProgress
      <4>1. moving' => moving
        BY <3>2 DEF Applying
      <4> QED
        BY <1>1, <1>5, <3>1, <4>1, PodsKept DEF Permit, Whole, Applying
    <3>3. CASE ~RolloutInProgress
      <4>1. \A k \in Replica : Updated(k)
        BY <2>2, <2>4, <3>3 DEF Gate, Told, Updated, Exists, UpToDate, Healthy
      <4>2. \A k \in Replica' : Updated(k)'
        BY <1>1, <1>5, <4>1, PodsKept DEF Applying
      <4> QED
        BY <4>2 DEF Permit
    <3> QED
      BY <3>2, <3>3
  <2>5. Permitted'
    BY <2>4 DEF Permitted, Applying
  <2> QED
    BY <1>1, <1>2, <1>4, <2>1, <2>3, <2>5 DEF Gate
<1>6. CASE sts'.template # sts.template
  <2>1. /\ sts'.template = Rendered(spec) /\ sts.template = stat.update /\ ~RolloutInProgress
        /\ ~sts'.gated
    BY <1>6 DEF Gate, Pending, Told, Applying
  <2>2. \A k \in Replica : Healthy(pods[k]) /\ pods[k].template = stat.update
    BY <2>1 DEF Gate, Told
  <2>3. Replica' = Replica /\ \A k \in Replica : Healthy(pods'[k]) /\ ~Updated(k)'
    BY <1>1, <1>6, <2>1, <2>2 DEF Replica, Updated, UpToDate, Applying
  <2>4. Ladder'
    BY <2>3 DEF Ladder
  <2>5. Told'
    BY <1>3, <1>6, <2>1, <2>2, <2>3 DEF Told, Applying, RolloutInProgress, Healthy
  <2>6. Permitted'
    BY <2>1 DEF Permitted, Applying
  <2> QED
    BY <1>1, <1>2, <1>4, <2>4, <2>5, <2>6 DEF Gate
<1> QED
  BY <1>5, <1>6

LEMMA TransferStep ==
    ASSUME TypeOK, Gate, TransferEnds
    PROVE  Gate'
<1>1. UNCHANGED <<spec, sts, stat, cached, pods, peer, pass>> /\ ~moving'
  BY DEF TransferEnds, kube, operator
<1>2. Sizes' /\ Placed' /\ Pending'
  BY <1>1 DEF Gate, Sizes, Placed, Pending, Exists, Rendered
<1>3. Ladder'
  BY <1>1, PodsKept DEF Gate
<1>4. Told'
  BY <1>1, PodsKept DEF Gate, Told, RolloutInProgress, Rendered
<1>5. \A p : Permit(p) => Permit(p)'
  BY <1>1, PodsKept DEF Permit, Whole
<1>6. Permitted'
  BY <1>1, <1>5 DEF Gate, Permitted
<1> QED
  BY <1>2, <1>3, <1>4, <1>6 DEF Gate

LEMMA RecoversStep ==
    ASSUME TypeOK, Gate, NEW k \in Ordinal, PeerRecovers(k)
    PROVE  Gate'
<1>1. /\ UNCHANGED <<spec, sts, stat, cached, pods, pass, moving>> /\ k < sts.replicas
      /\ peer' = [peer EXCEPT ![k] = "whole"]
  BY DEF PeerRecovers, kube, operator
<1>2. peer \in [Ordinal -> {"out", "joining", "partial", "dead", "whole"}]
      /\ k \in Int /\ sts.replicas \in Int
  BY PodsAssumption DEF TypeOK, StatefulSet, Ordinal
<1>3. \A j \in Ordinal : peer'[j] = IF j = k THEN "whole" ELSE peer[j]
  BY <1>1, <1>2
<1>4. Placed'
  BY <1>1, <1>2, <1>3 DEF Gate, Placed, Exists
<1>5. Sizes' /\ Pending'
  BY <1>1 DEF Gate, Sizes, Pending, Rendered
<1>6. Ladder'
  BY <1>1, PodsKept DEF Gate
<1>7. Told'
  BY <1>1, PodsKept DEF Gate, Told, RolloutInProgress, Rendered
<1>8. \A j \in Replica : Whole(j) => Whole(j)'
  BY <1>1, <1>3, ReplicaType DEF Whole, Healthy
<1>9. \A p : Permit(p) => Permit(p)'
  BY <1>1, <1>8, PodsKept DEF Permit
<1>10. Permitted'
  BY <1>1, <1>9 DEF Gate, Permitted
<1> QED
  BY <1>4, <1>5, <1>6, <1>7, <1>10 DEF Gate

(***************************************************************************)
(* The steps that change a pod.                                            *)
(***************************************************************************)
LEMMA ReadyStep ==
    ASSUME TypeOK, Gate, NEW k \in Ordinal, PodReady(k)
    PROVE  Gate'
<1>1. /\ UNCHANGED <<spec, sts, stat, cached, moving, pass>>
      /\ Exists(k) /\ ~pods[k].ready /\ ~pods[k].stopping
      /\ pods' = [pods EXCEPT ![k].ready = TRUE]
  BY DEF PodReady, operator
<1>2. k \in Replica /\ k < sts.replicas /\ pods[k] \in Pod
  <2>1. k \in Int /\ sts.replicas \in Int /\ pods \in [Ordinal -> Placement]
    BY PodsAssumption DEF TypeOK, StatefulSet, Ordinal, Placement
  <2>2. ~ (k >= sts.replicas)
    BY <1>1 DEF Gate, Placed, Exists
  <2> QED
    BY <1>1, <2>1, <2>2, ReplicaType DEF Exists, Placement
<1>3. /\ \A j \in Ordinal : j # k => pods'[j] = pods[j]
      /\ pods'[k] \in Pod /\ pods'[k].ready /\ ~pods'[k].stopping /\ pods'[k].node = pods[k].node
      /\ pods'[k].template = pods[k].template
  <2>1. pods \in [Ordinal -> Placement]
    BY DEF TypeOK, Placement
  <2>2. pods'[k] = [pods[k] EXCEPT !.ready = TRUE] /\ \A j \in Ordinal : j # k => pods'[j] = pods[j]
    BY <1>1, <2>1
  <2> DEFINE q == [pods[k] EXCEPT !.ready = TRUE]
  <2>3. /\ q \in Pod /\ q.ready /\ q.stopping = pods[k].stopping /\ q.node = pods[k].node
        /\ q.template = pods[k].template
    BY <1>2, PodChanged
  <2>4. pods'[k] = q
    BY <2>2
  <2> HIDE DEF q
  <2> QED
    BY <1>1, <2>2, <2>3, <2>4
<1>4. /\ \A j \in Ordinal : j # k => peer'[j] = peer[j]
      /\ peer'[k] \in {"whole", "partial"}
  <2>1. peer \in [Ordinal -> {"out", "joining", "partial", "dead", "whole"}]
    BY DEF TypeOK
  <2>2. k \in Members
    BY <1>2 DEF Gate, Placed, Members
  <2> QED
    BY <2>1, <2>2 DEF PodReady
<1>5. Replica' = Replica /\ Replica \subseteq Ordinal /\ Replica \subseteq Nat
  BY <1>1, ReplicaType DEF Replica
<1>6. \A j \in Replica : Updated(j)' = Updated(j) /\ Exists(j)' = Exists(j)
  BY <1>1, <1>2, <1>3, <1>5, PodOrNone DEF Updated, Exists, UpToDate
<1>7. \A j \in Replica : Healthy(pods'[j]) = (Healthy(pods[j]) \/ j = k)
  BY <1>2, <1>3, <1>5, PodOrNone DEF Healthy
<1>8. ~Healthy(pods[k])
  BY <1>1 DEF Healthy
<1>9. Sizes' /\ Pending'
  BY <1>1 DEF Gate, Sizes, Pending, Rendered
<1>10. Placed'
  <2>1. ASSUME NEW j \in Ordinal
        PROVE  /\ j < sts.replicas => /\ pods'[j] # NoPod => pods'[j].node = "up"
                                      /\ peer'[j] \in {"whole", "partial"}
               /\ j >= sts.replicas => pods'[j] = NoPod /\ peer'[j] = "out"
    <3>1. CASE j = k
      <4>1. ~ (k >= sts.replicas) /\ pods[k].node = "up"
        BY <1>1, <1>2 DEF Gate, Placed, Exists
      <4> QED
        BY <1>3, <1>4, <3>1, <4>1
    <3>2. CASE j # k
      BY <1>3, <1>4, <3>2 DEF Gate, Placed, Exists
    <3> QED
      BY <3>1, <3>2
  <2> QED
    BY <1>1, <2>1 DEF Placed, Exists
<1>11. Ladder'
  BY <1>5, <1>6, <1>7 DEF Gate, Ladder
<1>12. RolloutInProgress
  BY <1>2, <1>8 DEF Gate, Told
<1>13. Told'
  <2>1. {j \in Replica : Updated(j)}' = {j \in Replica : Updated(j)}
    BY <1>5, <1>6
  <2>2. stat.ready = sts.replicas
            => \A j \in Replica : Exists(j)' => pods'[j].ready \/ pods'[j].stopping
    BY <1>3, <1>5, <1>6 DEF Gate, Told
  <2> QED
    BY <1>1, <1>5, <1>12, <2>1, <2>2 DEF Gate, Told, RolloutInProgress, Rendered
<1>14. ASSUME NEW p, Permit(p)
       PROVE  Permit(p)'
  <2>1. ASSUME NEW i \in Replica, i = p, ~Updated(i)
        PROVE  ~moving /\ \A j \in Replica : j # i => Whole(j)'
    <3>1. ~moving /\ \A j \in Replica : j # i => Whole(j)
      BY <1>14, <2>1 DEF Permit
    <3>2. i = k
      BY <1>2, <1>8, <3>1 DEF Whole
    <3>3. ASSUME NEW j \in Replica, j # i
          PROVE  Whole(j)'
      BY <1>3, <1>4, <1>5, <3>1, <3>2, <3>3 DEF Whole, Healthy
    <3> QED
      BY <3>1, <3>3
  <2> QED
    BY <1>1, <1>5, <1>6, <1>14, <2>1 DEF Permit
<1>15. Permitted'
  BY <1>1, <1>14 DEF Gate, Permitted
<1> QED
  BY <1>9, <1>10, <1>11, <1>13, <1>15 DEF Gate

LEMMA StoppedStep ==
    ASSUME TypeOK, Gate, NEW k \in Ordinal, PodStopped(k)
    PROVE  Gate'
<1>1. /\ UNCHANGED <<spec, sts, stat, cached, peer, moving, pass>>
      /\ Exists(k) /\ pods[k].stopping
      /\ pods' = [pods EXCEPT ![k] = NoPod]
  BY DEF PodStopped, operator, qdrant
<1>2. k \in Replica /\ k < sts.replicas
  <2>1. k \in Int /\ sts.replicas \in Int
    BY PodsAssumption DEF TypeOK, StatefulSet, Ordinal
  <2>2. ~ (k >= sts.replicas)
    BY <1>1 DEF Gate, Placed, Exists
  <2> QED
    BY <2>1, <2>2, ReplicaType
<1>3. pods'[k] = NoPod /\ \A j \in Ordinal : j # k => pods'[j] = pods[j]
  BY <1>1 DEF TypeOK
<1>5. Replica' = Replica /\ Replica \subseteq Ordinal /\ Replica \subseteq Nat
  BY <1>1, ReplicaType DEF Replica
<1>6. \A j \in Replica : Updated(j)' = Updated(j)
  BY <1>1, <1>2, <1>3, <1>5 DEF Updated, Exists, UpToDate
<1>7. \A j \in Replica : Healthy(pods'[j]) = Healthy(pods[j])
  BY <1>1, <1>2, <1>3, <1>5 DEF Healthy
<1>8. ~Healthy(pods[k])
  BY <1>1 DEF Healthy
<1>9. Sizes' /\ Pending'
  BY <1>1 DEF Gate, Sizes, Pending, Rendered
<1>10. Placed'
  BY <1>1, <1>3 DEF Gate, Placed, Exists
<1>11. Ladder'
  BY <1>5, <1>6, <1>7 DEF Gate, Ladder
<1>12. RolloutInProgress
  BY <1>2, <1>8 DEF Gate, Told
<1>13. Told'
  <2>1. {j \in Replica : Updated(j)}' = {j \in Replica : Updated(j)}
    BY <1>5, <1>6
  <2>2. stat.ready = sts.replicas
            => \A j \in Replica : Exists(j)' => pods'[j].ready \/ pods'[j].stopping
    BY <1>3, <1>5 DEF Gate, Told, Exists
  <2> QED
    BY <1>1, <1>5, <1>12, <2>1, <2>2 DEF Gate, Told, RolloutInProgress, Rendered
<1>14. \A j \in Replica : Whole(j)' = Whole(j)
  BY <1>1, <1>7 DEF Whole
<1>15. \A p : Permit(p) => Permit(p)'
  BY <1>1, <1>5, <1>6, <1>14 DEF Permit
<1>16. Permitted'
  BY <1>1, <1>15 DEF Gate, Permitted
<1> QED
  BY <1>9, <1>10, <1>11, <1>13, <1>16 DEF Gate

LEMMA SlowStep ==
    ASSUME TypeOK, Gate, NEW k \in Ordinal, PodStopsSlowly(k)
    PROVE  Gate'
<1>1. /\ UNCHANGED <<spec, sts, stat, cached, peer, moving, pass>>
      /\ Exists(k) /\ pods[k].stopping
      /\ pods' = [pods EXCEPT ![k].ready = FALSE]
  BY DEF PodStopsSlowly, operator, qdrant
<1>2. k \in Replica /\ k < sts.replicas
  <2>1. k \in Int /\ sts.replicas \in Int
    BY PodsAssumption DEF TypeOK, StatefulSet, Ordinal
  <2>2. ~ (k >= sts.replicas)
    BY <1>1 DEF Gate, Placed, Exists
  <2> QED
    BY <2>1, <2>2, ReplicaType
<1>3. /\ \A j \in Ordinal : j # k => pods'[j] = pods[j]
      /\ pods'[k].stopping /\ pods'[k].node = pods[k].node
  <2>1. pods \in [Ordinal -> Placement] /\ pods[k] \in Pod
    BY <1>1 DEF TypeOK, Exists, Placement
  <2>2. pods'[k] = [pods[k] EXCEPT !.ready = FALSE] /\ \A j \in Ordinal : j # k => pods'[j] = pods[j]
    BY <1>1, <2>1
  <2>3. pods'[k].stopping = pods[k].stopping /\ pods'[k].node = pods[k].node
    BY <2>1, <2>2 DEF Pod
  <2> QED
    BY <1>1, <2>2, <2>3
<1>5. Replica' = Replica /\ Replica \subseteq Ordinal /\ Replica \subseteq Nat
  BY <1>1, ReplicaType DEF Replica
<1>6. \A j \in Replica : Updated(j)' = Updated(j)
  BY <1>1, <1>2, <1>3, <1>5 DEF Updated, Exists, UpToDate
<1>7. \A j \in Replica : Healthy(pods'[j]) = Healthy(pods[j])
  BY <1>1, <1>2, <1>3, <1>5 DEF Healthy
<1>8. ~Healthy(pods[k])
  BY <1>1 DEF Healthy
<1>9. Sizes' /\ Pending'
  BY <1>1 DEF Gate, Sizes, Pending, Rendered
<1>10. Placed'
  <2>1. pods[k].node = "up" /\ ~ (k >= sts.replicas)
    BY <1>1, <1>2 DEF Gate, Placed, Exists
  <2> QED
    BY <1>1, <1>3, <2>1 DEF Gate, Placed, Exists
<1>11. Ladder'
  BY <1>5, <1>6, <1>7 DEF Gate, Ladder
<1>12. RolloutInProgress
  BY <1>2, <1>8 DEF Gate, Told
<1>13. Told'
  <2>1. {j \in Replica : Updated(j)}' = {j \in Replica : Updated(j)}
    BY <1>5, <1>6
  <2>2. stat.ready = sts.replicas
            => \A j \in Replica : Exists(j)' => pods'[j].ready \/ pods'[j].stopping
    BY <1>3, <1>5 DEF Gate, Told, Exists
  <2> QED
    BY <1>1, <1>5, <1>12, <2>1, <2>2 DEF Gate, Told, RolloutInProgress, Rendered
<1>14. \A j \in Replica : Whole(j)' = Whole(j)
  BY <1>1, <1>7 DEF Whole
<1>15. \A p : Permit(p) => Permit(p)'
  BY <1>1, <1>5, <1>6, <1>14 DEF Permit
<1>16. Permitted'
  BY <1>1, <1>15 DEF Gate, Permitted
<1> QED
  BY <1>9, <1>10, <1>11, <1>13, <1>16 DEF Gate

\* A synchronisation of an undisturbed cluster changes one pod at most: it makes
\* the one that is missing, or takes down the highest one that is out of date.
Made(rolled, m) ==
    /\ ~Exists(m)
    /\ rolled[m] = NewPod(Revision(m), FALSE)
    /\ \A j \in Ordinal : j # m => rolled[j] = pods[j]

TakesDown(rolled, k) ==
    /\ Exists(k) /\ ~UpToDate(pods[k]) /\ ~pods[k].stopping /\ k >= sts.partition
    /\ \A j \in Replica : j > k => Updated(j) /\ Healthy(pods[j])
    /\ rolled[k] = [pods[k] EXCEPT !.stopping = TRUE]
    /\ \A j \in Ordinal : j # k => rolled[j] = pods[j]

LEMMA SyncCases ==
    ASSUME TypeOK, Placed, Ladder
    PROVE  LET rolled == Rolled(Sized)
           IN  \/ rolled = pods
               \/ \E m \in Replica : Made(rolled, m)
               \/ \E k \in Replica : TakesDown(rolled, k)
<1> DEFINE rolled == Rolled(Sized)
<1>1. /\ pods \in [Ordinal -> Placement] /\ sts.replicas \in Nat /\ sts.partition \in Nat
      /\ Replica = {k \in Ordinal : k < sts.replicas} /\ Replica \subseteq Nat
      /\ Ordinal \subseteq Nat /\ Replica = 0..(sts.replicas - 1)
  BY ReplicaType, PodsAssumption DEF TypeOK, Placement, Ordinal, Replica
<1>2. \A k \in Ordinal : k \notin Replica => pods[k] = NoPod /\ Sized[k] = NoPod
  <2>1. \A k \in Ordinal : k \notin Replica => k >= sts.replicas /\ ~ (k < sts.replicas)
    BY <1>1
  <2>2. \A k \in Ordinal : k \notin Replica => pods[k] = NoPod
    BY <2>1 DEF Placed
  <2> QED
    BY <2>1, <2>2 DEF Sized, Exists
<1>3. \A k \in Replica : Sized[k] = IF Exists(k) THEN pods[k] ELSE NewPod(Revision(k), FALSE)
  BY <1>1 DEF Sized
<1>4. \A k \in Ordinal : ~Outdated(Sized, k) => rolled[k] = Sized[k]
  BY DEF Rolled
<1>5. \A k \in Ordinal : Outdated(Sized, k) => /\ k \in Replica /\ k >= sts.partition
                                               /\ ~UpToDate(Sized[k]) /\ ~Sized[k].stopping
                                               /\ rolled[k] = [Sized[k] EXCEPT !.stopping = TRUE]
  <2>1. \A k \in Ordinal : k \in sts.partition..(sts.replicas - 1) => k \in Replica /\ k >= sts.partition
    BY <1>1
  <2> QED
    BY <2>1 DEF Outdated, Rolled
<1>6. \A k \in Ordinal, j \in Replica : Outdated(Sized, k) /\ j > k => UpToDate(Sized[j]) /\ Healthy(Sized[j])
  <2>1. \A k \in Ordinal, j \in Replica : j > k => j \in (k + 1)..(sts.replicas - 1)
    BY <1>1
  <2> QED
    BY <2>1 DEF Outdated
<1>7. rolled \in [Ordinal -> Placement]
  BY SyncType
<1>8. CASE \E m \in Replica : ~Exists(m)
  <2>1. PICK m \in Replica : ~Exists(m)
    BY <1>8
  <2>2. ~Healthy(pods[m])
    BY <2>1 DEF Healthy, Exists
  <2>3. \A j \in Replica : j # m => Exists(j)
    BY <2>2 DEF Ladder, Healthy, Exists
  <2>4. \A j \in Replica : j > m => Updated(j)
    BY <1>1, <2>2 DEF Ladder
  <2>5. Sized[m] = NewPod(Revision(m), FALSE) /\ ~Healthy(Sized[m])
    BY <1>3, <2>1 DEF NewPod, Healthy
  <2>6. \A j \in Ordinal : j # m => Sized[j] = pods[j]
    BY <1>2, <1>3, <2>3
  <2>7. ASSUME NEW k \in Ordinal, Outdated(Sized, k)
        PROVE  FALSE
    <3>1. CASE k = m
      <4>1. m \in Nat /\ sts.partition \in Nat /\ k >= sts.partition
        BY <1>1, <1>5, <2>7
      <4>2. ~ (m < sts.partition)
        BY <3>1, <4>1
      <4>3. UpToDate(Sized[m])
        BY <2>5, <4>2 DEF Revision, NewPod, UpToDate
      <4> QED
        BY <1>5, <2>7, <3>1, <4>3
    <3>2. CASE k > m
      <4>1. k \in Replica /\ ~UpToDate(Sized[k])
        BY <1>5, <2>7
      <4>2. k # m
        BY <1>1, <3>2
      <4>3. UpToDate(pods[k])
        BY <2>4, <3>2, <4>1 DEF Updated
      <4> QED
        BY <2>6, <4>1, <4>2, <4>3
    <3>3. CASE m > k
      BY <1>6, <2>5, <2>7, <3>3
    <3> QED
      BY <1>1, <3>1, <3>2, <3>3
  <2>8. Made(rolled, m)
    BY <1>1, <1>4, <2>1, <2>5, <2>6, <2>7 DEF Made
  <2> QED
    BY <2>8
<1>9. CASE \A m \in Replica : Exists(m)
  <2>1. \A j \in Ordinal : Sized[j] = pods[j]
    BY <1>2, <1>3, <1>9
  <2>2. CASE \E k \in Ordinal : Outdated(Sized, k)
    <3>1. PICK k \in Ordinal : Outdated(Sized, k)
      BY <2>2
    <3>2. k \in Replica /\ k >= sts.partition /\ ~UpToDate(pods[k]) /\ ~pods[k].stopping
          /\ rolled[k] = [pods[k] EXCEPT !.stopping = TRUE]
      BY <1>5, <2>1, <3>1
    <3>3. \A j \in Replica : j > k => UpToDate(pods[j]) /\ Healthy(pods[j])
      BY <1>1, <1>6, <2>1, <3>1
    <3>4. \A j \in Replica : j > k => Updated(j) /\ Healthy(pods[j])
      BY <1>9, <3>3 DEF Updated, Healthy
    <3>5. ASSUME NEW j \in Ordinal, j # k
          PROVE  ~Outdated(Sized, j)
      <4>1. CASE j > k
        BY <1>5, <2>1, <3>3, <4>1
      <4>2. CASE k > j
        BY <1>6, <2>1, <3>2, <4>2
      <4> QED
        BY <1>1, <3>5, <4>1, <4>2
    <3>6. TakesDown(rolled, k)
      BY <1>4, <1>9, <2>1, <3>2, <3>4, <3>5 DEF TakesDown
    <3> QED
      BY <3>2, <3>6
  <2>3. CASE \A k \in Ordinal : ~Outdated(Sized, k)
    <3>1. \A k \in Ordinal : rolled[k] = pods[k]
      BY <1>4, <2>1, <2>3
    <3>2. \A f, g \in [Ordinal -> Placement] : (\A k \in Ordinal : f[k] = g[k]) => f = g
      OBVIOUS
    <3>3. rolled = pods
      <4> HIDE DEF rolled
      <4> QED
        BY <1>1, <1>7, <3>1, <3>2
    <3> QED
      BY <3>3
  <2> QED
    BY <2>2, <2>3
<1> QED
  BY <1>8, <1>9

\* A set of replicas that counts all of them is all of them.
LEMMA CountsAll ==
    ASSUME TypeOK, NEW S \in SUBSET Replica, Cardinality(S) = sts.replicas
    PROVE  S = Replica
BY ReplicaType, FS_Subset

\* What a synchronisation writes, in terms of the replicas.
LEMMA SyncOutcome ==
    ASSUME TypeOK, Placed, Ladder, SyncStatefulSet
    PROVE  /\ UNCHANGED <<spec, sts, cached, peer, moving, pass>>
           /\ \/ pods' = pods
              \/ \E m \in Replica : Made(pods', m)
              \/ \E k \in Replica : TakesDown(pods', k)
           /\ \A k \in Ordinal : k \notin Replica => pods[k] = NoPod /\ pods'[k] = NoPod
           /\ stat'.update = sts.template
           /\ stat'.updated = Cardinality({k \in Replica : Updated(k)'})
           /\ stat'.ready = Cardinality({k \in Replica : Exists(k) /\ pods[k].ready})
           /\ \/ stat'.current = stat.current
              \/ /\ stat'.current = sts.template
                 /\ stat'.updated = sts.replicas /\ stat'.ready = sts.replicas
<1>1. /\ UNCHANGED <<spec, sts, cached, peer, moving, pass>>
      /\ pods' = Rolled(Sized) /\ stat' = Counted(pods')
  BY DEF SyncStatefulSet, qdrant
<1>2. \/ pods' = pods
      \/ \E m \in Replica : Made(pods', m)
      \/ \E k \in Replica : TakesDown(pods', k)
  BY <1>1, SyncCases
<1>3. Replica \subseteq Ordinal /\ \A k \in Ordinal : k \notin Replica => k >= sts.replicas
  <2>1. sts.replicas \in Int /\ Ordinal \subseteq Int /\ Replica = {k \in Ordinal : k < sts.replicas}
    BY ReplicaType DEF Ordinal
  <2> QED
    BY <2>1
<1>4. \A k \in Ordinal : k \notin Replica => pods[k] = NoPod /\ pods'[k] = NoPod
  <2>1. \A k \in Ordinal : k \notin Replica => pods[k] = NoPod
    BY <1>3 DEF Placed
  <2>2. \A k \in Ordinal : k \notin Replica => pods'[k] = pods[k]
    BY <1>2 DEF Made, TakesDown
  <2> QED
    BY <2>1, <2>2
<1> DEFINE present == {k \in Ordinal : pods'[k] # NoPod}
           updated == {k \in present : UpToDate(pods'[k]) /\ ~pods'[k].stopping}
           ready == {k \in Ordinal : Exists(k) /\ pods[k].ready}
<1>5. /\ stat'.update = sts.template /\ stat'.updated = Cardinality(updated)
      /\ stat'.ready = Cardinality(ready)
      /\ stat'.current = IF {Cardinality(updated), Cardinality(ready), Cardinality(present)} = {sts.replicas}
                         THEN sts.template ELSE stat.current
  BY <1>1 DEF Counted
<1>6. updated = {k \in Replica : Updated(k)'}
  BY <1>1, <1>3, <1>4 DEF Updated, Exists, UpToDate
<1>7. ready = {k \in Replica : Exists(k) /\ pods[k].ready}
  BY <1>3, <1>4 DEF Exists
<1> HIDE DEF present, updated, ready
<1>8. \/ stat'.current = stat.current
      \/ stat'.current = sts.template /\ stat'.updated = sts.replicas /\ stat'.ready = sts.replicas
  BY <1>5
<1> QED
  BY <1>1, <1>2, <1>4, <1>5, <1>6, <1>7, <1>8

\* The rungs above and below the pod that changes.
LEMMA SyncLadder ==
    ASSUME TypeOK, Gate, SyncStatefulSet
    PROVE  Placed' /\ Ladder' /\ \A p : Permit(p) => Permit(p)'
<1>1. /\ UNCHANGED <<spec, sts, cached, peer, moving, pass>>
      /\ \/ pods' = pods
         \/ \E m \in Replica : Made(pods', m)
         \/ \E k \in Replica : TakesDown(pods', k)
  BY SyncOutcome DEF Gate
<1>2. Replica' = Replica /\ Replica \subseteq Ordinal /\ Replica \subseteq Nat
      /\ \A k \in Replica : k < sts.replicas /\ ~ (k >= sts.replicas)
  BY <1>1, ReplicaType DEF Replica
<1>3. CASE pods' = pods
  BY <1>1, <1>3, PodsKept DEF Gate, Placed, Exists, Permit, Whole
<1>4. CASE \E m \in Replica : Made(pods', m)
  <2>1. PICK m \in Replica : Made(pods', m)
    BY <1>4
  <2>2. /\ pods[m] = NoPod /\ ~pods'[m].ready /\ pods'[m].node = "up"
        /\ \A j \in Ordinal : j # m => pods'[j] = pods[j]
    <3>1. ~ Exists(m) /\ pods'[m] = NewPod(Revision(m), FALSE)
          /\ \A j \in Ordinal : j # m => pods'[j] = pods[j]
      BY <2>1 DEF Made
    <3>2. ~ NewPod(Revision(m), FALSE).ready /\ NewPod(Revision(m), FALSE).node = "up"
      BY DEF NewPod
    <3> QED
      BY <3>1, <3>2 DEF Exists
  <2>3. \A j \in Replica : j # m => Updated(j)' = Updated(j)
    BY <1>1, <1>2, <2>2 DEF Updated, Exists, UpToDate
  <2>4. ~Updated(m) /\ ~Healthy(pods[m]) /\ ~Healthy(pods'[m])
    BY <2>2 DEF Updated, Exists, Healthy
  <2>5. \A j \in Replica : Healthy(pods'[j]) = Healthy(pods[j])
    BY <1>2, <2>2, <2>4 DEF Healthy
  <2>6. Placed'
    BY <1>1, <1>2, <2>2 DEF Gate, Placed, Exists
  <2>7. Ladder'
    <3>1. ASSUME NEW i \in Replica, NEW j \in Replica, i < j, Updated(i)'
          PROVE  Updated(j)'
      <4>1. i # j
        BY <1>2, <3>1
      <4>2. CASE i = m
        BY <2>3, <2>4, <3>1, <4>1, <4>2 DEF Gate, Ladder
      <4>3. CASE i # m
        <5>1. Updated(j)
          BY <2>3, <3>1, <4>3 DEF Gate, Ladder
        <5> QED
          BY <2>3, <2>4, <5>1
      <4> QED
        BY <4>2, <4>3
    <3>2. ASSUME NEW i \in Replica, NEW j \in Replica, i < j, ~Updated(j)'
          PROVE  Healthy(pods'[i])
      BY <2>3, <2>4, <2>5, <3>2 DEF Gate, Ladder
    <3>3. ASSUME NEW i \in Replica, NEW j \in Replica, i # j, ~Healthy(pods'[i])
          PROVE  Healthy(pods'[j])
      BY <2>5, <3>3 DEF Gate, Ladder
    <3> QED
      BY <1>2, <3>1, <3>2, <3>3 DEF Ladder
  <2>8. \A j \in Replica : Whole(j)' = Whole(j)
    BY <1>1, <2>5 DEF Whole
  <2>9. \A j \in Replica : Updated(j) => Updated(j)'
    BY <2>3, <2>4
  <2>10. \A p : Permit(p) => Permit(p)'
    BY <1>1, <1>2, <2>8, <2>9 DEF Permit
  <2> QED
    BY <2>6, <2>7, <2>10
<1>5. CASE \E k \in Replica : TakesDown(pods', k)
  <2>1. PICK k \in Replica : TakesDown(pods', k)
    BY <1>5
  <2>2. pods[k] \in Pod /\ pods[k] # NoPod
    BY <1>2, <2>1 DEF TakesDown, Exists, TypeOK
  <2>3. /\ pods'[k] \in Pod /\ pods'[k].stopping /\ pods'[k].node = pods[k].node
        /\ \A j \in Ordinal : j # k => pods'[j] = pods[j]
    <3> DEFINE q == [pods[k] EXCEPT !.stopping = TRUE]
    <3>1. q \in Pod /\ q.stopping /\ q.node = pods[k].node
      BY <2>2, PodChanged
    <3>2. pods'[k] = q /\ \A j \in Ordinal : j # k => pods'[j] = pods[j]
      BY <2>1 DEF TakesDown
    <3> HIDE DEF q
    <3> QED
      BY <3>1, <3>2
  <2>4. ~Updated(k) /\ ~Updated(k)' /\ ~Healthy(pods'[k])
    BY <2>1, <2>3 DEF TakesDown, Updated, Healthy
  <2>5. \A j \in Replica : Updated(j)' = Updated(j)
    BY <1>1, <1>2, <2>3, <2>4 DEF Updated, Exists, UpToDate
  <2>6. \A j \in Replica : j # k => Healthy(pods'[j]) = Healthy(pods[j])
    BY <1>2, <2>3
  <2>7. \A j \in Replica : j # k => Healthy(pods[j])
    <3>1. \A j \in Replica : j > k => Updated(j) /\ Healthy(pods[j])
      BY <2>1 DEF TakesDown
    <3>2. \A j \in Replica : j < k => Healthy(pods[j])
      BY <2>4 DEF Gate, Ladder
    <3>3. \A j \in Replica : j # k => j > k \/ j < k
      BY <1>2
    <3> QED
      BY <3>1, <3>2, <3>3
  <2>8. Placed'
    <3>1. pods[k].node = "up"
      BY <1>2, <2>2 DEF Gate, Placed, Exists
    <3> QED
      BY <1>1, <1>2, <2>3, <3>1 DEF Gate, Placed, Exists
  <2>9. Ladder'
    <3>1. ASSUME NEW i \in Replica, NEW j \in Replica, i < j, ~Updated(j)'
          PROVE  Healthy(pods'[i])
      <4>1. i # k
        BY <1>2, <2>1, <2>5, <3>1 DEF TakesDown
      <4> QED
        BY <2>6, <2>7, <4>1
    <3>2. ASSUME NEW i \in Replica, NEW j \in Replica, i # j, ~Healthy(pods'[i])
          PROVE  Healthy(pods'[j])
      BY <2>6, <2>7, <3>2
    <3> QED
      BY <1>2, <2>5, <3>1, <3>2 DEF Gate, Ladder
  <2>10. ASSUME NEW p, Permit(p)
         PROVE  Permit(p)'
    <3>1. ASSUME NEW i \in Replica, i = p, ~Updated(i)
          PROVE  ~moving /\ \A j \in Replica : j # i => Whole(j)'
      <4>1. ~moving /\ \A j \in Replica : j # i => Whole(j)
        BY <2>10, <3>1 DEF Permit
      <4>2. i = k
        <5>1. ~ (i > k)
          BY <2>1, <3>1 DEF TakesDown
        <5>2. ~ (k > i)
          BY <2>4, <2>10, <3>1 DEF Permit
        <5> QED
          BY <1>2, <5>1, <5>2
      <4> QED
        BY <1>1, <2>6, <4>1, <4>2 DEF Whole
    <3> QED
      BY <1>1, <1>2, <2>5, <2>10, <3>1 DEF Permit
  <2> QED
    BY <2>8, <2>9, <2>10
<1> QED
  BY <1>1, <1>3, <1>4, <1>5

LEMMA SyncStep ==
    ASSUME TypeOK, Gate, SyncStatefulSet
    PROVE  Gate'
<1>1. /\ UNCHANGED <<spec, sts, cached, peer, moving, pass>>
      /\ \/ pods' = pods
         \/ \E m \in Replica : Made(pods', m)
         \/ \E k \in Replica : TakesDown(pods', k)
      /\ stat'.update = sts.template
      /\ stat'.updated = Cardinality({k \in Replica : Updated(k)'})
      /\ stat'.ready = Cardinality({k \in Replica : Exists(k) /\ pods[k].ready})
      /\ \/ stat'.current = stat.current
         \/ /\ stat'.current = sts.template
            /\ stat'.updated = sts.replicas /\ stat'.ready = sts.replicas
  BY SyncOutcome DEF Gate
<1>2. Replica' = Replica /\ Replica \subseteq Ordinal
  BY <1>1, ReplicaType DEF Replica
<1>3. Placed' /\ Ladder' /\ \A p : Permit(p) => Permit(p)'
  BY SyncLadder
<1>4. Sizes'
  BY <1>1 DEF Gate, Sizes
<1>5. Rendered(spec)' = Rendered(spec)
  BY <1>1 DEF Rendered
<1>6. Pending'
  BY <1>1, <1>5 DEF Gate, Pending
<1>7. Permitted'
  BY <1>1, <1>3 DEF Gate, Permitted
<1>8. ASSUME stat'.ready = sts.replicas
      PROVE  /\ \A k \in Replica : Exists(k) /\ pods[k].ready
             /\ \A k \in Replica : pods'[k].ready
  <2>1. {k \in Replica : Exists(k) /\ pods[k].ready} = Replica
    <3> DEFINE S == {k \in Replica : Exists(k) /\ pods[k].ready}
    <3>1. S \in SUBSET Replica /\ Cardinality(S) = sts.replicas
      BY <1>1, <1>8
    <3> HIDE DEF S
    <3>2. S = Replica
      BY <3>1, CountsAll
    <3> QED
      BY <3>2 DEF S
  <2>2. \A k \in Replica : Exists(k) /\ pods[k].ready
    BY <2>1
  <2>3. CASE pods' = pods
    BY <2>2, <2>3
  <2>4. ASSUME NEW k \in Replica, TakesDown(pods', k)
        PROVE  \A j \in Replica : pods'[j].ready
    <3>1. pods[k] \in Pod
      BY <1>2, <2>4 DEF TakesDown, Exists, TypeOK
    <3> DEFINE q == [pods[k] EXCEPT !.stopping = TRUE]
    <3>2. q.ready = pods[k].ready
      BY <3>1, PodChanged
    <3>3. pods'[k] = q /\ \A j \in Ordinal : j # k => pods'[j] = pods[j]
      BY <2>4 DEF TakesDown
    <3> HIDE DEF q
    <3> QED
      BY <1>2, <2>2, <3>2, <3>3
  <2> QED
    BY <1>1, <2>2, <2>3, <2>4 DEF Made
<1>9. ASSUME stat'.update = stat'.current
      PROVE  \A k \in Replica : Healthy(pods'[k]) /\ pods'[k].template = sts.template
  <2>1. CASE /\ stat'.current = sts.template
             /\ stat'.updated = sts.replicas /\ stat'.ready = sts.replicas
    <3>1. {k \in Replica : Updated(k)'} = Replica
      <4> DEFINE S == {k \in Replica : Updated(k)'}
      <4>1. S \in SUBSET Replica /\ Cardinality(S) = sts.replicas
        BY <1>1, <2>1
      <4> HIDE DEF S
      <4>2. S = Replica
        BY <4>1, CountsAll
      <4> QED
        BY <4>2 DEF S
    <3>2. \A k \in Replica : Updated(k)' /\ pods'[k].ready
      BY <1>8, <2>1, <3>1
    <3> QED
      BY <1>1, <3>2 DEF Updated, Exists, UpToDate, Healthy
  <2>2. CASE stat'.current = stat.current
    <3>1. stat.current = sts.template /\ sts.template = stat.update /\ ~RolloutInProgress
      BY <1>1, <1>9, <2>2 DEF Gate, Told, RolloutInProgress
    <3>2. \A k \in Replica : Healthy(pods[k]) /\ pods[k].template = sts.template
      BY <3>1 DEF Gate, Told
    <3>3. pods' = pods
      BY <1>1, <3>2 DEF Made, TakesDown, Healthy, Exists, UpToDate
    <3> QED
      BY <3>2, <3>3
  <2> QED
    BY <1>1, <2>1, <2>2
<1>10. Rendered(spec) # sts.template => stat'.current = sts.template
  BY <1>1 DEF Gate, Told, RolloutInProgress
<1>11. {k \in Replica : Updated(k)}' = {k \in Replica : Updated(k)'}
  BY <1>2
<1>12. Told'
  BY <1>1, <1>2, <1>5, <1>8, <1>9, <1>10, <1>11 DEF Told, RolloutInProgress
<1> QED
  BY <1>3, <1>4, <1>6, <1>7, <1>12 DEF Gate

(***************************************************************************)
(* The gate, for every number of replicas.                                 *)
(***************************************************************************)
LEMMA GateInit == Init => GateInv
<1> SUFFICES ASSUME Init PROVE Gate
  BY DEF GateInv
<1>t. TypeOK
  BY TypeInit
<1> DEFINE asked(n) == [replicas |-> n, template |-> 1, guard |-> "none"]
<1>1. PICK n \in InitSizes :
          /\ spec = asked(n) /\ sts = BuildStatefulSet(asked(n)) /\ cached = n
          /\ stat = [update |-> sts.template, current |-> sts.template, updated |-> n, ready |-> n]
          /\ pods = [k \in Ordinal |-> IF k < n THEN NewPod(sts.template, TRUE) ELSE NoPod]
          /\ peer = [k \in Ordinal |-> IF k < n THEN "whole" ELSE "out"]
          /\ pass = [step |-> "idle", want |-> sts, stale |-> FALSE]
  BY DEF Init
<1>2. /\ sts.replicas = n /\ sts.template = Rendered(spec) /\ ~sts.gated
      /\ spec.replicas = n /\ pass.step = "idle"
      /\ stat.update = sts.template /\ stat.current = sts.template /\ stat.updated = n
  BY <1>1 DEF BuildStatefulSet
<1>3. n \in Nat \ {0} /\ Ordinal \subseteq Nat /\ Replica = {k \in Ordinal : k < n}
      /\ Cardinality(Replica) = n
  <2>1. /\ sts.replicas \in Nat \ {0} /\ Replica = {k \in Ordinal : k < sts.replicas}
        /\ Cardinality(Replica) = sts.replicas
    BY <1>t, ReplicaType
  <2>2. Ordinal \subseteq Nat
    BY PodsAssumption DEF Ordinal
  <2>3. sts.replicas = n
    BY <1>2
  <2> QED
    BY <2>1, <2>2, <2>3
<1>4. sts.template \in PodTemplate
  BY <1>t DEF TypeOK, StatefulSet
<1>5. /\ NewPod(sts.template, TRUE) # NoPod /\ NewPod(sts.template, TRUE).ready
      /\ ~NewPod(sts.template, TRUE).stopping /\ NewPod(sts.template, TRUE).node = "up"
      /\ NewPod(sts.template, TRUE).template = sts.template
  <2>1. NewPod(sts.template, TRUE) # NoPod
    BY <1>4, PodOrNone
  <2> QED
    BY <2>1 DEF NewPod
<1>6. \A k \in Ordinal : /\ k < n => pods[k] = NewPod(sts.template, TRUE) /\ peer[k] = "whole"
                         /\ k >= n => pods[k] = NoPod /\ peer[k] = "out"
  <2>1. \A k \in Ordinal : k >= n => ~ (k < n)
    BY <1>3
  <2>2. \A k \in Ordinal : pods[k] = IF k < n THEN NewPod(sts.template, TRUE) ELSE NoPod
    BY <1>1
  <2>3. \A k \in Ordinal : peer[k] = IF k < n THEN "whole" ELSE "out"
    BY <1>1
  <2> QED
    BY <2>1, <2>2, <2>3
<1>7. \A k \in Replica : Updated(k) /\ Healthy(pods[k]) /\ pods[k].template = sts.template
  BY <1>3, <1>5, <1>6 DEF Updated, Exists, UpToDate, Healthy
<1>8. Placed
  BY <1>2, <1>5, <1>6 DEF Placed
<1>9. {k \in Replica : Updated(k)} = Replica
  BY <1>7
<1>10. Told
  BY <1>2, <1>3, <1>7, <1>9 DEF Told, Healthy, RolloutInProgress
<1>11. Sizes /\ Pending /\ Permitted
  BY <1>1, <1>2 DEF Sizes, Pending, Permitted
<1>12. Ladder
  BY <1>7 DEF Ladder
<1> QED
  BY <1>8, <1>10, <1>11, <1>12 DEF Gate

LEMMA GateStep == TypeOK /\ GateInv /\ [Next]_vars => GateInv'
<1> SUFFICES ASSUME TypeOK, GateInv, [Next]_vars, Calm' PROVE Gate'
  BY DEF GateInv
<1>1. Gate /\ CalmMove
  BY CalmStep
<1> QED
  BY <1>1, StillStep, TemplatedStep, RenderingStep, ApplyingStep, TransferStep, RecoversStep,
     ReadyStep, StoppedStep, SlowStep, SyncStep DEF CalmMove

\* The pods go with the object.
GoneInv == object = "gone" => \A k \in Ordinal : pods[k] = NoPod

LEMMA GoneStep == TypeOK /\ GoneInv /\ [Next]_vars => GoneInv'
<1> SUFFICES ASSUME TypeOK, GoneInv, [Next]_vars, object' = "gone"
             PROVE  \A k \in Ordinal : pods'[k] = NoPod
  BY DEF GoneInv
<1> USE DEF kube, qdrant, operator
<1>1. CASE DeleteObject
  BY <1>1 DEF DeleteObject
<1>2. CASE ~DeleteObject
  <2>1. object = "gone" /\ \A k \in Ordinal : pods[k] = NoPod
    <3>1. object' = object
      BY <1>2 DEF Next, Operator, Controller, Surroundings, Progress, Failure, User, vars,
             DriftPass, DrainPass, TlsPass, RenderPass, ApplyPass, ConflictPass, OrphanPass,
             ForgetPass, SyncStatefulSet, DeliverStatefulSet, PodReady, PodStopped, PeerRecovers,
             GraceExpires, TransferEnds, FailedPass, PodStopsSlowly, NodeReturns, ReplicaDies,
             NodeFails, EditReplicas, EditTemplate, EditGuard
    <3> QED
      BY <3>1 DEF GoneInv
  <2>2. \A k \in Ordinal : pods[k].node = "none"
    BY <2>1, PodOrNone
  <2>3. pods' = pods
    BY <1>2, <2>1, <2>2
       DEF Next, Operator, Controller, Surroundings, Progress, Failure, User, vars, Due, Exists,
           DriftPass, DrainPass, TlsPass, RenderPass, ApplyPass, ConflictPass, OrphanPass,
           ForgetPass, SyncStatefulSet, DeliverStatefulSet, PodReady, PodStopped, PeerRecovers,
           GraceExpires, TransferEnds, FailedPass, PodStopsSlowly, NodeReturns, ReplicaDies,
           NodeFails, EditReplicas, EditTemplate, EditGuard
  <2> QED
    BY <2>1, <2>3
<1> QED
  BY <1>1, <1>2

\* While nothing is disturbed, a pod is taken down by a synchronisation alone.
LEMMA TakenDownBySync ==
    ASSUME TypeOK, Gate, [Next]_vars, NEW k \in Ordinal, TakenDown(k)
    PROVE  SyncStatefulSet
<1> USE DEF kube, qdrant, operator
<1>1. /\ pods \in [Ordinal -> Placement] /\ pods[k] # NoPod /\ ~pods[k].stopping /\ pods[k] \in Pod
      /\ pods'[k] # NoPod /\ pods'[k].stopping /\ k < sts.replicas
  BY DEF TypeOK, Placement, TakenDown, Exists
<1>2. pods[k].node = "up"
  BY <1>1 DEF Gate, Placed, Exists
<1>3. ~ (pods'[k] = pods[k])
  BY <1>1
<1>4. ~ReconcileStuckPods
  BY <1>1, <1>3 DEF ReconcileStuckPods
<1>5. \A j \in Ordinal : pods' = [pods EXCEPT ![j].ready = TRUE] => j = k /\ pods'[k] = [pods[k] EXCEPT !.ready = TRUE]
  BY <1>1, <1>3
<1>6. ~ (pods'[k] = [pods[k] EXCEPT !.ready = TRUE])
  <2> DEFINE q == [pods[k] EXCEPT !.ready = TRUE]
  <2>1. q.stopping = pods[k].stopping
    BY <1>1, PodChanged
  <2> HIDE DEF q
  <2>2. pods'[k] # q
    BY <1>1, <2>1
  <2> QED
    BY <2>2 DEF q
<1>7. \A j \in Ordinal : ~PodReady(j)
  BY <1>5, <1>6 DEF PodReady
<1>8. \A j \in Ordinal : ~PodStopped(j)
  BY <1>1, <1>3 DEF PodStopped
<1>9. \A j \in Ordinal : ~PodStopsSlowly(j)
  BY <1>1, <1>3 DEF PodStopsSlowly
<1>10. \A j \in Ordinal : ~GraceExpires(j) /\ ~NodeReturns(j)
  BY <1>1, <1>2, <1>3 DEF GraceExpires, NodeReturns
<1>11. ASSUME NEW j \in Ordinal, NEW state, NodeFails(j, state)
       PROVE  FALSE
  <2>1. j = k
    BY <1>1, <1>3, <1>11 DEF NodeFails
  <2>2. pods'[k].stopping = pods[k].stopping
    BY <1>1, <1>11, <2>1 DEF NodeFails, Pod
  <2> QED
    BY <1>1, <2>2
<1>12. ~DeleteObject
  BY <1>1 DEF DeleteObject
<1> QED
  BY <1>3, <1>4, <1>7, <1>8, <1>9, <1>10, <1>11, <1>12
     DEF Next, Operator, Controller, Surroundings, Progress, Failure, User, vars,
         DriftPass, DrainPass, TlsPass, RenderPass, ApplyPass, ConflictPass, OrphanPass,
         ForgetPass, DeliverStatefulSet, PeerRecovers, TransferEnds, FailedPass, ReplicaDies,
         EditReplicas, EditTemplate, EditGuard

GateHolds ==
    \A k \in Ordinal :
        TakenDown(k) /\ sts.gated /\ ~budget.disturbed
            => ~moving /\ \A j \in 0..(sts.replicas - 1) : j # k => Whole(j)

LEMMA GateKeeps == ASSUME TypeOK, GateInv, GoneInv, [Next]_vars PROVE GateHolds
<1> SUFFICES ASSUME NEW k \in Ordinal, TakenDown(k), sts.gated, ~budget.disturbed
             PROVE  ~moving /\ \A j \in Replica : j # k => Whole(j)
  BY DEF GateHolds, Replica
<1>1. Gate
  BY DEF TakenDown, Exists, GoneInv, TypeOK, GateInv, Calm
<1>2. SyncStatefulSet
  BY <1>1, TakenDownBySync
<1>3. Permit(sts.partition)
  BY <1>1 DEF Gate, Permitted
<1>4. k \in Replica /\ Replica \subseteq Nat /\ sts.partition \in Nat /\ Replica \subseteq Ordinal
  BY ReplicaType DEF TakenDown
<1>5. TakesDown(pods', k)
  <2>1. ~ (pods'[k] = pods[k]) /\ Exists(k)
    BY DEF TakenDown
  <2> QED
    BY <1>1, <1>2, <1>4, <2>1, SyncOutcome DEF Gate, Made, TakesDown
<1>6. ~Updated(k) /\ k >= sts.partition
  BY <1>5 DEF TakesDown, Updated
<1>7. k = sts.partition
  <2>1. ~ (k > sts.partition)
    BY <1>3, <1>4, <1>6 DEF Permit
  <2> QED
    BY <1>4, <1>6, <2>1
<1> QED
  BY <1>3, <1>4, <1>6, <1>7 DEF Permit

\* For every number of replicas, templates and edits: as long as nothing
\* disturbs the rollout, a pod goes down under a partition of the gate only when
\* every other peer is back (upgradeReady, upgradePartition, upgrade.go:20-23).
\* The status that the gate reads may be late, the pass that carries its decision
\* may be overtaken by the StatefulSet controller, and a pod may come back on the
\* template that it had.
THEOREM RolloutIsGated == Spec => AdvanceGated
<1>1. Init => GateInv
  BY GateInit
<1>2. Init => GoneInv
  BY DEF Init, GoneInv
<1>3. TypeOK /\ GateInv /\ GoneInv /\ [Next]_vars => [GateHolds]_vars
  BY GateKeeps
<1>4. Spec => [][GateHolds]_vars
  BY <1>1, <1>2, <1>3, GateStep, GoneStep, PodsTypeCorrect, PTL DEF Spec
<1> QED
  BY <1>4 DEF AdvanceGated, GateHolds

=============================================================================
