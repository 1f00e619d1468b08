------------------------ MODULE QdrantCluster_proofs ------------------------
(***************************************************************************)
(* Proofs about QdrantCluster for every number of peers, shards and        *)
(* replicas, every initial placement and every set of enabled faults.      *)
(***************************************************************************)
EXTENDS QdrantCluster, TLAPS

(***************************************************************************)
(* What the planners return.                                               *)
(***************************************************************************)

\* The head of a plan is one of its entries.
LEMMA EarliestIsMember ==
    ASSUME NEW key, NEW m \in Earliest(key)
    PROVE  m \in DOMAIN key
BY DEF Earliest

\* An observation reads known shards, members and replica states.
ObservationType ==
    [peers : SUBSET Peer, shards : SUBSET Shard,
     rep : [Shard -> [Peer -> ReplicaState]],
     transfers : SUBSET Move, rf : [Collection -> Nat], sized : BOOLEAN]

\* observe returns a well-typed observation of the current members and layout.
LEMMA ObserveType ==
    ASSUME TypeOK, NEW o \in {FullObservation} \cup PartialObservations
    PROVE  /\ o \in ObservationType
           /\ o.peers = peers /\ o.rep = rep
<1>1. ASSUME NEW C, NEW R \in SUBSET Collection, NEW z \in BOOLEAN
      PROVE  /\ Observe(C, R, z) \in ObservationType
             /\ Observe(C, R, z).peers = peers
             /\ Observe(C, R, z).rep = rep
  <2>1. [c \in Collection |-> IF c \in R THEN RF[c] ELSE 0] \in [Collection -> Nat]
    BY RFAssumption
  <2> QED
    BY <2>1 DEF Observe, ObservationType, TypeOK
<1>2. \E C, R, z : R \in SUBSET Collection /\ z \in BOOLEAN /\ o = Observe(C, R, z)
  BY DEF FullObservation, PartialObservations
<1> QED
  BY <1>1, <1>2

\* The steady-state planners propose commands between known peers.
LEMMA PlanType ==
    ASSUME NEW o \in ObservationType, NEW m \in Plan(o)
    PROVE  m \in Move
<1>1. ReplicationPlan(o) \subseteq Move
  BY DEF ReplicationPlan, Move, ObservationType
<1>2. DeadDropPlan(o) \subseteq Move
  BY DEF DeadDropPlan, Move, ObservationType
<1>3. CountPlan(o) \subseteq Move
  BY DEF CountPlan, Move, ObservationType
<1>4. SizePlan(o) \subseteq Move
  <2>1. Fullest(o) \subseteq o.peers /\ Emptiest(o) \subseteq o.peers
    BY DEF Fullest, Emptiest, Earliest
  <2>2. SizeCandidates(o) \subseteq Move
    BY <2>1 DEF SizeCandidates, Move, ObservationType
  <2> QED
    BY <2>2, EarliestIsMember DEF SizePlan
<1> QED
  BY <1>1, <1>2, <1>3, <1>4, EarliestIsMember DEF Plan, RebalancePlan

\* The drain planner moves or drops a replica of the peer that leaves.
LEMMA DrainPlanType ==
    ASSUME NEW o \in ObservationType, NEW t \in o.peers, NEW k \in SUBSET o.peers,
           NEW m \in DrainPlan(o, t, k)
    PROVE  m \in Move
BY DEF DrainPlan, HeldBy, Move, ObservationType

(***************************************************************************)
(* Type correctness of the operator's steps.                               *)
(***************************************************************************)
\* Counting a failure keeps the budget within its bound.
LEMMA SpendType ==
    ASSUME TypeOK, NEW n \in Nat, Spend(n)
    PROVE  budget' \in Budget
BY BoundAssumption DEF TypeOK, Budget, Spend

\* Status().Update leaves a well-typed status whether it succeeds or fails.
LEMMA UpdateStatusType ==
    ASSUME TypeOK, NEW written \in Status, NEW partial \in SUBSET Status, NEW n \in Nat,
           UpdateStatus(written, partial, n)
    PROVE  /\ status' \in Status
           /\ expired' \in BOOLEAN
           /\ budget' \in Budget
<1>1. status' \in Status
  BY DEF UpdateStatus, TypeOK
<1>2. expired' \in BOOLEAN
  BY DEF UpdateStatus
<1>3. budget' \in Budget
  BY SpendType DEF UpdateStatus
<1> QED
  BY <1>1, <1>2, <1>3

\* Each further failure of a move raises the level, which stays a natural number.
LEMMA EscalateType ==
    ASSUME NEW st \in Status
    PROVE  Escalate(st) \in Status
<1>1. st.backoff + 1 \in Nat
  BY DEF Status
<1> QED
  BY <1>1 DEF Escalate, Status

\* What settleActiveMove writes back is a status.
LEMMA SettleType ==
    ASSUME NEW st \in Status, NEW o
    PROVE  Settle(st, o) \in Status /\ MoveFailed(st) \in Status
<1>1. MoveFailed(st) \in Status
  BY EscalateType DEF MoveFailed, Status, Reason
<1>2. [st EXCEPT !.activeMove = NoMove, !.backoff = 0, !.degraded = "None"] \in Status
  BY DEF Status, Reason
<1> QED
  BY <1>1, <1>2 DEF Settle

\* What an incomplete observation costs is a natural number.
LEMMA ObservationCostType ==
    ASSUME NEW o
    PROVE  ObservationCost(o) \in Nat
BY DEF ObservationCost

\* A steady pass either ends or goes on to issue the command it committed.
LEMMA SteadyPassType ==
    ASSUME TypeOK, SteadyPass
    PROVE  /\ status' \in Status /\ expired' \in BOOLEAN /\ budget' \in Budget
           /\ pc' \in {"idle", "issue"}
           /\ pc' = "issue" => status'.activeMove \in Move
<1>1. PICK o \in {FullObservation} \cup PartialObservations : Rebalance(o)
  BY DEF SteadyPass
<1> DEFINE settled == Settle(NoDrain(status), o)
<1>2. settled \in Status
  <2>1. NoDrain(status) \in Status
    BY DEF NoDrain, TypeOK, Status
  <2> QED
    BY <2>1, SettleType
<1> HIDE DEF settled
<1>3. ClearMoveFailed(settled) \in Status
  BY <1>2 DEF ClearMoveFailed, Status, Reason
<1>4. pc = "idle"
  BY DEF SteadyPass, SteadyGuard
<1>5. ObservationCost(o) \in Nat
  BY ObservationCostType
<1>6. ASSUME NEW w \in Status, NEW n \in Nat, UpdateStatus(w, {}, n), pc' = pc
      PROVE  /\ status' \in Status /\ expired' \in BOOLEAN /\ budget' \in Budget
             /\ pc' = "idle"
  BY <1>4, <1>6, UpdateStatusType
<1>7. CASE \E m \in Plan(o) :
             LET committed == [settled EXCEPT !.activeMove = m]
             IN  \/ /\ UpdateStatus(committed, {}, ObservationCost(o))
                    /\ pc' = IF status' = committed THEN "issue" ELSE pc
                 \/ /\ "updateFails" \in Faults
                    /\ UpdateStatus(committed, {}, ObservationCost(o) + 1)
                    /\ pc' = pc
  <2>1. PICK m \in Plan(o) :
             LET committed == [settled EXCEPT !.activeMove = m]
             IN  \/ /\ UpdateStatus(committed, {}, ObservationCost(o))
                    /\ pc' = IF status' = committed THEN "issue" ELSE pc
                 \/ /\ "updateFails" \in Faults
                    /\ UpdateStatus(committed, {}, ObservationCost(o) + 1)
                    /\ pc' = pc
    BY <1>7
  <2> DEFINE committed == [settled EXCEPT !.activeMove = m]
  <2>2. m \in Move
    BY ObserveType, PlanType
  <2>3. committed \in Status /\ committed.activeMove = m
    BY <1>2, <2>2 DEF Status
  <2> HIDE DEF committed
  <2>4. CASE UpdateStatus(committed, {}, ObservationCost(o))
             /\ pc' = IF status' = committed THEN "issue" ELSE pc
    BY <1>4, <1>5, <2>2, <2>3, <2>4, UpdateStatusType
  <2>5. CASE UpdateStatus(committed, {}, ObservationCost(o) + 1) /\ pc' = pc
    BY <1>5, <1>6, <2>3, <2>5
  <2> QED
    BY <2>1, <2>4, <2>5 DEF committed
<1> QED
  BY <1>1, <1>2, <1>3, <1>5, <1>6, <1>7 DEF Rebalance, settled

\* A drain pass ends, or goes on to issue, to remove or to shrink; it shrinks
\* directly only when the peer of the leaving ordinal is no member.
LEMMA DrainPassType ==
    ASSUME TypeOK, DrainPass
    PROVE  /\ status' \in Status /\ expired' \in BOOLEAN /\ budget' \in Budget
           /\ pc' \in {"idle", "drainIssue", "remove", "shrink"}
           /\ pc' = "drainIssue" => status'.activeMove \in Move
           /\ pc' = "shrink" => Target = {}
<1>1. PICK o \in {FullObservation} \cup PartialObservations, seen \in BOOLEAN :
          LET cost == ObservationCost(o) + ReshardCost(seen)
          IN  \/ /\ UpdateStatus(Draining(Settle(status, o)), {}, cost)
                 /\ pc' = pc
              \/ DrainUnparseable(o, cost)
              \/ ResumeShrink(cost)
              \/ \E target \in Target : DrainPeer(o, target, cost)
  BY DEF DrainPass
<1> DEFINE cost == ObservationCost(o) + ReshardCost(seen)
           published == Draining(Settle(status, o))
<1>2. cost \in Nat
  BY DEF ObservationCost, ReshardCost
<1>3. published \in Status /\ [published EXCEPT !.degraded = "DrainBlocked"] \in Status
  <2>1. Settle(status, o) \in Status
    BY SettleType DEF TypeOK
  <2>2. published \in Status
    BY <2>1 DEF Draining, Status
  <2> QED
    BY <2>2 DEF Status, Reason
<1>4. pc = "idle"
  BY DEF DrainPass, DrainGuard
<1> HIDE DEF published, cost
<1>5. CASE UpdateStatus(published, {}, cost) /\ pc' = pc
  BY <1>2, <1>3, <1>4, <1>5, UpdateStatusType
<1>6. CASE DrainUnparseable(o, cost)
  BY <1>2, <1>3, <1>4, <1>6, UpdateStatusType DEF DrainUnparseable, published
<1>7. CASE ResumeShrink(cost)
  BY <1>2, <1>7, SpendType DEF ResumeShrink, TypeOK
<1>8. ASSUME NEW target \in Target, DrainPeer(o, target, cost)
      PROVE  /\ status' \in Status /\ expired' \in BOOLEAN /\ budget' \in Budget
             /\ pc' \in {"idle", "drainIssue", "remove"}
             /\ pc' = "drainIssue" => status'.activeMove \in Move
  <2> DEFINE keepers == Keepers(o, spec.replicas)
  <2>1. CASE UpdateStatus(published, {}, cost) /\ pc' \in {pc, "remove"}
    BY <1>2, <1>3, <1>4, <2>1, UpdateStatusType
  <2>2. CASE UpdateStatus([published EXCEPT !.degraded = "DrainBlocked"], {published}, cost)
             /\ pc' = pc
    BY <1>2, <1>3, <1>4, <2>2, UpdateStatusType
  <2>3. ASSUME NEW m \in DrainPlan(o, target, keepers),
               UpdateStatus([published EXCEPT !.activeMove = m], {published}, cost),
               pc' = IF status' = [published EXCEPT !.activeMove = m]
                     THEN "drainIssue" ELSE pc
        PROVE  /\ status' \in Status /\ expired' \in BOOLEAN /\ budget' \in Budget
               /\ pc' \in {"idle", "drainIssue"}
               /\ pc' = "drainIssue" => status'.activeMove \in Move
    <3>1. m \in Move
      <4>1. o \in ObservationType /\ o.peers = peers
        BY ObserveType
      <4>2. target \in o.peers /\ keepers \subseteq o.peers
        BY <4>1 DEF Target, Keepers
      <4> HIDE DEF keepers
      <4> QED
        BY <4>1, <4>2, <2>3, DrainPlanType
    <3>2. /\ [published EXCEPT !.activeMove = m] \in Status
          /\ [published EXCEPT !.activeMove = m].activeMove = m
      BY <1>3, <3>1 DEF Status
    <3> QED
      BY <1>2, <1>3, <1>4, <2>3, <3>1, <3>2, UpdateStatusType
  <2> QED
    BY <1>8, <2>1, <2>2, <2>3 DEF DrainPeer, published
<1> QED
  BY <1>1, <1>5, <1>6, <1>7, <1>8 DEF published, cost

(***************************************************************************)
(* The inductive invariant behind NoShardLost.                             *)
(***************************************************************************)

\* Every shard is served, replicas live on members, Active ones on pods that
\* the StatefulSet keeps.
ReplicasPlaced ==
    \A s \in Shard :
        /\ \E p \in Peer : rep[s][p] = "Active"
        /\ \A p \in Peer : rep[s][p] # "None" => p \in peers
        /\ \A p \in Peer : rep[s][p] = "Active" => Ordinal[p] < sts

\* A running transfer owns a Partial replica, and a shard has at most one.
TransfersPartial ==
    \A t \in transfers :
        /\ t.to \in Peer /\ rep[t.shard][t.to] = "Partial"
        /\ \A u \in transfers : u.shard = t.shard => u = t

\* An accepted command that creates a replica creates it on a member.
InboxToMembers == \A m \in inbox : m.op # "Drop" => m.to \in peers

\* The StatefulSet runs no pod beyond its size.
PodsWithin == pods \subseteq 0..(sts - 1)

\* While a pass is about to shrink, the leaving ordinal is not the last one,
\* its peer is empty and no accepted command can fill it again.
LeavingEmpty ==
    /\ pc \in {"remove", "shrink"} => sts > 1
    /\ pc = "shrink" =>
         \A p \in Peer : Ordinal[p] = sts - 1 =>
             Empty(p) /\ \A m \in inbox : m.op # "Drop" => m.to # p

\* A pass that is about to issue has committed what it issues.
IssueCommitted == pc \in {"issue", "drainIssue"} => status.activeMove \in Move

IInv ==
    /\ TypeOK
    /\ ReplicasPlaced
    /\ TransfersPartial
    /\ InboxToMembers
    /\ PodsWithin
    /\ LeavingEmpty
    /\ IssueCommitted

\* The initial placement satisfies the invariant.
LEMMA InitIInv == Init => IInv
<1> SUFFICES ASSUME Init PROVE IInv
  OBVIOUS
<1>1. TypeOK
  <2>1. status \in Status
    BY DEF Init, Status, Reason
  <2>2. budget \in Budget
    BY BoundAssumption DEF Init, Budget
  <2>3. rep \in [Shard -> [Peer -> ReplicaState]]
    BY PlacementAssumption DEF Init, ReplicaState
  <2>4. InitReplicas \in 1..MaxReplicas /\ 0..(InitReplicas - 1) \subseteq 0..(MaxReplicas - 1)
    BY BoundAssumption
  <2> QED
    BY <2>1, <2>2, <2>3, <2>4 DEF Init, TypeOK
<1>2. ReplicasPlaced
  BY PlacementAssumption DEF Init, ReplicasPlaced
<1> QED
  BY <1>1, <1>2 DEF Init, IInv, TransfersPartial, InboxToMembers, PodsWithin,
                    LeavingEmpty, IssueCommitted

(***************************************************************************)
(* Every step preserves the invariant: the operator's passes.              *)
(***************************************************************************)

\* A pass that leaves the StatefulSet and the Qdrant cluster alone.
LEMMA QuietPass ==
    ASSUME IInv, UNCHANGED <<spec, edited, kube, qdrant, reshard>>,
           status' \in Status, expired' \in BOOLEAN, budget' \in Budget,
           pc' \in {"idle", "issue", "drainIssue", "remove", "shrink"},
           pc' \in {"issue", "drainIssue"} => status'.activeMove \in Move,
           pc' \in {"remove", "shrink"} => spec.replicas < sts,
           pc' = "shrink" => Target = {}
    PROVE  IInv'
<1>1. TypeOK'
  BY DEF IInv, TypeOK, kube, qdrant
<1>2. ReplicasPlaced' /\ TransfersPartial' /\ InboxToMembers' /\ PodsWithin'
  BY DEF IInv, ReplicasPlaced, TransfersPartial, InboxToMembers, PodsWithin, kube, qdrant
<1>3. LeavingEmpty'
  <2>1. pc' \in {"remove", "shrink"} => sts' > 1
    BY DEF IInv, TypeOK, kube
  <2>2. ASSUME pc' = "shrink", NEW p \in Peer, Ordinal[p] = sts' - 1
        PROVE  Empty(p)' /\ \A m \in inbox' : m.op # "Drop" => m.to # p
    <3>1. p \notin peers
      BY <2>2 DEF Target, kube
    <3> QED
      BY <3>1 DEF IInv, ReplicasPlaced, InboxToMembers, Empty, qdrant
  <2> QED
    BY <2>1, <2>2 DEF LeavingEmpty
<1>4. IssueCommitted'
  BY DEF IssueCommitted
<1> QED
  BY <1>1, <1>2, <1>3, <1>4 DEF IInv

\* Raising spec.replicas only adds pods: nothing is placed or removed.
LEMMA ScaleOutIInv ==
    ASSUME IInv, ScaleOut
    PROVE  IInv'
<1>1. status' \in Status /\ expired' \in BOOLEAN /\ budget' \in Budget
  <2>1. NoDrain(status) \in Status
    BY DEF NoDrain, IInv, TypeOK, Status
  <2> QED
    BY <2>1, UpdateStatusType DEF ScaleOut, IInv
<1>2. TypeOK'
  BY <1>1 DEF IInv, TypeOK, ScaleOut, SteadyGuard, qdrant
<1>3. sts' \in Nat /\ sts \in Nat /\ sts < sts' /\ pc' = "idle"
  BY DEF IInv, TypeOK, ScaleOut, SteadyGuard
<1>4. ReplicasPlaced' /\ TransfersPartial' /\ InboxToMembers'
  BY <1>3, OrdinalAssumption
     DEF IInv, ReplicasPlaced, TransfersPartial, InboxToMembers, ScaleOut, qdrant
<1>5. PodsWithin' /\ LeavingEmpty' /\ IssueCommitted'
  BY <1>3 DEF IInv, PodsWithin, LeavingEmpty, IssueCommitted, ScaleOut
<1> QED
  BY <1>2, <1>4, <1>5 DEF IInv

\* A steady pass that holds back writes at most the status.
LEMMA SteadyHoldIInv ==
    ASSUME IInv, SteadyHold
    PROVE  IInv'
<1>1. NoDrain(status) \in Status
  BY DEF NoDrain, IInv, TypeOK, Status
<1>2. status' \in Status /\ expired' \in BOOLEAN /\ budget' \in Budget
  BY <1>1, UpdateStatusType DEF SteadyHold, IInv
<1> QED
  BY <1>2, QuietPass DEF SteadyHold, SteadyGuard

\* A steady pass commits at most one command, and issues it in a later step.
LEMMA SteadyPassIInv ==
    ASSUME IInv, SteadyPass
    PROVE  IInv'
BY SteadyPassType, QuietPass DEF SteadyPass, IInv

\* A drain pass without an observation writes at most the status.
LEMMA DrainUnobservableIInv ==
    ASSUME IInv, DrainUnobservable
    PROVE  IInv'
<1>1. Draining(status) \in Status
  BY DEF Draining, IInv, TypeOK, Status
<1>2. [Draining(status) EXCEPT !.degraded = "DrainBlocked"] \in Status
  BY <1>1 DEF Status, Reason
<1>3. status' \in Status /\ expired' \in BOOLEAN /\ budget' \in Budget
  BY <1>1, <1>2, UpdateStatusType DEF DrainUnobservable, IInv
<1> QED
  BY <1>3, QuietPass DEF DrainUnobservable, DrainGuard

\* A drain pass decides from one observation and commits what it will do.
LEMMA DrainPassIInv ==
    ASSUME IInv, DrainPass
    PROVE  IInv'
BY DrainPassType, QuietPass DEF DrainPass, DrainGuard, IInv

(***************************************************************************)
(* The calls a pass makes after it committed its status.                   *)
(***************************************************************************)

\* A status, budget and deadline after a call that failed.
LEMMA RecordFailureType ==
    ASSUME TypeOK, NEW n \in Nat, RecordFailure(n)
    PROVE  status' \in Status /\ expired' \in BOOLEAN /\ budget' \in Budget
<1>1. MoveFailed(status) \in Status
  BY SettleType DEF TypeOK
<1>2. CASE pc = "issue"
  BY <1>1, <1>2, UpdateStatusType DEF RecordFailure
<1>3. CASE pc # "issue"
  BY <1>3, SpendType DEF RecordFailure, TypeOK
<1> QED
  BY <1>2, <1>3

\* issueActiveMove: the server accepts the committed command, or refuses it.
LEMMA IssueCommandIInv ==
    ASSUME IInv, IssueCommand
    PROVE  IInv'
<1>1. status.activeMove \in Move
  BY DEF IInv, IssueCommitted, IssueCommand
<1>2. status' \in Status /\ expired' \in BOOLEAN /\ budget' \in Budget
  BY RecordFailureType DEF IssueCommand, IInv, TypeOK
<1>3. \/ inbox' = inbox
      \/ inbox' = inbox \cup {status.activeMove} /\ Admissible(status.activeMove)
  BY DEF IssueCommand
<1>4. inbox' \subseteq Move /\ InboxToMembers'
  BY <1>1, <1>3 DEF IInv, TypeOK, InboxToMembers, Admissible, IssueCommand
<1>5. TypeOK'
  BY <1>2, <1>4 DEF IInv, TypeOK, IssueCommand, EndPass, kube
<1>6. ReplicasPlaced' /\ TransfersPartial' /\ PodsWithin'
  BY DEF IInv, ReplicasPlaced, TransfersPartial, PodsWithin, IssueCommand, kube
<1>7. LeavingEmpty' /\ IssueCommitted'
  BY DEF LeavingEmpty, IssueCommitted, IssueCommand, EndPass
<1> QED
  BY <1>4, <1>5, <1>6, <1>7 DEF IInv

\* RemovePeer: the server lets go only of an empty peer, and voids the
\* commands that name it, so the shrink that follows finds it empty.
LEMMA RemovePeerIInv ==
    ASSUME IInv, RemovePeer
    PROVE  IInv'
<1>1. PICK p \in Target :
          /\ \/ Empty(p) /\ Detach(p)
             \/ UNCHANGED <<peers, inbox>>
          /\ \/ /\ Empty(p) /\ Detach(p) /\ pc' = "shrink"
                /\ UNCHANGED <<status, expired, edited, budget>>
             \/ \E n \in {0, 1} : RemoveFailed(n)
  BY DEF RemovePeer
<1>2. status' \in Status /\ expired' \in BOOLEAN /\ budget' \in Budget
  <2>1. [Escalate(status) EXCEPT !.degraded = "DrainBlocked"] \in Status
    BY EscalateType DEF IInv, TypeOK, Status, Reason
  <2>2. ASSUME NEW n \in {0, 1}, RemoveFailed(n)
        PROVE  status' \in Status /\ expired' \in BOOLEAN /\ budget' \in Budget
    BY <2>1, <2>2, UpdateStatusType DEF RemoveFailed, IInv
  <2> QED
    BY <1>1, <2>2 DEF IInv, TypeOK
<1>3. pc' \in {"idle", "shrink"} /\ edited' \in BOOLEAN
  BY <1>1 DEF RemoveFailed, EndPass, IInv, TypeOK
<1>4. peers' \subseteq peers /\ inbox' \subseteq inbox
  BY <1>1 DEF Detach
<1>5. TypeOK'
  BY <1>2, <1>3, <1>4 DEF IInv, TypeOK, RemovePeer, kube
<1>6. p \in Peer /\ Ordinal[p] = sts - 1
  BY DEF Target, IInv, TypeOK
<1>7. ReplicasPlaced'
  BY <1>1, <1>6 DEF IInv, ReplicasPlaced, Empty, Detach, RemovePeer, kube
<1>8. InboxToMembers'
  BY <1>1 DEF IInv, InboxToMembers, Detach
<1>9. TransfersPartial' /\ PodsWithin' /\ IssueCommitted'
  BY <1>3 DEF IInv, TransfersPartial, PodsWithin, IssueCommitted, RemovePeer, kube
<1>10. LeavingEmpty'
  <2>1. sts' = sts /\ sts > 1
    BY DEF IInv, LeavingEmpty, RemovePeer, kube
  <2>2. ASSUME pc' = "shrink", NEW q \in Peer, Ordinal[q] = sts' - 1
        PROVE  Empty(q)' /\ \A m \in inbox' : m.op # "Drop" => m.to # q
    <3>1. q = p
      BY <1>6, <2>1, <2>2, OrdinalAssumption
    <3>2. Empty(p) /\ Detach(p)
      BY <1>1, <2>2 DEF RemoveFailed, EndPass
    <3> QED
      BY <3>1, <3>2 DEF Empty, Detach, RemovePeer
  <2> QED
    BY <2>1, <2>2 DEF LeavingEmpty
<1> QED
  BY <1>5, <1>7, <1>8, <1>9, <1>10 DEF IInv

\* shrinkOne: the pod that goes held nothing.
LEMMA ShrinkOneIInv ==
    ASSUME IInv, ShrinkOne
    PROVE  IInv'
<1>1. sts \in Nat /\ sts > 1 /\ sts' = sts - 1 /\ pc' = "idle"
  BY DEF IInv, TypeOK, LeavingEmpty, ShrinkOne, EndPass
<1>2. TypeOK'
  <2>1. pods' \subseteq 0..(MaxReplicas - 1) /\ newborn' \subseteq pods'
    BY DEF IInv, TypeOK, ShrinkOne
  <2>2. sts' \in 1..MaxReplicas
    BY <1>1, BoundAssumption DEF IInv, TypeOK
  <2> QED
    BY <1>1, <2>1, <2>2 DEF IInv, TypeOK, ShrinkOne, EndPass, qdrant
<1>3. ReplicasPlaced'
  <2>1. ASSUME NEW s \in Shard, NEW p \in Peer, rep[s][p] = "Active"
        PROVE  Ordinal[p] < sts - 1
    <3>1. Ordinal[p] < sts /\ Ordinal[p] \in Nat
      BY <2>1, OrdinalAssumption DEF IInv, ReplicasPlaced
    <3>2. Ordinal[p] # sts - 1
      BY <2>1 DEF IInv, LeavingEmpty, ShrinkOne, Empty
    <3> QED
      BY <1>1, <3>1, <3>2
  <2> QED
    BY <1>1, <2>1 DEF IInv, ReplicasPlaced, ShrinkOne, qdrant
<1>4. TransfersPartial' /\ InboxToMembers' /\ LeavingEmpty' /\ IssueCommitted'
  BY <1>1 DEF IInv, TransfersPartial, InboxToMembers, LeavingEmpty, IssueCommitted,
              ShrinkOne, qdrant
<1>5. PodsWithin'
  BY <1>1 DEF IInv, PodsWithin, ShrinkOne
<1> QED
  BY <1>2, <1>3, <1>4, <1>5 DEF IInv

\* A pass that is cut short leaves everything as it was.
LEMMA AbandonPassIInv ==
    ASSUME IInv, AbandonPass
    PROVE  IInv'
<1>1. budget' \in Budget /\ pc' = "idle" /\ edited' \in BOOLEAN
  BY SpendType DEF IInv, AbandonPass, Fault, EndPass
<1>2. TypeOK'
  BY <1>1 DEF IInv, TypeOK, AbandonPass, kube, qdrant
<1>3. ReplicasPlaced' /\ TransfersPartial' /\ InboxToMembers' /\ PodsWithin'
  BY DEF IInv, ReplicasPlaced, TransfersPartial, InboxToMembers, PodsWithin,
         AbandonPass, kube, qdrant
<1> QED
  BY <1>1, <1>2, <1>3 DEF IInv, LeavingEmpty, IssueCommitted

(***************************************************************************)
(* The server.                                                             *)
(***************************************************************************)

\* A command that is applied touches neither the last Active copy nor the
\* peer that is about to be shrunk away.
LEMMA ApplyCommandIInv ==
    ASSUME IInv, NEW m \in inbox, ApplyCommand(m)
    PROVE  IInv'
<1>1. m \in Move /\ m.shard \in Shard /\ m.from \in Peer
  BY DEF IInv, TypeOK, Move
<1>2. CASE m.op = "Drop"
  <2>1. /\ rep' = [rep EXCEPT ![m.shard][m.from] = "None"]
        /\ transfers' = {t \in transfers : t.shard # m.shard \/ t.to # m.from}
    BY <1>2 DEF ApplyCommand
  <2>2. TypeOK'
    BY <1>1, <2>1 DEF IInv, TypeOK, ApplyCommand, ReplicaState, kube
  <2>3. ReplicasPlaced'
    BY <1>1, <1>2, <2>1 DEF IInv, TypeOK, ReplicasPlaced, ApplyCommand, Admissible, kube
  <2>4. TransfersPartial'
    BY <1>1, <2>1 DEF IInv, TypeOK, TransfersPartial, Move
  <2>5. InboxToMembers' /\ PodsWithin' /\ IssueCommitted'
    BY DEF IInv, InboxToMembers, PodsWithin, IssueCommitted, ApplyCommand, kube
  <2>6. LeavingEmpty'
    BY <1>1, <2>1 DEF IInv, TypeOK, LeavingEmpty, Empty, ApplyCommand, kube
  <2> QED
    BY <2>2, <2>3, <2>4, <2>5, <2>6 DEF IInv
<1>3. CASE m.op # "Drop"
  <2>1. /\ rep' = [rep EXCEPT ![m.shard][m.to] = "Partial"]
        /\ transfers' = transfers \cup {m}
        /\ m.to \in peers /\ rep[m.shard][m.to] = "None"
        /\ \A t \in transfers : t.shard # m.shard
    BY <1>3 DEF ApplyCommand, Admissible
  <2>2. m.to \in Peer
    BY <2>1 DEF IInv, TypeOK
  <2>3. TypeOK'
    BY <1>1, <2>1, <2>2 DEF IInv, TypeOK, ApplyCommand, ReplicaState, kube
  <2>4. ReplicasPlaced'
    BY <1>1, <2>1, <2>2 DEF IInv, TypeOK, ReplicasPlaced, ApplyCommand, kube
  <2>5. TransfersPartial'
    BY <1>1, <2>1, <2>2 DEF IInv, TypeOK, TransfersPartial, Move
  <2>6. InboxToMembers' /\ PodsWithin' /\ IssueCommitted'
    BY DEF IInv, InboxToMembers, PodsWithin, IssueCommitted, ApplyCommand, kube
  <2>7. LeavingEmpty'
    BY <1>1, <1>3, <2>1, <2>2 DEF IInv, TypeOK, LeavingEmpty, Empty, ApplyCommand, kube
  <2> QED
    BY <2>3, <2>4, <2>5, <2>6, <2>7 DEF IInv
<1> QED
  BY <1>2, <1>3

\* A command that is discarded leaves the layout alone.
LEMMA DiscardCommandIInv ==
    ASSUME IInv, NEW m \in inbox, DiscardCommand(m)
    PROVE  IInv'
<1>1. budget' \in Budget
  BY SpendType DEF IInv, TypeOK, DiscardCommand, Fault
<1>2. TypeOK'
  BY <1>1 DEF IInv, TypeOK, DiscardCommand, kube
<1> QED
  BY <1>2 DEF IInv, ReplicasPlaced, TransfersPartial, InboxToMembers, PodsWithin,
              LeavingEmpty, Empty, IssueCommitted, DiscardCommand, kube

\* A transfer that ends makes its target Active before its source goes.
LEMMA FinishTransferIInv ==
    ASSUME IInv, NEW t \in transfers, FinishTransfer(t)
    PROVE  IInv'
<1>1. /\ t \in Move /\ t.shard \in Shard /\ t.from \in Peer /\ t.to \in Peer
      /\ rep[t.shard][t.to] = "Partial" /\ rep[t.shard][t.from] = "Active"
      /\ t.from # t.to
  BY DEF IInv, TypeOK, Move, TransfersPartial, FinishTransfer
<1> DEFINE left == IF t.op = "Move" THEN "None" ELSE "Active"
<1>2. \A s \in Shard, p \in Peer :
          rep'[s][p] = IF s = t.shard /\ p = t.to THEN "Active"
                       ELSE IF s = t.shard /\ p = t.from THEN left
                       ELSE rep[s][p]
  BY <1>1 DEF FinishTransfer, IInv, TypeOK
<1>3. rep' \in [Shard -> [Peer -> ReplicaState]]
  BY <1>1 DEF FinishTransfer, IInv, TypeOK, ReplicaState
<1>4. /\ transfers' = transfers \ {t} /\ Ordinal[t.to] \in pods
      /\ UNCHANGED <<spec, status, edited, sts, pods, newborn, peers, inbox, pc,
                     expired, reshard, budget>>
  BY DEF FinishTransfer, kube
<1> HIDE DEF left
<1>5. TypeOK'
  BY <1>3, <1>4 DEF IInv, TypeOK
<1>6. ReplicasPlaced'
  <2>1. t.to \in peers
    BY <1>1 DEF IInv, ReplicasPlaced
  <2>2. Ordinal[t.to] < sts
    <3>1. Ordinal[t.to] \in 0..(sts - 1)
      BY <1>4 DEF IInv, PodsWithin
    <3>2. sts \in Nat
      BY DEF IInv, TypeOK
    <3> QED
      BY <3>1, <3>2
  <2>3. ASSUME NEW s \in Shard
        PROVE  /\ \E p \in Peer : rep'[s][p] = "Active"
               /\ \A p \in Peer : rep'[s][p] # "None" => p \in peers
               /\ \A p \in Peer : rep'[s][p] = "Active" => Ordinal[p] < sts
    <3>1. CASE s = t.shard
      <4>1. \A p \in Peer : rep[s][p] # "None" => p \in peers
        BY DEF IInv, ReplicasPlaced
      <4>2. \A p \in Peer : rep[s][p] = "Active" => Ordinal[p] < sts
        BY DEF IInv, ReplicasPlaced
      <4>3. rep'[s][t.to] = "Active"
        BY <1>1, <1>2, <3>1
      <4>4. \A p \in Peer \ {t.from, t.to} : rep'[s][p] = rep[s][p]
        BY <1>2, <3>1
      <4> QED
        BY <1>1, <2>1, <2>2, <3>1, <4>1, <4>2, <4>3, <4>4
    <3>2. CASE s # t.shard
      BY <1>2, <3>2 DEF IInv, ReplicasPlaced
    <3> QED
      BY <3>1, <3>2
  <2> QED
    BY <1>4, <2>3 DEF ReplicasPlaced
<1>7. TransfersPartial'
  BY <1>1, <1>2, <1>4 DEF IInv, TypeOK, Move, TransfersPartial
<1>8. InboxToMembers' /\ PodsWithin' /\ IssueCommitted'
  BY <1>4 DEF IInv, InboxToMembers, PodsWithin, IssueCommitted
<1>9. LeavingEmpty'
  <2>1. ASSUME pc = "shrink", NEW p \in Peer, Ordinal[p] = sts - 1, NEW s \in Shard
        PROVE  rep'[s][p] = "None"
    <3>1. rep[s][p] = "None" /\ rep[t.shard][p] = "None"
      BY <1>1, <2>1 DEF IInv, LeavingEmpty, Empty
    <3> QED
      BY <1>1, <1>2, <3>1
  <2> QED
    BY <1>4, <2>1 DEF IInv, LeavingEmpty, Empty
<1> QED
  BY <1>5, <1>6, <1>7, <1>8, <1>9 DEF IInv

\* A transfer that fails takes away the Partial replica only.
LEMMA AbortTransferIInv ==
    ASSUME IInv, NEW t \in transfers, AbortTransfer(t)
    PROVE  IInv'
<1>1. /\ t \in Move /\ t.shard \in Shard /\ t.to \in Peer
      /\ rep[t.shard][t.to] = "Partial"
  BY DEF IInv, TypeOK, Move, TransfersPartial
<1>2. /\ rep' = [rep EXCEPT ![t.shard][t.to] = "None"]
      /\ transfers' = transfers \ {t}
  BY DEF AbortTransfer
<1>3. budget' \in Budget
  BY SpendType DEF IInv, TypeOK, AbortTransfer, Fault
<1>4. TypeOK'
  BY <1>1, <1>2, <1>3 DEF IInv, TypeOK, AbortTransfer, ReplicaState, kube
<1>5. ReplicasPlaced'
  BY <1>1, <1>2 DEF IInv, TypeOK, ReplicasPlaced, AbortTransfer, kube
<1>6. TransfersPartial'
  BY <1>1, <1>2 DEF IInv, TypeOK, Move, TransfersPartial
<1>7. InboxToMembers' /\ PodsWithin' /\ IssueCommitted'
  BY DEF IInv, InboxToMembers, PodsWithin, IssueCommitted, AbortTransfer, kube
<1>8. LeavingEmpty'
  <2>1. \A x \in Shard, y \in Peer : rep[x][y] = "None" => rep'[x][y] = "None"
    BY <1>1, <1>2 DEF IInv, TypeOK
  <2>2. UNCHANGED <<pc, sts, inbox>>
    BY DEF AbortTransfer, kube
  <2> QED
    BY <2>1, <2>2 DEF IInv, LeavingEmpty, Empty
<1> QED
  BY <1>4, <1>5, <1>6, <1>7, <1>8 DEF IInv

\* A replica dies only while another one is Active.
LEMMA ReplicaDiesIInv ==
    ASSUME IInv, NEW s \in Shard, NEW p \in Peer, ReplicaDies(s, p)
    PROVE  IInv'
<1>1. rep' = [rep EXCEPT ![s][p] = "Dead"] /\ rep[s][p] = "Active"
  BY DEF ReplicaDies
<1>2. budget' \in Budget
  BY SpendType DEF IInv, ReplicaDies, Fault
<1>3. TypeOK'
  BY <1>1, <1>2 DEF IInv, TypeOK, ReplicaDies, ReplicaState, kube
<1>4. ReplicasPlaced'
  BY <1>1 DEF IInv, TypeOK, ReplicasPlaced, ReplicaDies, kube
<1>5. TransfersPartial'
  BY <1>1 DEF IInv, TypeOK, Move, TransfersPartial, ReplicaDies
<1>6. InboxToMembers' /\ PodsWithin' /\ IssueCommitted'
  BY DEF IInv, InboxToMembers, PodsWithin, IssueCommitted, ReplicaDies, kube
<1>7. LeavingEmpty'
  <2>1. \A x \in Shard, y \in Peer : rep[x][y] = "None" => rep'[x][y] = "None"
    BY <1>1 DEF IInv, TypeOK
  <2>2. UNCHANGED <<pc, sts, inbox>>
    BY DEF ReplicaDies, kube
  <2> QED
    BY <2>1, <2>2 DEF IInv, LeavingEmpty, Empty
<1> QED
  BY <1>3, <1>4, <1>5, <1>6, <1>7 DEF IInv

(***************************************************************************)
(* Pods, users, collections and time.                                      *)
(***************************************************************************)

\* The StatefulSet controller starts pods below the size of the StatefulSet.
LEMMA PodStartIInv ==
    ASSUME IInv, NEW k \in 0..(MaxReplicas - 1), PodStart(k)
    PROVE  IInv'
<1>1. TypeOK'
  BY DEF IInv, TypeOK, PodStart, qdrant
<1> QED
  BY <1>1 DEF IInv, ReplicasPlaced, TransfersPartial, InboxToMembers, PodsWithin,
              LeavingEmpty, Empty, IssueCommitted, PodStart, qdrant

\* A pod that joins, even while its ordinal is being shrunk away, is empty.
LEMMA JoinIInv ==
    ASSUME IInv, NEW p \in Peer, Join(p)
    PROVE  IInv'
<1>1. TypeOK'
  BY DEF IInv, TypeOK, Join
<1> QED
  BY <1>1 DEF IInv, ReplicasPlaced, TransfersPartial, InboxToMembers, PodsWithin,
              LeavingEmpty, Empty, IssueCommitted, Join

\* Steps outside the cluster controller, the server and the StatefulSet.
LEMMA EnvironmentIInv ==
    ASSUME IInv,
           \/ (\E n \in 1..MaxReplicas : SetReplicas(n)) \/ SwitchRebalance
           \/ DeadlinePasses \/ ReshardBegin \/ ReshardComplete
    PROVE  IInv'
<1>1. UNCHANGED <<status, kube, qdrant, pc>>
  BY DEF SetReplicas, SwitchRebalance, DeadlinePasses, ReshardBegin, ReshardComplete
<1>2. budget' \in Budget
  BY BoundAssumption
     DEF IInv, TypeOK, Budget, SetReplicas, SwitchRebalance, DeadlinePasses, Fault, Spend,
         ReshardBegin, ReshardComplete
<1>3. /\ spec' \in [replicas : 1..MaxReplicas, rebalance : BOOLEAN] /\ edited' \in BOOLEAN
      /\ expired' \in BOOLEAN /\ reshard' \in BOOLEAN
  BY DEF IInv, TypeOK, SetReplicas, SwitchRebalance, DeadlinePasses, ReshardBegin, ReshardComplete
<1>4. TypeOK'
  BY <1>1, <1>2, <1>3 DEF IInv, TypeOK, kube, qdrant
<1> QED
  BY <1>1, <1>4 DEF IInv, ReplicasPlaced, TransfersPartial, InboxToMembers, PodsWithin,
                    LeavingEmpty, Empty, IssueCommitted, kube, qdrant

\* Every step of the system preserves the invariant.
LEMMA NextIInv ==
    ASSUME IInv, [Next]_vars
    PROVE  IInv'
<1>1. CASE Operator
  BY <1>1, ScaleOutIInv, SteadyHoldIInv, SteadyPassIInv, DrainUnobservableIInv,
     DrainPassIInv, IssueCommandIInv, RemovePeerIInv, ShrinkOneIInv DEF Operator
<1>2. CASE AbandonPass
  BY <1>2, AbandonPassIInv
<1>3. CASE Server
  BY <1>3, ApplyCommandIInv, DiscardCommandIInv, FinishTransferIInv, AbortTransferIInv
     DEF Server
<1>4. CASE \E s \in Shard, p \in Peer : ReplicaDies(s, p)
  BY <1>4, ReplicaDiesIInv
<1>5. CASE \E k \in 0..(MaxReplicas - 1) : PodStart(k)
  BY <1>5, PodStartIInv
<1>6. CASE \E p \in Peer : Join(p)
  BY <1>6, JoinIInv
<1>7. CASE \/ (\E n \in 1..MaxReplicas : SetReplicas(n)) \/ SwitchRebalance
           \/ DeadlinePasses \/ ReshardBegin \/ ReshardComplete
  BY <1>7, EnvironmentIInv
<1>8. CASE UNCHANGED vars
  BY <1>8 DEF vars, IInv, TypeOK, ReplicasPlaced, TransfersPartial, InboxToMembers,
              PodsWithin, LeavingEmpty, Empty, IssueCommitted
<1> QED
  BY <1>1, <1>2, <1>3, <1>4, <1>5, <1>6, <1>7, <1>8 DEF Next

(***************************************************************************)
(* The theorems.                                                           *)
(***************************************************************************)

\* The invariant holds in every reachable state.
LEMMA Invariance == Spec => []IInv
BY InitIInv, NextIInv, PTL DEF Spec

\* Every variable keeps its type: in particular MoveBackoff stays within its
\* bound and spec.replicas and the StatefulSet never fall below one.
THEOREM TypeCorrect == Spec => []TypeOK
<1>1. IInv => TypeOK
  BY DEF IInv
<1> QED
  BY <1>1, Invariance, PTL

\* Whatever the operator and the server do, and whatever fails in between,
\* every shard keeps an Active replica on a member whose pod is kept.
THEOREM ShardsNeverLost == Spec => []NoShardLost
<1>1. IInv => NoShardLost
  BY DEF IInv, ReplicasPlaced, NoShardLost
<1> QED
  BY <1>1, Invariance, PTL

\* The StatefulSet only ever shrinks by one ordinal whose peer holds nothing.
THEOREM ShrinkSafe == Spec => ShrinkKeepsData
<1>1. ASSUME IInv, [Next]_vars, sts' < sts
      PROVE  ShrinkOne
  <2>1. sts \in Nat
    BY <1>1 DEF IInv, TypeOK
  <2>2. ~ (sts' = sts) /\ ~ ScaleOut
    BY <1>1, <2>1 DEF ScaleOut, SteadyGuard, IInv, TypeOK
  <2> QED
    BY <1>1, <2>2
       DEF Next, Operator, SteadyHold, SteadyPass, DrainUnobservable, DrainPass,
           IssueCommand, RemovePeer, AbandonPass, Server, ApplyCommand, DiscardCommand,
           FinishTransfer, AbortTransfer, ReplicaDies, PodStart, Join, SetReplicas,
           SwitchRebalance, DeadlinePasses, ReshardBegin, ReshardComplete, vars, kube
<1>2. ASSUME IInv, ShrinkOne
      PROVE  /\ sts' = sts - 1 /\ sts' >= 1
             /\ \A p \in Peer : Ordinal[p] = sts' => Empty(p)
  <2>0. LeavingEmpty /\ sts \in Nat /\ pc = "shrink" /\ sts' = sts - 1
    BY <1>2 DEF IInv, TypeOK, ShrinkOne
  <2>1. sts \in Nat /\ sts > 1 /\ sts' = sts - 1
    BY <2>0 DEF LeavingEmpty
  <2>2. \A p \in Peer : Ordinal[p] = sts - 1 => Empty(p)
    BY <2>0 DEF LeavingEmpty
  <2>3. sts' >= 1
    BY <2>1
  <2> QED
    BY <2>1, <2>2, <2>3
<1>3. ASSUME IInv, [Next]_vars
      PROVE  [sts' < sts =>
                 /\ sts' = sts - 1 /\ sts' >= 1
                 /\ \A p \in Peer : Ordinal[p] = sts' => Empty(p)]_vars
  BY <1>1, <1>2, <1>3
<1> QED
  BY <1>3, Invariance, PTL DEF Spec, ShrinkKeepsData

=============================================================================
