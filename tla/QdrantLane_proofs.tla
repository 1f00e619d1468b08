------------------------- MODULE QdrantLane_proofs -------------------------
(***************************************************************************)
(* Proofs about the lane of shard commands of QdrantCluster: what is       *)
(* outstanding is one command and the status records it, a back-off is     *)
(* explained by a condition, a switched-off rebalancer gives no command,   *)
(* and a dead replica is dropped last.  They hold for every number of      *)
(* peers, shards and replicas and for every bound; the assumptions on      *)
(* Faults, where there are any, are part of each theorem.                  *)
(***************************************************************************)
EXTENDS QdrantCluster_proofs, FiniteSetTheorems

(***************************************************************************)
(* What an observation shows and what a plan proposes.                     *)
(***************************************************************************)

\* observe reads whole collections: all of them, unless a layout query failed.
\* Replication targets are those of the collections, unless a query failed.
LEMMA ObserveParts ==
    ASSUME NEW o \in {FullObservation} \cup PartialObservations
    PROVE  /\ \E C \in SUBSET Collection :
                 /\ o.shards = {s \in Shard : s[1] \in C}
                 /\ o.transfers = {t \in transfers : t.shard[1] \in C}
                 /\ "partialObserve" \notin Faults => C = Collection
           /\ "rfUnread" \notin Faults => \A c \in Collection : o.rf[c] = RF[c]
<1>1. \E C \in SUBSET Collection, R \in SUBSET Collection, z \in BOOLEAN :
          /\ o = Observe(C, R, z)
          /\ "partialObserve" \notin Faults => C = Collection
          /\ "rfUnread" \notin Faults => R = Collection
  BY DEF FullObservation, PartialObservations
<1>2. PICK C \in SUBSET Collection, R \in SUBSET Collection, z \in BOOLEAN :
          /\ o = Observe(C, R, z)
          /\ "partialObserve" \notin Faults => C = Collection
          /\ "rfUnread" \notin Faults => R = Collection
  BY <1>1
<1>3. /\ o.shards = {s \in Shard : s[1] \in C}
      /\ o.transfers = {t \in transfers : t.shard[1] \in C}
      /\ \A c \in Collection : o.rf[c] = IF c \in R THEN RF[c] ELSE 0
  BY <1>2 DEF Observe
<1> QED
  BY <1>2, <1>3

\* A steady-state plan proposes nothing that is already done.
LEMMA PlanUnstarted ==
    ASSUME NEW o \in ObservationType, NEW m \in Plan(o)
    PROVE  m.shard \in o.shards /\ ~ MoveCompleted(o, m)
<1>1. ASSUME NEW n \in ReplicationPlan(o)
      PROVE  n.shard \in o.shards /\ ~ MoveCompleted(o, n)
  <2>1. n.op = "Replicate" /\ n.shard \in o.shards /\ n.to \in ReplicationTargets(o, n.shard)
    BY EarliestIsMember DEF ReplicationPlan
  <2> QED
    BY <2>1 DEF MoveCompleted, ReplicationTargets
<1>2. ASSUME NEW n \in DeadDropPlan(o)
      PROVE  n.shard \in o.shards /\ ~ MoveCompleted(o, n)
  BY DEF DeadDropPlan, MoveCompleted
<1>3. ASSUME NEW n \in CountPlan(o)
      PROVE  n.shard \in o.shards /\ ~ MoveCompleted(o, n)
  BY DEF CountPlan, HeldBy, MoveCompleted
<1>4. ASSUME NEW n \in SizePlan(o)
      PROVE  n.shard \in o.shards /\ ~ MoveCompleted(o, n)
  <2>1. n \in SizeCandidates(o)
    BY EarliestIsMember DEF SizePlan
  <2> QED
    BY <2>1 DEF SizeCandidates, HeldBy, MoveCompleted
<1> QED
  BY <1>1, <1>2, <1>3, <1>4, EarliestIsMember DEF Plan, RebalancePlan

\* A steady-state plan that takes a dead replica as its source drops it, and only
\* when the Active ones reach the replication target it has read.
LEMMA PlanDropsDeadLast ==
    ASSUME NEW o \in ObservationType, NEW m \in Plan(o), o.rep[m.shard][m.from] = "Dead"
    PROVE  Cardinality(ActiveHolders(o, m.shard)) >= o.rf[m.shard[1]]
<1>1. m \notin ReplicationPlan(o)
  BY DEF ReplicationPlan, ActiveHolders
<1>2. ASSUME m \in RebalancePlan(o)
      PROVE  FALSE
  <2>1. ~ HasDead(o) /\ (m \in CountPlan(o) \/ m \in SizePlan(o))
    BY <1>2, EarliestIsMember DEF RebalancePlan
  <2>2. m.shard \in o.shards /\ m \in Move
    BY PlanUnstarted, PlanType
  <2> QED
    BY <2>1, <2>2 DEF HasDead, Move
<1>3. m \in DeadDropPlan(o)
  BY <1>1, <1>2, EarliestIsMember DEF Plan
<1> QED
  BY <1>3 DEF DeadDropPlan

\* A drain plan empties the leaving peer of a replica that it still holds.
LEMMA DrainPlanUnstarted ==
    ASSUME NEW o \in ObservationType, NEW t \in o.peers, NEW k \in SUBSET o.peers,
           NEW m \in DrainPlan(o, t, k)
    PROVE  m.shard \in o.shards /\ m.from = t /\ ~ MoveCompleted(o, m)
<1>1. /\ m.shard \in HeldBy(o, t) /\ m.from = t
      /\ m.op = "Move" \/ m.op = "Drop"
  BY DEF DrainPlan
<1> QED
  BY <1>1 DEF HeldBy, MoveCompleted

(***************************************************************************)
(* What a pass makes of the recorded command.                              *)
(***************************************************************************)
Issuing == pc \in {"issue", "drainIssue"}

\* The sources of a new record: what the steady path and the drain may plan.
Planned(o) ==
    Plan(o) \cup UNION {DrainPlan(o, t, Keepers(o, spec.replicas)) : t \in Target}

\* The recorded command after a pass that decided from o: as it was, given up, or
\* replaced by a planned one once it was settled.
RecordAfter(o) ==
    \/ status'.activeMove = status.activeMove /\ ~ Issuing'
    \/ SettleState(o) \in {"settled", "lost"} /\ status'.activeMove = NoMove /\ ~ Issuing'
    \/ SettleState(o) = "settled" /\ status'.activeMove \in Planned(o)

\* Settle keeps the record, or gives it up when it is settled or lost.
LEMMA SettleRecord ==
    ASSUME NEW st \in Status, NEW o
    PROVE  \/ Settle(st, o).activeMove = st.activeMove
           \/ SettleState(o) \in {"settled", "lost"} /\ Settle(st, o).activeMove = NoMove
<1>1. MoveFailed(st).activeMove = NoMove
  BY EscalateType DEF MoveFailed, Status
<1>2. [st EXCEPT !.activeMove = NoMove, !.backoff = 0, !.degraded = "None"].activeMove = NoMove
  BY DEF Status
<1> QED
  BY <1>1, <1>2 DEF Settle

\* A steady pass keeps or drops the record, or replaces it by a planned command,
\* which it goes on to issue only if rebalancing is switched on.
LEMMA SteadyRecord ==
    ASSUME TypeOK, SteadyPass
    PROVE  /\ \E o \in {FullObservation} \cup PartialObservations :
                 /\ RecordAfter(o)
                 /\ Issuing' => status'.activeMove \in Plan(o)
           /\ expired' = (expired /\ status'.activeMove = status.activeMove)
           /\ Issuing' => pc' = "issue" /\ spec.rebalance
<1>1. PICK o \in {FullObservation} \cup PartialObservations : Rebalance(o)
  BY DEF SteadyPass
<1> DEFINE settled == Settle(NoDrain(status), o)
<1>2. /\ settled \in Status
      /\ \/ settled.activeMove = status.activeMove
         \/ SettleState(o) \in {"settled", "lost"} /\ settled.activeMove = NoMove
  <2>1. NoDrain(status) \in Status /\ NoDrain(status).activeMove = status.activeMove
    BY DEF NoDrain, TypeOK, Status
  <2> QED
    BY <2>1, SettleType, SettleRecord
<1>3. pc = "idle"
  BY DEF SteadyPass, SteadyGuard
<1> HIDE DEF settled
<1>4. ClearMoveFailed(settled).activeMove = settled.activeMove
  BY <1>2 DEF ClearMoveFailed, Status
<1>5. ASSUME NEW w, NEW n, UpdateStatus(w, {}, n)
      PROVE  /\ status' \in {status, w}
             /\ expired' = (expired /\ status'.activeMove = status.activeMove)
  BY <1>5 DEF UpdateStatus
<1>6. ASSUME NEW w, NEW n, UpdateStatus(w, {}, n), pc' = pc, w.activeMove = settled.activeMove
      PROVE  RecordAfter(o) /\ ~ Issuing'
  BY <1>2, <1>3, <1>5, <1>6 DEF RecordAfter, Issuing
<1>7. ASSUME SettleState(o) = "settled", spec.rebalance, NEW m \in Plan(o), NEW n,
             UpdateStatus([settled EXCEPT !.activeMove = m], {}, n),
             \/ pc' = IF status' = [settled EXCEPT !.activeMove = m] THEN "issue" ELSE pc
             \/ pc' = pc
      PROVE  /\ RecordAfter(o)
             /\ Issuing' => status'.activeMove \in Plan(o) /\ pc' = "issue"
  <2>1. [settled EXCEPT !.activeMove = m].activeMove = m
    BY <1>2 DEF Status
  <2>2. status' \in {status, [settled EXCEPT !.activeMove = m]}
    BY <1>5, <1>7
  <2> QED
    BY <1>3, <1>7, <2>1, <2>2 DEF RecordAfter, Issuing, Planned
<1>8. /\ RecordAfter(o)
      /\ Issuing' => status'.activeMove \in Plan(o) /\ pc' = "issue" /\ spec.rebalance
  BY <1>1, <1>4, <1>6, <1>7 DEF Rebalance, settled
<1>9. expired' = (expired /\ status'.activeMove = status.activeMove)
  BY <1>1, <1>5 DEF Rebalance
<1> QED
  BY <1>8, <1>9

\* A drain pass likewise; what it goes on to issue takes a replica off the peer of
\* the highest ordinal, and was planned when every replica in sight was Active.
LEMMA DrainRecord ==
    ASSUME TypeOK, DrainPass
    PROVE  /\ \E o \in {FullObservation} \cup PartialObservations :
                 /\ RecordAfter(o)
                 /\ Issuing' => AllShardsActive(o) /\ status'.activeMove \in Planned(o)
           /\ expired' = (expired /\ status'.activeMove = status.activeMove)
           /\ Issuing' => pc' = "drainIssue" /\ Ordinal[status'.activeMove.from] = sts - 1
<1>1. PICK o \in {FullObservation} \cup PartialObservations, seen \in BOOLEAN :
          LET cost == ObservationCost(o) + ReshardCost(seen)
          IN  \/ /\ UpdateStatus(Draining(Settle(status, o)), {}, cost)
                 /\ pc' = pc
              \/ /\ SettleState(o) = "settled"
                 /\ \/ DrainUnparseable(o, cost)
                    \/ ResumeShrink(cost)
                    \/ \E target \in Target : DrainPeer(o, target, cost)
  BY DEF DrainPass
<1> DEFINE cost == ObservationCost(o) + ReshardCost(seen)
           published == Draining(Settle(status, o))
           blocked == [published EXCEPT !.degraded = "DrainBlocked"]
<1>2. /\ published \in Status /\ blocked.activeMove = published.activeMove
      /\ \/ published.activeMove = status.activeMove
         \/ SettleState(o) \in {"settled", "lost"} /\ published.activeMove = NoMove
  <2>1. Settle(status, o) \in Status
    BY SettleType DEF TypeOK
  <2>2. published \in Status /\ published.activeMove = Settle(status, o).activeMove
    BY <2>1 DEF Draining, Status
  <2>3. blocked.activeMove = published.activeMove
    BY <2>2 DEF Status
  <2> QED
    BY <2>2, <2>3, SettleRecord DEF TypeOK
<1>3. pc = "idle"
  BY DEF DrainPass, DrainGuard
<1> HIDE DEF published, cost, blocked
<1>4. ASSUME NEW w, NEW P, NEW n, UpdateStatus(w, P, n)
      PROVE  /\ status' \in {status, w} \cup P
             /\ expired' = (expired /\ status'.activeMove = status.activeMove)
  BY <1>4 DEF UpdateStatus
<1>5. ASSUME NEW w \in {published, blocked}, NEW P \in SUBSET {published}, NEW n,
             UpdateStatus(w, P, n), pc' \in {pc, "remove"}
      PROVE  RecordAfter(o) /\ ~ Issuing'
  BY <1>2, <1>3, <1>4, <1>5 DEF RecordAfter, Issuing
<1>6. ASSUME ResumeShrink(cost)
      PROVE  /\ RecordAfter(o) /\ ~ Issuing'
             /\ expired' = (expired /\ status'.activeMove = status.activeMove)
  BY <1>6 DEF ResumeShrink, RecordAfter, Issuing, TypeOK
<1>7. ASSUME SettleState(o) = "settled", NEW target \in Target, DrainPeer(o, target, cost)
      PROVE  /\ RecordAfter(o)
             /\ Issuing' => /\ AllShardsActive(o)
                            /\ status'.activeMove \in Planned(o) /\ pc' = "drainIssue"
                            /\ Ordinal[status'.activeMove.from] = sts - 1
  <2> DEFINE keepers == Keepers(o, spec.replicas)
  <2>1. ASSUME NEW m \in DrainPlan(o, target, keepers),
               UpdateStatus([published EXCEPT !.activeMove = m], {published}, cost),
               pc' = IF status' = [published EXCEPT !.activeMove = m]
                     THEN "drainIssue" ELSE pc
        PROVE  /\ RecordAfter(o)
               /\ Issuing' => /\ status'.activeMove \in Planned(o) /\ pc' = "drainIssue"
                              /\ Ordinal[status'.activeMove.from] = sts - 1
    <3>1. [published EXCEPT !.activeMove = m].activeMove = m
      BY <1>2 DEF Status
    <3>2. m \in Planned(o)
      BY DEF Planned
    <3>3. Ordinal[m.from] = sts - 1
      <4>1. m.from = target
        BY DEF DrainPlan
      <4> QED
        BY <4>1 DEF Target
    <3>4. status' \in {status, [published EXCEPT !.activeMove = m], published}
      BY <1>4, <2>1
    <3>5. CASE status' = [published EXCEPT !.activeMove = m]
      BY <1>7, <2>1, <3>1, <3>2, <3>3, <3>5 DEF RecordAfter, Issuing
    <3>6. CASE status' # [published EXCEPT !.activeMove = m]
      BY <1>2, <1>3, <2>1, <3>4, <3>6 DEF RecordAfter, Issuing
    <3> QED
      BY <3>5, <3>6
  <2>2. \/ UpdateStatus(published, {}, cost) /\ pc' \in {pc, "remove"}
        \/ UpdateStatus(blocked, {published}, cost) /\ pc' = pc
        \/ AllShardsActive(o) /\ \E m \in DrainPlan(o, target, keepers) :
              /\ UpdateStatus([published EXCEPT !.activeMove = m], {published}, cost)
              /\ pc' = IF status' = [published EXCEPT !.activeMove = m]
                       THEN "drainIssue" ELSE pc
    BY <1>7 DEF DrainPeer, published, blocked
  <2> QED
    BY <1>5, <2>1, <2>2
<1>8. ASSUME DrainUnparseable(o, cost)
      PROVE  RecordAfter(o) /\ ~ Issuing'
  <2>1. UpdateStatus(blocked, {published}, cost + 1) /\ pc' = pc
    BY <1>8 DEF DrainUnparseable, published, blocked
  <2> QED
    BY <1>5, <2>1
<1>9. \/ UpdateStatus(published, {}, cost) /\ pc' = pc
      \/ /\ SettleState(o) = "settled"
         /\ \/ DrainUnparseable(o, cost)
            \/ ResumeShrink(cost)
            \/ \E target \in Target : DrainPeer(o, target, cost)
  BY <1>1 DEF published, cost
<1>10. expired' = (expired /\ status'.activeMove = status.activeMove)
  BY <1>4, <1>6, <1>9 DEF DrainUnparseable, DrainPeer
<1> QED
  BY <1>5, <1>6, <1>7, <1>8, <1>9, <1>10

(***************************************************************************)
(* The invariant of the lane.  It needs every refused command to be        *)
(* reported as refused ("responseLost" is not among the faults): a command *)
(* that is at work although its call failed is in no record.  And it needs *)
(* the server to take up a command before the deadline of                  *)
(* settleActiveMove ("lateStart" is not among the faults): a command that  *)
(* starts after it was given up is in no record either.                    *)
(***************************************************************************)

\* A command that has not had its effect: settleActiveMove does not take it for
\* completed.
Unstarted(m) ==
    IF m.op = "Drop" THEN rep[m.shard][m.from] # "None"
    ELSE rep[m.shard][m.to] # "Active"

\* What the server has accepted and not begun is the recorded command, and the
\* placement does not show it as completed.
InboxTracked == \A m \in inbox : m = status.activeMove /\ Unstarted(m)

\* A pass that is about to issue finds nothing accepted before.
LaneOpen == Issuing => inbox = {}

\* The deadline of a command passes only after the server has taken it up.
DeadlineFar == Issuing \/ inbox # {} => ~ expired

\* Transfers beside a command that is not yet begun belong to other collections:
\* those whose layout could not be read when it was planned.
TransfersElsewhere ==
    \A t \in transfers :
        /\ Issuing => t.shard[1] # status.activeMove.shard[1]
        /\ \A m \in inbox : t.shard[1] # m.shard[1]

LaneInv == InboxTracked /\ LaneOpen /\ DeadlineFar /\ TransfersElsewhere

\* Only a command that the server has taken up or forgotten is settled or lost.
LEMMA SettledTakenUp ==
    ASSUME IInv, LaneInv, NEW o \in {FullObservation} \cup PartialObservations,
           SettleState(o) \in {"settled", "lost"}
    PROVE  inbox = {} /\ o.transfers = {}
<1>1. o.transfers = {}
  BY DEF SettleState
<1>2. ASSUME NEW m \in inbox
      PROVE  FALSE
  <2>1. m = status.activeMove /\ Unstarted(m) /\ ~ expired /\ m \in Move
    BY DEF LaneInv, InboxTracked, DeadlineFar, IInv, TypeOK
  <2>2. m # NoMove
    BY <2>1 DEF Move, NoMove
  <2>3. MoveCompleted(o, m)
    BY <1>1, <2>1, <2>2 DEF SettleState
  <2>4. o.rep = rep
    BY ObserveType DEF IInv
  <2>5. m.op = "Drop" \/ m.op = "Replicate" \/ m.op = "Move"
    BY <2>1 DEF Move
  <2> QED
    BY <2>1, <2>3, <2>4, <2>5 DEF MoveCompleted, Unstarted
<1> QED
  BY <1>1, <1>2

\* What a pass plans is a command of an observed shard that is not completed.
LEMMA PlannedUnstarted ==
    ASSUME TypeOK, NEW o \in {FullObservation} \cup PartialObservations, NEW m \in Planned(o)
    PROVE  m \in Move /\ m.shard \in o.shards /\ ~ MoveCompleted(o, m)
<1>1. o \in ObservationType /\ o.peers = peers
  BY ObserveType
<1>2. CASE m \in Plan(o)
  BY <1>1, <1>2, PlanType, PlanUnstarted
<1>3. CASE m \notin Plan(o)
  <2>1. PICK t \in Target : m \in DrainPlan(o, t, Keepers(o, spec.replicas))
    BY <1>3 DEF Planned
  <2>2. t \in o.peers /\ Keepers(o, spec.replicas) \subseteq o.peers
    BY <1>1 DEF Target, Keepers
  <2> QED
    BY <1>1, <2>1, <2>2, DrainPlanType, DrainPlanUnstarted
<1> QED
  BY <1>2, <1>3

\* A pass that leaves the Qdrant cluster alone preserves the invariant of the lane.
LEMMA RecordLane ==
    ASSUME IInv, LaneInv, UNCHANGED qdrant,
           NEW o \in {FullObservation} \cup PartialObservations, RecordAfter(o),
           Issuing' => status'.activeMove \in Planned(o),
           expired' = (expired /\ status'.activeMove = status.activeMove)
    PROVE  LaneInv'
<1>1. CASE status'.activeMove = status.activeMove /\ ~ Issuing'
  BY <1>1 DEF LaneInv, InboxTracked, LaneOpen, DeadlineFar, TransfersElsewhere, Unstarted, qdrant
<1>2. CASE SettleState(o) \in {"settled", "lost"} /\ ~ Issuing'
  BY <1>2, SettledTakenUp DEF LaneInv, InboxTracked, LaneOpen, DeadlineFar, TransfersElsewhere, qdrant
<1>3. CASE SettleState(o) = "settled" /\ status'.activeMove \in Planned(o)
  <2> DEFINE m == status'.activeMove
  <2>1. inbox = {} /\ o.transfers = {}
    BY <1>3, SettledTakenUp
  <2>2. m \in Move /\ m.shard \in o.shards /\ ~ MoveCompleted(o, m)
    BY <1>3, PlannedUnstarted DEF IInv
  <2>3. m # status.activeMove
    BY <1>3, <2>1, <2>2 DEF SettleState, Move, NoMove
  <2>4. ~ expired'
    BY <2>3
  <2>5. ASSUME NEW t \in transfers
        PROVE  t.shard[1] # m.shard[1]
    BY <2>1, <2>2, ObserveParts
  <2> QED
    BY <2>1, <2>4, <2>5 DEF LaneInv, InboxTracked, LaneOpen, DeadlineFar, TransfersElsewhere, qdrant
<1> QED
  BY <1>1, <1>2, <1>3 DEF RecordAfter

(***************************************************************************)
(* Every step preserves the invariant of the lane.                         *)
(***************************************************************************)

\* A step that keeps the record, ends or continues a pass without issuing, and gives
\* the server nothing new.
LEMMA IdleLane ==
    ASSUME LaneInv, UNCHANGED <<rep, transfers>>, inbox' \subseteq inbox, ~ Issuing',
           status'.activeMove = status.activeMove,
           expired' => expired \/ inbox = {}
    PROVE  LaneInv'
BY DEF LaneInv, InboxTracked, LaneOpen, DeadlineFar, TransfersElsewhere, Unstarted

\* A status write that keeps the record in all it may leave behind.
LEMMA UpdateKeepsRecord ==
    ASSUME NEW w, NEW P, NEW n, UpdateStatus(w, P, n),
           \A st \in {w} \cup P : st.activeMove = status.activeMove
    PROVE  status'.activeMove = status.activeMove /\ (expired' => expired)
BY DEF UpdateStatus

\* The passes that only report, the removal of a peer, the shrink and the crash
\* keep the record and ask the server for no transfer.
LEMMA ReportRecord ==
    ASSUME TypeOK,
           \/ ScaleOut \/ SteadyHold \/ DrainUnobservable
           \/ RemovePeer \/ ShrinkOne \/ AbandonPass
    PROVE  /\ UNCHANGED <<rep, transfers>> /\ inbox' \subseteq inbox /\ ~ Issuing'
           /\ status'.activeMove = status.activeMove /\ (expired' => expired)
<1>1. /\ NoDrain(status).activeMove = status.activeMove
      /\ Draining(status).activeMove = status.activeMove
      /\ [Draining(status) EXCEPT !.degraded = "DrainBlocked"].activeMove = status.activeMove
      /\ [Escalate(status) EXCEPT !.degraded = "DrainBlocked"].activeMove = status.activeMove
  BY DEF NoDrain, Draining, Escalate, TypeOK, Status
<1>2. CASE ScaleOut \/ SteadyHold
  BY <1>1, <1>2, UpdateKeepsRecord
     DEF ScaleOut, SteadyHold, SteadyGuard, Issuing, qdrant
<1>3. CASE DrainUnobservable
  <2>1. status'.activeMove = status.activeMove /\ (expired' => expired)
    BY <1>1, <1>3 DEF DrainUnobservable, UpdateStatus
  <2> QED
    BY <1>3, <2>1 DEF DrainUnobservable, DrainGuard, Issuing, qdrant
<1>4. CASE RemovePeer
  <2>1. inbox' \subseteq inbox /\ ~ Issuing' /\ UNCHANGED <<rep, transfers>>
    BY <1>4 DEF RemovePeer, RemoveFailed, EndPass, Detach, Issuing
  <2>2. status'.activeMove = status.activeMove /\ (expired' => expired)
    <3>1. \/ UNCHANGED <<status, expired>>
          \/ \E n \in {0, 1} : RemoveFailed(n)
      BY <1>4 DEF RemovePeer
    <3> DEFINE failed == [Escalate(status) EXCEPT !.degraded = "DrainBlocked"]
    <3>2. ASSUME NEW n \in {0, 1}, RemoveFailed(n)
          PROVE  UpdateStatus(failed, {}, n)
      BY <3>2 DEF RemoveFailed
    <3>3. failed.activeMove = status.activeMove
      BY <1>1
    <3> HIDE DEF failed
    <3> QED
      BY <3>1, <3>2, <3>3, UpdateKeepsRecord
  <2> QED
    BY <2>1, <2>2
<1>5. CASE ShrinkOne \/ AbandonPass
  BY <1>5 DEF ShrinkOne, AbandonPass, EndPass, Issuing, qdrant
<1> QED
  BY <1>2, <1>3, <1>4, <1>5

\* So they preserve the invariant of the lane.
LEMMA ReportLane ==
    ASSUME IInv, LaneInv,
           \/ ScaleOut \/ SteadyHold \/ DrainUnobservable
           \/ RemovePeer \/ ShrinkOne \/ AbandonPass
    PROVE  LaneInv'
BY ReportRecord, IdleLane DEF IInv

\* A steady pass or a drain pass.
LEMMA PassLane ==
    ASSUME IInv, LaneInv, SteadyPass \/ DrainPass
    PROVE  LaneInv'
<1>1. UNCHANGED qdrant
  BY DEF SteadyPass, DrainPass
<1> QED
  BY <1>1, SteadyRecord, DrainRecord, RecordLane DEF IInv, Planned

\* issueActiveMove: the command that the server accepts is the one of the record.
LEMMA IssueLane ==
    ASSUME IInv, LaneInv, "responseLost" \notin Faults, IssueCommand
    PROVE  LaneInv'
<1>1. inbox = {} /\ ~ expired /\ ~ Issuing'
  BY DEF LaneInv, LaneOpen, DeadlineFar, Issuing, IssueCommand, EndPass
<1>2. CASE inbox' = inbox
  <2>1. expired' => expired
    BY <1>1, <1>2 DEF IssueCommand, RecordFailure, UpdateStatus
  <2> QED
    BY <1>1, <1>2 DEF LaneInv, InboxTracked, LaneOpen, DeadlineFar, TransfersElsewhere
<1>3. CASE inbox' # inbox
  <2>1. /\ Admissible(status.activeMove) /\ inbox' = {status.activeMove}
        /\ UNCHANGED <<status, expired, rep, transfers>>
    BY <1>1, <1>3 DEF IssueCommand
  <2>2. Unstarted(status.activeMove)
    BY <2>1 DEF Admissible, Unstarted
  <2>3. \A t \in transfers : t.shard[1] # status.activeMove.shard[1]
    BY DEF LaneInv, TransfersElsewhere, Issuing, IssueCommand
  <2> QED
    BY <1>1, <2>1, <2>2, <2>3
       DEF LaneInv, InboxTracked, LaneOpen, DeadlineFar, TransfersElsewhere, Unstarted
<1> QED
  BY <1>2, <1>3

\* The server takes a command up or drops it: nothing else was accepted.
LEMMA TakeUpLane ==
    ASSUME IInv, LaneInv, NEW m \in inbox, ApplyCommand(m) \/ DiscardCommand(m)
    PROVE  LaneInv'
<1>1. inbox' = {} /\ ~ Issuing'
  BY DEF LaneInv, InboxTracked, LaneOpen, Issuing, ApplyCommand, DiscardCommand
<1> QED
  BY <1>1 DEF LaneInv, InboxTracked, LaneOpen, DeadlineFar, TransfersElsewhere

\* A transfer that ends belongs to another collection than an accepted command.
LEMMA TransferLane ==
    ASSUME IInv, LaneInv, NEW t \in transfers, FinishTransfer(t) \/ AbortTransfer(t)
    PROVE  LaneInv'
<1>1. /\ transfers' \subseteq transfers
      /\ UNCHANGED <<status, inbox, pc, expired>>
  BY DEF FinishTransfer, AbortTransfer
<1>2. \A s \in Shard : s # t.shard => rep'[s] = rep[s]
  BY DEF FinishTransfer, AbortTransfer, IInv, TypeOK
<1>3. ASSUME NEW m \in inbox
      PROVE  m = status'.activeMove /\ Unstarted(m)'
  <2>1. m.shard \in Shard /\ m.shard # t.shard
    BY DEF LaneInv, TransfersElsewhere, IInv, TypeOK, Move
  <2> QED
    BY <1>1, <1>2, <2>1 DEF LaneInv, InboxTracked, Unstarted
<1> QED
  BY <1>1, <1>3 DEF LaneInv, InboxTracked, LaneOpen, DeadlineFar, TransfersElsewhere, Issuing

\* A replica that dies makes no command look completed.
LEMMA ReplicaDiesLane ==
    ASSUME IInv, LaneInv, NEW s \in Shard, NEW p \in Peer, ReplicaDies(s, p)
    PROVE  LaneInv'
<1>1. /\ rep' = [rep EXCEPT ![s][p] = "Dead"]
      /\ UNCHANGED <<status, inbox, transfers, pc, expired>>
  BY DEF ReplicaDies
<1>2. ASSUME NEW m \in inbox
      PROVE  m = status'.activeMove /\ Unstarted(m)'
  <2>1. m \in Move /\ m.shard \in Shard /\ m.from \in Peer
    BY DEF IInv, TypeOK, Move
  <2>2. m.op # "Drop" => m.to \in Peer
    BY DEF IInv, TypeOK, InboxToMembers
  <2> QED
    BY <1>1, <2>1, <2>2 DEF LaneInv, InboxTracked, Unstarted, IInv, TypeOK
<1> QED
  BY <1>1, <1>2 DEF LaneInv, InboxTracked, LaneOpen, DeadlineFar, TransfersElsewhere, Issuing

\* Pods, users, collections and time.
LEMMA SurroundingsLane ==
    ASSUME LaneInv, "lateStart" \notin Faults,
           \/ \E k \in 0..(MaxReplicas - 1) : PodStart(k)
           \/ \E p \in Peer : Join(p)
           \/ (\E n \in 1..MaxReplicas : SetReplicas(n)) \/ SwitchRebalance
           \/ DeadlinePasses \/ ReshardBegin \/ ReshardComplete
           \/ UNCHANGED vars
    PROVE  LaneInv'
<1>1. /\ UNCHANGED <<status, rep, transfers, inbox, pc>>
      /\ expired' = expired \/ (pc = "idle" /\ inbox = {})
  BY DEF PodStart, Join, SetReplicas, SwitchRebalance, DeadlinePasses, Fault,
         ReshardBegin, ReshardComplete, kube, qdrant, vars
<1> QED
  BY <1>1 DEF LaneInv, InboxTracked, LaneOpen, DeadlineFar, TransfersElsewhere, Unstarted, Issuing

\* Every step of the system preserves the invariant of the lane.
LEMMA NextLane ==
    ASSUME IInv, LaneInv, "responseLost" \notin Faults, "lateStart" \notin Faults, [Next]_vars
    PROVE  LaneInv'
<1>1. CASE Operator \/ AbandonPass
  BY <1>1, ReportLane, PassLane, IssueLane DEF Operator
<1>2. CASE Server
  BY <1>2, TakeUpLane, TransferLane DEF Server
<1>3. CASE \E s \in Shard, p \in Peer : ReplicaDies(s, p)
  BY <1>3, ReplicaDiesLane
<1>4. CASE \/ \E k \in 0..(MaxReplicas - 1) : PodStart(k)
           \/ \E p \in Peer : Join(p)
           \/ (\E n \in 1..MaxReplicas : SetReplicas(n)) \/ SwitchRebalance
           \/ DeadlinePasses \/ ReshardBegin \/ ReshardComplete
           \/ UNCHANGED vars
  BY <1>4, SurroundingsLane
<1> QED
  BY <1>1, <1>2, <1>3, <1>4 DEF Next

\* The invariant of the lane holds in every reachable state.
LEMMA LaneInvariance ==
    ASSUME "responseLost" \notin Faults, "lateStart" \notin Faults
    PROVE  Spec => []LaneInv
<1>1. Init => LaneInv
  BY DEF Init, LaneInv, InboxTracked, LaneOpen, DeadlineFar, TransfersElsewhere, Issuing
<1>2. IInv /\ LaneInv /\ [Next]_vars => LaneInv'
  BY NextLane
<1> QED
  BY <1>1, <1>2, Invariance, PTL DEF Spec

(***************************************************************************)
(* One command at a time.  It needs every layout to be readable, too       *)
(* ("partialObserve" is not among the faults): the transfers of a          *)
(* collection that cannot be read are not seen.                            *)
(***************************************************************************)
TransfersTracked == \A t \in transfers : t = status.activeMove

\* So an accepted command, or one about to be issued, has no transfer beside it.
LEMMA LaneEmpty ==
    ASSUME LaneInv, TransfersTracked, Issuing \/ inbox # {}
    PROVE  transfers = {}
BY DEF LaneInv, InboxTracked, TransfersElsewhere, TransfersTracked

\* Every step keeps the transfers to the recorded command.
LEMMA NextTracked ==
    ASSUME IInv, LaneInv, TransfersTracked, "partialObserve" \notin Faults, [Next]_vars
    PROVE  TransfersTracked'
<1>1. ASSUME UNCHANGED transfers, status'.activeMove = status.activeMove
      PROVE  TransfersTracked'
  BY <1>1 DEF TransfersTracked
<1>2. CASE \/ ScaleOut \/ SteadyHold \/ DrainUnobservable
           \/ RemovePeer \/ ShrinkOne \/ AbandonPass
  BY <1>1, <1>2, ReportRecord DEF IInv
<1>3. CASE SteadyPass \/ DrainPass
  <2>1. UNCHANGED transfers
    BY <1>3 DEF SteadyPass, DrainPass, qdrant
  <2>2. PICK o \in {FullObservation} \cup PartialObservations : RecordAfter(o)
    BY <1>3, SteadyRecord, DrainRecord DEF IInv
  <2>3. \A t \in transfers : t \in o.transfers
    <3>1. \A t \in transfers : t.shard[1] \in Collection
      BY DEF IInv, TypeOK, Move, Collection
    <3> QED
      BY <3>1, ObserveParts
  <2>4. CASE transfers = {}
    BY <2>1, <2>4 DEF TransfersTracked
  <2>5. CASE transfers # {}
    BY <1>1, <2>1, <2>2, <2>3, <2>5 DEF RecordAfter, SettleState
  <2> QED
    BY <2>4, <2>5
<1>4. CASE IssueCommand
  <2>1. transfers = {} /\ UNCHANGED transfers
    BY <1>4, LaneEmpty DEF IssueCommand, Issuing
  <2> QED
    BY <2>1 DEF TransfersTracked
<1>5. ASSUME NEW m \in inbox, ApplyCommand(m)
      PROVE  TransfersTracked'
  <2>1. transfers = {} /\ m = status.activeMove
    BY LaneEmpty DEF LaneInv, InboxTracked
  <2>2. transfers' \subseteq {m} /\ UNCHANGED status
    BY <1>5, <2>1 DEF ApplyCommand
  <2> QED
    BY <2>1, <2>2 DEF TransfersTracked
<1>6. ASSUME NEW t \in transfers, FinishTransfer(t) \/ AbortTransfer(t)
      PROVE  TransfersTracked'
  BY <1>6 DEF TransfersTracked, FinishTransfer, AbortTransfer
<1>7. CASE \/ \E m \in inbox : DiscardCommand(m)
           \/ \E s \in Shard, p \in Peer : ReplicaDies(s, p)
           \/ \E k \in 0..(MaxReplicas - 1) : PodStart(k)
           \/ \E p \in Peer : Join(p)
           \/ (\E n \in 1..MaxReplicas : SetReplicas(n)) \/ SwitchRebalance
           \/ DeadlinePasses \/ ReshardBegin \/ ReshardComplete
           \/ UNCHANGED vars
  BY <1>1, <1>7 DEF DiscardCommand, ReplicaDies, PodStart, Join, SetReplicas, SwitchRebalance,
         DeadlinePasses, ReshardBegin, ReshardComplete, kube, qdrant, vars
<1> QED
  BY <1>2, <1>3, <1>4, <1>5, <1>6, <1>7 DEF Next, Operator, Server

\* Every running transfer is the recorded command, in every reachable state.
LEMMA TrackedInvariance ==
    ASSUME "responseLost" \notin Faults, "lateStart" \notin Faults, "partialObserve" \notin Faults
    PROVE  Spec => []TransfersTracked
<1>1. Init => TransfersTracked
  BY DEF Init, TransfersTracked
<1>2. IInv /\ LaneInv /\ TransfersTracked /\ [Next]_vars => TransfersTracked'
  BY NextTracked
<1> QED
  BY <1>1, <1>2, Invariance, LaneInvariance, PTL DEF Spec

\* rebalance.go:235-262: if no call is reported as failed that took effect, no
\* command is taken up after its deadline and every layout can be read, every
\* outstanding command is the one in status.activeMove, through crashes, conflicts
\* and lost commands, and whatever users edit.
THEOREM CommandsTracked ==
    ASSUME "responseLost" \notin Faults, "lateStart" \notin Faults, "partialObserve" \notin Faults
    PROVE  Spec => []CommandTracked
<1>1. LaneInv /\ TransfersTracked => CommandTracked
  BY DEF LaneInv, InboxTracked, TransfersTracked, CommandTracked
<1> QED
  BY <1>1, LaneInvariance, TrackedInvariance, PTL

\* rebalance.go:68: under the same conditions at most one shard command is
\* outstanding cluster-wide: the drain and the rebalancer never overlap.
THEOREM OneCommandAtATime ==
    ASSUME "responseLost" \notin Faults, "lateStart" \notin Faults, "partialObserve" \notin Faults
    PROVE  Spec => []SingleLane
<1>1. ASSUME LaneInv, TransfersTracked
      PROVE  SingleLane
  <2>1. transfers = {} \/ inbox = {}
    BY <1>1, LaneEmpty
  <2>2. /\ transfers = {} \/ transfers = {status.activeMove}
        /\ inbox = {} \/ inbox = {status.activeMove}
    BY <1>1 DEF LaneInv, InboxTracked, TransfersTracked
  <2>3. Cardinality({}) = 0 /\ Cardinality({status.activeMove}) = 1
    BY FS_EmptySet, FS_Singleton
  <2> QED
    BY <2>1, <2>2, <2>3 DEF SingleLane
<1> QED
  BY <1>1, LaneInvariance, TrackedInvariance, PTL

(***************************************************************************)
(* The back-off and the condition that explains it.                        *)
(***************************************************************************)
Explained == {st \in Status : /\ st.backoff > 0 => st.degraded # "None"
                              /\ st.degraded = "MoveFailed" => st.backoff > 0}

StatusExplained == status \in Explained

\* A change of the record or of the drain flag explains nothing away; a blocked drain
\* and an escalation explain themselves; so do a cleared condition and a failed move.
LEMMA ExplainedWrites ==
    ASSUME NEW st \in Explained
    PROVE  /\ NoDrain(st) \in Explained /\ Draining(st) \in Explained
           /\ [st EXCEPT !.degraded = "DrainBlocked"] \in Explained
           /\ \A m \in Move : [st EXCEPT !.activeMove = m] \in Explained
           /\ ClearMoveFailed(st) \in Explained
           /\ MoveFailed(st) \in Explained
           /\ [Escalate(st) EXCEPT !.degraded = "DrainBlocked"] \in Explained
           /\ \A o : Settle(st, o) \in Explained
<1>1. NoDrain(st) \in Explained /\ Draining(st) \in Explained
  BY DEF Explained, NoDrain, Draining, Status
<1>2. [st EXCEPT !.degraded = "DrainBlocked"] \in Explained
  BY DEF Explained, Status, Reason
<1>3. ASSUME NEW m \in Move
      PROVE  [st EXCEPT !.activeMove = m] \in Explained
  BY DEF Explained, Status
<1> DEFINE cleared == [st EXCEPT !.backoff = 0, !.degraded = "None"]
           settled == [st EXCEPT !.activeMove = NoMove, !.backoff = 0, !.degraded = "None"]
<1>4. cleared \in Explained /\ settled \in Explained
  <2>1. cleared \in Status /\ settled \in Status
    BY DEF Explained, Status, Reason
  <2>2. /\ cleared.backoff = 0 /\ cleared.degraded = "None"
        /\ settled.backoff = 0 /\ settled.degraded = "None"
    BY DEF Explained, Status
  <2> HIDE DEF cleared, settled
  <2> QED
    BY <2>1, <2>2 DEF Explained
<1>5. ClearMoveFailed(st) \in Explained
  <2>1. ClearMoveFailed(st) = IF st.degraded = "MoveFailed" THEN cleared ELSE st
    BY DEF ClearMoveFailed
  <2> QED
    BY <1>4, <2>1
<1> DEFINE up == Escalate(st)
<1>6. up \in Status /\ up.backoff > 0
  <2>1. up \in Status
    BY EscalateType DEF Explained
  <2>2. up.backoff = st.backoff + 1
    BY DEF Escalate, Explained, Status
  <2> QED
    BY <2>1, <2>2 DEF Explained, Status
<1>7. MoveFailed(st) = [up EXCEPT !.activeMove = NoMove, !.degraded = "MoveFailed"]
  BY DEF MoveFailed
<1>8. /\ MoveFailed(st) \in Explained
      /\ [up EXCEPT !.degraded = "DrainBlocked"] \in Explained
  <2> HIDE DEF up
  <2> QED
    BY <1>6, <1>7 DEF Explained, Status, Reason
<1>9. ASSUME NEW o
      PROVE  Settle(st, o) \in Explained
  BY <1>8, <1>4 DEF Settle
<1> QED
  BY <1>1, <1>2, <1>3, <1>5, <1>8, <1>9

\* Status().Update leaves one of the statuses it was given, or the old one.
LEMMA ExplainedUpdate ==
    ASSUME status \in Explained, NEW w \in Explained, NEW P \in SUBSET Explained, NEW n,
           UpdateStatus(w, P, n)
    PROVE  status' \in Explained
BY DEF UpdateStatus

\* A steady pass writes an explained status.
LEMMA ExplainedSteady ==
    ASSUME TypeOK, status \in Explained, SteadyPass
    PROVE  status' \in Explained
<1>1. PICK o \in {FullObservation} \cup PartialObservations : Rebalance(o)
  BY DEF SteadyPass
<1> DEFINE settled == Settle(NoDrain(status), o)
<1>2. settled \in Explained
  <2>1. NoDrain(status) \in Explained
    BY ExplainedWrites
  <2> QED
    BY <2>1, ExplainedWrites
<1> HIDE DEF settled
<1>3. ClearMoveFailed(settled) \in Explained
  BY <1>2, ExplainedWrites
<1>4. ASSUME NEW m \in Plan(o)
      PROVE  [settled EXCEPT !.activeMove = m] \in Explained
  <2>1. m \in Move
    BY ObserveType, PlanType
  <2> QED
    BY <1>2, <2>1, ExplainedWrites
<1>5. \E w \in Explained : \E n : UpdateStatus(w, {}, n)
  BY <1>1, <1>2, <1>3, <1>4 DEF Rebalance, settled
<1> QED
  BY <1>5, ExplainedUpdate

\* So does a drain pass.
LEMMA ExplainedDrain ==
    ASSUME TypeOK, status \in Explained, DrainPass
    PROVE  status' \in Explained
<1>0. PICK o \in {FullObservation} \cup PartialObservations : \E cost :
          \/ UpdateStatus(Draining(Settle(status, o)), {}, cost)
          \/ DrainUnparseable(o, cost)
          \/ ResumeShrink(cost)
          \/ \E target \in Target : DrainPeer(o, target, cost)
  BY DEF DrainPass
<1>1. PICK cost :
          \/ UpdateStatus(Draining(Settle(status, o)), {}, cost)
          \/ DrainUnparseable(o, cost)
          \/ ResumeShrink(cost)
          \/ \E target \in Target : DrainPeer(o, target, cost)
  BY <1>0
<1> DEFINE published == Draining(Settle(status, o))
           blocked == [published EXCEPT !.degraded = "DrainBlocked"]
<1>2. published \in Explained
  <2>1. Settle(status, o) \in Explained
    BY ExplainedWrites
  <2> QED
    BY <2>1, ExplainedWrites
<1> HIDE DEF published
<1>3. blocked \in Explained
  BY <1>2, ExplainedWrites
<1> HIDE DEF blocked
<1>4. ASSUME NEW target \in Target,
             NEW m \in DrainPlan(o, target, Keepers(o, spec.replicas))
      PROVE  [published EXCEPT !.activeMove = m] \in Explained
  <2>1. o \in ObservationType /\ o.peers = peers
    BY ObserveType
  <2>2. target \in o.peers /\ Keepers(o, spec.replicas) \subseteq o.peers
    BY <2>1 DEF Target, Keepers
  <2>3. m \in Move
    BY <2>1, <2>2, DrainPlanType
  <2> QED
    BY <1>2, <2>3, ExplainedWrites
<1>5. CASE ResumeShrink(cost)
  BY <1>5 DEF ResumeShrink
<1>6. ASSUME NEW target \in Target, DrainPeer(o, target, cost)
      PROVE  \E w \in Explained : UpdateStatus(w, {}, cost) \/ UpdateStatus(w, {published}, cost)
  BY <1>2, <1>3, <1>4, <1>6 DEF DrainPeer, published, blocked
<1>7. CASE DrainUnparseable(o, cost)
  BY <1>2, <1>3, <1>7, ExplainedUpdate DEF DrainUnparseable, published, blocked
<1> QED
  BY <1>1, <1>2, <1>5, <1>6, <1>7, ExplainedUpdate DEF published

\* rebalance.go:252-260, :287-293, :364-381 and drain.go:270: whatever fails and in
\* whatever order, a lane that backs off has a Degraded condition, and MoveFailed is
\* never reported without a back-off.
THEOREM BackoffExplained == Spec => []BackoffVisible
<1>1. Init => StatusExplained
  BY DEF Init, StatusExplained, Explained, Status, Reason
<1>2. ASSUME TypeOK, StatusExplained, [Next]_vars
      PROVE  StatusExplained'
  <2> USE DEF StatusExplained
  <2>1. CASE SteadyPass \/ DrainPass
    BY <1>2, <2>1, ExplainedSteady, ExplainedDrain
  <2>2. CASE ScaleOut \/ SteadyHold
    <3>1. NoDrain(status) \in Explained
      BY <1>2, ExplainedWrites
    <3> QED
      BY <1>2, <2>2, <3>1, ExplainedUpdate DEF ScaleOut, SteadyHold
  <2>3. CASE DrainUnobservable
    <3>1. Draining(status) \in Explained
      BY <1>2, ExplainedWrites
    <3>2. [Draining(status) EXCEPT !.degraded = "DrainBlocked"] \in Explained
      BY <3>1, ExplainedWrites
    <3> QED
      BY <1>2, <2>3, <3>1, <3>2, ExplainedUpdate DEF DrainUnobservable
  <2>4. CASE IssueCommand
    <3>1. MoveFailed(status) \in Explained
      BY <1>2, ExplainedWrites
    <3> QED
      BY <1>2, <2>4, <3>1, ExplainedUpdate DEF IssueCommand, RecordFailure
  <2>5. CASE RemovePeer
    <3>1. [Escalate(status) EXCEPT !.degraded = "DrainBlocked"] \in Explained
      BY <1>2, ExplainedWrites
    <3> QED
      BY <1>2, <2>5, <3>1, ExplainedUpdate DEF RemovePeer, RemoveFailed
  <2>6. CASE \/ ShrinkOne \/ AbandonPass \/ Server
             \/ \E s \in Shard, p \in Peer : ReplicaDies(s, p)
    BY <1>2, <2>6 DEF ShrinkOne, AbandonPass, Server, ApplyCommand, DiscardCommand,
           FinishTransfer, AbortTransfer, ReplicaDies
  <2>7. CASE \/ \E k \in 0..(MaxReplicas - 1) : PodStart(k)
             \/ \E p \in Peer : Join(p)
             \/ (\E n \in 1..MaxReplicas : SetReplicas(n)) \/ SwitchRebalance
             \/ DeadlinePasses \/ ReshardBegin \/ ReshardComplete
             \/ UNCHANGED vars
    BY <1>2, <2>7 DEF PodStart, Join, SetReplicas, SwitchRebalance, DeadlinePasses,
           ReshardBegin, ReshardComplete, vars
  <2> QED
    BY <1>2, <2>1, <2>2, <2>3, <2>4, <2>5, <2>6, <2>7 DEF Next, Operator
<1>3. StatusExplained => BackoffVisible
  BY DEF StatusExplained, Explained, BackoffVisible
<1>4. IInv => TypeOK
  BY DEF IInv
<1> QED
  BY <1>1, <1>2, <1>3, <1>4, Invariance, PTL DEF Spec

(***************************************************************************)
(* What a command that is handed to the server has behind it.              *)
(***************************************************************************)

\* The operator alone hands over commands, the recorded one, when a pass issues it.
LEMMA IssuedRecorded ==
    ASSUME Next, NEW m \in inbox' \ inbox
    PROVE  Issuing /\ m = status.activeMove /\ UNCHANGED <<rep, spec, sts>>
<1>1. CASE IssueCommand
  BY <1>1 DEF IssueCommand, Issuing, kube
<1>2. CASE RemovePeer
  BY <1>2 DEF RemovePeer, Detach
<1>3. CASE ScaleOut \/ SteadyHold \/ SteadyPass \/ DrainUnobservable \/ DrainPass
           \/ ShrinkOne \/ AbandonPass
  BY <1>3 DEF ScaleOut, SteadyHold, SteadyPass, DrainUnobservable, DrainPass, ShrinkOne,
         AbandonPass, qdrant
<1>4. CASE Server \/ \E s \in Shard, p \in Peer : ReplicaDies(s, p)
  BY <1>4 DEF Server, ApplyCommand, DiscardCommand, FinishTransfer, AbortTransfer,
         ReplicaDies
<1>5. CASE \/ \E k \in 0..(MaxReplicas - 1) : PodStart(k)
           \/ \E p \in Peer : Join(p)
           \/ (\E n \in 1..MaxReplicas : SetReplicas(n)) \/ SwitchRebalance
           \/ DeadlinePasses \/ ReshardBegin \/ ReshardComplete
  BY <1>5 DEF PodStart, Join, SetReplicas, SwitchRebalance, DeadlinePasses,
         ReshardBegin, ReshardComplete, qdrant
<1> QED
  BY <1>1, <1>2, <1>3, <1>4, <1>5 DEF Next, Operator

\* A pass that has begun remembers whether the CR was edited under it, issues a
\* balancing command only if rebalancing was on when it began, and a drain command
\* only to empty the peer of the highest ordinal.
PassInv ==
    /\ pc = "idle" => ~ edited
    /\ pc = "issue" => spec.rebalance \/ edited
    /\ pc = "drainIssue" => Ordinal[status.activeMove.from] = sts - 1

\* Every step preserves it.
LEMMA NextPass ==
    ASSUME TypeOK, PassInv, [Next]_vars
    PROVE  PassInv'
<1>1. CASE SteadyPass
  <2>1. /\ pc' # "drainIssue" /\ (pc' = "issue" => spec.rebalance)
        /\ UNCHANGED <<spec, edited>> /\ pc = "idle"
    BY <1>1, SteadyRecord DEF Issuing, SteadyPass, SteadyGuard
  <2> QED
    BY <2>1 DEF PassInv
<1>2. CASE DrainPass
  <2>1. /\ pc' # "issue"
        /\ pc' = "drainIssue" => Ordinal[status'.activeMove.from] = sts - 1
        /\ UNCHANGED <<spec, edited, sts>> /\ pc = "idle"
    BY <1>2, DrainRecord DEF Issuing, DrainPass, DrainGuard, kube
  <2> QED
    BY <2>1 DEF PassInv
<1>3. CASE ScaleOut \/ SteadyHold \/ DrainUnobservable
  BY <1>3 DEF PassInv, ScaleOut, SteadyHold, DrainUnobservable, SteadyGuard, DrainGuard
<1>4. CASE IssueCommand \/ ShrinkOne \/ AbandonPass
  BY <1>4 DEF PassInv, IssueCommand, ShrinkOne, AbandonPass, EndPass
<1>5. CASE RemovePeer
  BY <1>5 DEF PassInv, RemovePeer, RemoveFailed, EndPass
<1>6. CASE Server \/ \E s \in Shard, p \in Peer : ReplicaDies(s, p)
  <2>1. UNCHANGED <<spec, status, edited, sts, pc>>
    BY <1>6 DEF Server, ApplyCommand, DiscardCommand, FinishTransfer, AbortTransfer,
           ReplicaDies, kube
  <2> QED
    BY <2>1 DEF PassInv
<1>7. CASE (\E n \in 1..MaxReplicas : SetReplicas(n)) \/ SwitchRebalance
  BY <1>7 DEF PassInv, SetReplicas, SwitchRebalance, kube
<1>8. CASE \/ \E k \in 0..(MaxReplicas - 1) : PodStart(k)
           \/ \E p \in Peer : Join(p)
           \/ DeadlinePasses \/ ReshardBegin \/ ReshardComplete
           \/ UNCHANGED vars
  BY <1>8 DEF PassInv, PodStart, Join, DeadlinePasses, ReshardBegin, ReshardComplete,
         kube, vars
<1> QED
  BY <1>1, <1>2, <1>3, <1>4, <1>5, <1>6, <1>7, <1>8 DEF Next, Operator

\* rebalance.go:358-360: with spec.rebalance.enabled off the rebalancer gives the
\* server no command, whatever else fails: only a scale-in does, to empty the peer of
\* the highest ordinal, or a pass that had begun before the switch was turned off.
THEOREM DryRunGivesNoCommand == Spec => DryRunInert
<1>1. Init => PassInv
  BY DEF Init, PassInv
<1>2. TypeOK /\ PassInv /\ [Next]_vars => PassInv'
  BY NextPass
<1>3. ASSUME PassInv, Next, NEW m \in inbox' \ inbox
      PROVE  \/ spec.rebalance \/ edited
             \/ pc = "drainIssue" /\ Ordinal[m.from] = sts - 1
  BY <1>3, IssuedRecorded DEF PassInv, Issuing
<1>4. ASSUME PassInv, [Next]_vars
      PROVE  [\A m \in inbox' \ inbox :
                 \/ spec.rebalance \/ edited
                 \/ pc = "drainIssue" /\ Ordinal[m.from] = sts - 1]_vars
  BY <1>3, <1>4
<1> QED
  BY <1>1, <1>2, <1>4, TypeCorrect, PTL DEF Spec, DryRunInert

(***************************************************************************)
(* Dead replicas.  A call that took effect may be reported as failed, so   *)
(* that commands which no record shows are carried out while a pass is     *)
(* under way.  What matters is that none of them takes an Active replica   *)
(* from a shard that also has a dead one: a drain waits for dead replicas, *)
(* the steady path drops nothing else, and no transfer is directed to a    *)
(* dead replica.                                                           *)
(***************************************************************************)
HasDeadCopy(s) == \E p \in Peer : rep[s][p] = "Dead"

\* A transfer fills a peer whose copy is not dead.
FillsLiving(m) == m.op # "Drop" => m.to \in Peer /\ rep[m.shard][m.to] # "Dead"

\* A removal from a shard with dead copies removes one of these.
RemovesDead(m) ==
    m.op = "Drop" =>
        m.to = NoPeer /\ (HasDeadCopy(m.shard) => rep[m.shard][m.from] = "Dead")

\* The same of a command about to be issued; its dead copy may be gone by then, with
\* nothing under way to bring back another.
StillRemovesDead(m) ==
    m.op = "Drop" =>
        /\ m.to = NoPeer
        /\ HasDeadCopy(m.shard) /\ rep[m.shard][m.from] # "Dead" =>
               /\ rep[m.shard][m.from] = "None"
               /\ \A x \in inbox : x.op # "Drop" => x.shard # m.shard \/ x.to # m.from

DeadCopies ==
    /\ \A m \in inbox : FillsLiving(m) /\ RemovesDead(m)
    /\ Issuing => FillsLiving(status.activeMove) /\ StillRemovesDead(status.activeMove)

\* The plans direct no transfer to a dead replica, and the steady plan removes only
\* dead ones.
LEMMA PlannedDead ==
    ASSUME TypeOK, NEW o \in {FullObservation} \cup PartialObservations, NEW m \in Planned(o)
    PROVE  /\ m.op # "Drop" => m.to \in Peer /\ o.rep[m.shard][m.to] # "Dead"
           /\ m.op = "Drop" => /\ m.to = NoPeer
                               /\ m \in Plan(o) => o.rep[m.shard][m.from] = "Dead"
<1>1. o \in ObservationType /\ o.peers = peers /\ peers \subseteq Peer
  BY ObserveType DEF TypeOK
<1>2. CASE m \in ReplicationPlan(o)
  <2>1. m.op = "Replicate" /\ m.to \in ReplicationTargets(o, m.shard)
    BY <1>2, EarliestIsMember DEF ReplicationPlan
  <2> QED
    BY <1>1, <2>1 DEF ReplicationTargets
<1>3. CASE m \in DeadDropPlan(o)
  BY <1>3 DEF DeadDropPlan
<1>4. CASE m \in CountPlan(o)
  <2>1. m.op = "Move" /\ m.to \in o.peers /\ o.rep[m.shard][m.to] = "None"
    BY <1>4 DEF CountPlan
  <2> QED
    BY <1>1, <2>1
<1>5. CASE m \in SizePlan(o)
  <2>1. m \in SizeCandidates(o)
    BY <1>5, EarliestIsMember DEF SizePlan
  <2>2. m.op = "Move" /\ m.to \in Emptiest(o) /\ o.rep[m.shard][m.to] = "None"
    BY <2>1 DEF SizeCandidates
  <2>3. m.to \in o.peers
    BY <2>2, EarliestIsMember DEF Emptiest
  <2> QED
    BY <1>1, <2>2, <2>3
<1>6. CASE m \notin Plan(o)
  <2>1. PICK t \in Target : m \in DrainPlan(o, t, Keepers(o, spec.replicas))
    BY <1>6 DEF Planned
  <2>2. CASE m.op = "Drop"
    BY <1>6, <2>1, <2>2 DEF DrainPlan
  <2>3. CASE m.op # "Drop"
    <3>1. m.to \in Takers(o, m.shard, Keepers(o, spec.replicas))
      BY <2>1, <2>3, EarliestIsMember DEF DrainPlan
    <3> QED
      BY <1>1, <2>3, <3>1 DEF Takers, Keepers
  <2> QED
    BY <2>2, <2>3
<1>7. m \in RebalancePlan(o) => m \in CountPlan(o) \cup SizePlan(o)
  BY EarliestIsMember DEF RebalancePlan
<1>8. m \in Plan(o) => m \in ReplicationPlan(o) \cup DeadDropPlan(o) \cup RebalancePlan(o)
  BY EarliestIsMember DEF Plan
<1> QED
  BY <1>2, <1>3, <1>4, <1>5, <1>6, <1>7, <1>8

\* A step that keeps the copies and accepts nothing.
LEMMA SameDead ==
    ASSUME DeadCopies, UNCHANGED rep, inbox' \subseteq inbox,
           Issuing' => Issuing /\ status'.activeMove = status.activeMove
    PROVE  DeadCopies'
BY DEF DeadCopies, FillsLiving, RemovesDead, StillRemovesDead, HasDeadCopy

\* A pass that goes on to issue what it has planned.
LEMMA PassDead ==
    ASSUME IInv, DeadCopies, SteadyPass \/ DrainPass
    PROVE  DeadCopies'
<1> DEFINE m == status'.activeMove
<1>1. UNCHANGED <<rep, inbox>> /\ TypeOK
  BY DEF SteadyPass, DrainPass, qdrant, IInv
<1>2. PICK o \in {FullObservation} \cup PartialObservations :
          Issuing' => m \in Planned(o) /\ (m \in Plan(o) \/ AllShardsActive(o))
  BY <1>1, SteadyRecord, DrainRecord DEF Planned
<1>3. o.rep = rep
  BY <1>1, ObserveType
<1> HIDE DEF m
<1>4. ASSUME Issuing'
      PROVE  FillsLiving(status.activeMove)' /\ StillRemovesDead(status.activeMove)'
  <2>1. m \in Move /\ m.shard \in o.shards
    BY <1>1, <1>2, <1>4, PlannedUnstarted
  <2>2. /\ m.op # "Drop" => m.to \in Peer /\ rep[m.shard][m.to] # "Dead"
        /\ m.op = "Drop" => /\ m.to = NoPeer
                            /\ m \in Plan(o) => rep[m.shard][m.from] = "Dead"
    BY <1>1, <1>2, <1>3, <1>4, PlannedDead
  <2>3. m.op = "Drop" /\ HasDeadCopy(m.shard) => rep[m.shard][m.from] = "Dead"
    BY <1>2, <1>3, <1>4, <2>1, <2>2 DEF AllShardsActive, HasDeadCopy
  <2> QED
    BY <1>1, <2>2, <2>3 DEF FillsLiving, StillRemovesDead, HasDeadCopy, m
<1> QED
  BY <1>1, <1>4 DEF DeadCopies, FillsLiving, RemovesDead, HasDeadCopy

\* The server accepts only the removal of a copy that is there.
LEMMA IssueDead ==
    ASSUME IInv, DeadCopies, IssueCommand
    PROVE  DeadCopies'
<1> DEFINE m == status.activeMove
<1>1. UNCHANGED rep /\ ~ Issuing' /\ Issuing
  BY DEF IssueCommand, EndPass, Issuing
<1>2. inbox' = inbox \/ (inbox' = inbox \cup {m} /\ Admissible(m))
  BY DEF IssueCommand
<1>3. Admissible(m) => FillsLiving(m) /\ RemovesDead(m)
  BY <1>1 DEF DeadCopies, StillRemovesDead, RemovesDead, Admissible
<1> HIDE DEF m
<1> QED
  BY <1>1, <1>2, <1>3 DEF DeadCopies, FillsLiving, RemovesDead, HasDeadCopy

\* What a change of one copy leaves of the invariant: the copy was not dead and does
\* not become dead, and if the shard has dead ones it is not the subject of a removal.
LEMMA OneCopyDead ==
    ASSUME IInv, DeadCopies, inbox' \subseteq inbox, UNCHANGED <<status, pc>>,
           \A s \in Shard, p \in Peer : rep'[s][p] = "Dead" => rep[s][p] = "Dead",
           \A s \in Shard, p \in Peer :
               rep'[s][p] # rep[s][p] =>
                   /\ \A x \in inbox' : x.op = "Drop" /\ x.shard = s /\ x.from = p =>
                          ~ HasDeadCopy(s)
                   /\ Issuing /\ status.activeMove.op = "Drop" /\ status.activeMove.shard = s
                      /\ status.activeMove.from = p /\ HasDeadCopy(s) =>
                          rep[s][p] = "Dead" /\ rep'[s][p] = "None"
    PROVE  DeadCopies'
<1>1. \A s \in Shard : HasDeadCopy(s)' => HasDeadCopy(s)
  BY DEF HasDeadCopy
<1>2. inbox \subseteq Move /\ (Issuing => status.activeMove \in Move)
  BY DEF IInv, TypeOK, IssueCommitted, Issuing
<1>3. ASSUME NEW m \in inbox'
      PROVE  FillsLiving(m)' /\ RemovesDead(m)'
  <2>1. m \in inbox /\ m.shard \in Shard /\ m.from \in Peer /\ FillsLiving(m) /\ RemovesDead(m)
    BY <1>2, <1>3 DEF Move, DeadCopies
  <2>2. FillsLiving(m)'
    BY <2>1 DEF FillsLiving
  <2>3. RemovesDead(m)'
    BY <1>1, <1>3, <2>1 DEF RemovesDead
  <2> QED
    BY <2>2, <2>3
<1>4. ASSUME Issuing
      PROVE  FillsLiving(status.activeMove)' /\ StillRemovesDead(status.activeMove)'
  <2> DEFINE m == status.activeMove
  <2>1. m.shard \in Shard /\ m.from \in Peer /\ FillsLiving(m) /\ StillRemovesDead(m)
    BY <1>2, <1>4 DEF Move, DeadCopies
  <2>2. FillsLiving(m)'
    BY <2>1 DEF FillsLiving
  <2>3. ASSUME m.op = "Drop", HasDeadCopy(m.shard)', rep'[m.shard][m.from] # "Dead"
        PROVE  /\ rep'[m.shard][m.from] = "None"
               /\ \A x \in inbox' : x.op # "Drop" => x.shard # m.shard \/ x.to # m.from
    <3>1. HasDeadCopy(m.shard)
      BY <1>1, <2>1, <2>3
    <3>2. CASE rep[m.shard][m.from] = "Dead"
      <4>1. rep'[m.shard][m.from] = "None"
        BY <1>4, <2>1, <2>3, <3>1, <3>2
      <4>2. \A x \in inbox' : x.op # "Drop" => x.shard # m.shard \/ x.to # m.from
        <5>1. ASSUME NEW x \in inbox', x.op # "Drop", x.shard = m.shard, x.to = m.from
              PROVE  FALSE
          <6>1. FillsLiving(x)
            BY <5>1 DEF DeadCopies
          <6> QED
            BY <3>2, <5>1, <6>1 DEF FillsLiving
        <5> QED
          BY <5>1
      <4> QED
        BY <4>1, <4>2
    <3>3. CASE rep[m.shard][m.from] # "Dead"
      <4>1. /\ rep[m.shard][m.from] = "None"
            /\ \A x \in inbox : x.op # "Drop" => x.shard # m.shard \/ x.to # m.from
        BY <2>1, <2>3, <3>1, <3>3 DEF StillRemovesDead
      <4>2. rep'[m.shard][m.from] = rep[m.shard][m.from]
        BY <1>4, <2>1, <2>3, <3>1, <3>3
      <4> QED
        BY <4>1, <4>2
    <3> QED
      BY <3>2, <3>3
  <2> QED
    BY <2>1, <2>2, <2>3 DEF StillRemovesDead
<1> QED
  BY <1>3, <1>4 DEF DeadCopies, Issuing

\* What an applied command does to the copies.
LEMMA ApplyChanges ==
    ASSUME rep \in [Shard -> [Peer -> ReplicaState]], NEW m, m.shard \in Shard, ApplyCommand(m)
    PROVE  /\ m.op = "Drop" /\ m.from \in Peer =>
                  \A s \in Shard, p \in Peer :
                      rep'[s][p] = IF s = m.shard /\ p = m.from THEN "None" ELSE rep[s][p]
           /\ m.op # "Drop" /\ m.to \in Peer =>
                  \A s \in Shard, p \in Peer :
                      rep'[s][p] = IF s = m.shard /\ p = m.to THEN "Partial" ELSE rep[s][p]
<1>1. /\ m.op = "Drop" => rep' = [rep EXCEPT ![m.shard][m.from] = "None"]
      /\ m.op # "Drop" => rep' = [rep EXCEPT ![m.shard][m.to] = "Partial"]
  BY DEF ApplyCommand
<1>2. ASSUME m.op = "Drop", m.from \in Peer, NEW s \in Shard, NEW p \in Peer
      PROVE  rep'[s][p] = IF s = m.shard /\ p = m.from THEN "None" ELSE rep[s][p]
  BY <1>1, <1>2
<1>3. ASSUME m.op # "Drop", m.to \in Peer, NEW s \in Shard, NEW p \in Peer
      PROVE  rep'[s][p] = IF s = m.shard /\ p = m.to THEN "Partial" ELSE rep[s][p]
  BY <1>1, <1>3
<1> QED
  BY <1>2, <1>3

\* The server begins or carries out an accepted command.
LEMMA ApplyDead ==
    ASSUME IInv, DeadCopies, NEW m \in inbox, ApplyCommand(m)
    PROVE  DeadCopies'
<1>1. /\ inbox \subseteq Move /\ m \in Move /\ rep \in [Shard -> [Peer -> ReplicaState]]
      /\ m.shard \in Shard /\ m.from \in Peer
  BY DEF IInv, TypeOK, Move
<1>2. inbox' = inbox \ {m} /\ UNCHANGED <<status, pc>> /\ Admissible(m)
  BY DEF ApplyCommand
<1>3. FillsLiving(m) /\ RemovesDead(m)
  BY DEF DeadCopies
<1>4. CASE m.op = "Drop"
  <2>1. \A s \in Shard, p \in Peer :
            rep'[s][p] = IF s = m.shard /\ p = m.from THEN "None" ELSE rep[s][p]
    BY <1>1, <1>4, ApplyChanges
  <2>2. ASSUME NEW x \in inbox', x.op = "Drop", x.shard = m.shard, x.from = m.from
        PROVE  FALSE
    <3>1. x \in Move /\ x # m /\ x.to = NoPeer /\ m.to = NoPeer
      BY <1>1, <1>2, <1>3, <1>4, <2>2 DEF DeadCopies, RemovesDead
    <3> QED
      BY <1>1, <1>4, <2>2, <3>1 DEF Move
  <2>3. HasDeadCopy(m.shard) => rep[m.shard][m.from] = "Dead"
    BY <1>3, <1>4 DEF RemovesDead
  <2>4. \A s \in Shard, p \in Peer : rep'[s][p] = "Dead" => rep[s][p] = "Dead"
    BY <2>1
  <2>5. ASSUME NEW s \in Shard, NEW p \in Peer, rep'[s][p] # rep[s][p]
        PROVE  s = m.shard /\ p = m.from /\ rep'[s][p] = "None"
    BY <2>1, <2>5
  <2>6. ASSUME NEW s \in Shard, NEW p \in Peer, rep'[s][p] # rep[s][p]
        PROVE  /\ \A x \in inbox' : x.op = "Drop" /\ x.shard = s /\ x.from = p =>
                      ~ HasDeadCopy(s)
               /\ HasDeadCopy(s) => rep[s][p] = "Dead" /\ rep'[s][p] = "None"
    <3>1. s = m.shard /\ p = m.from /\ rep'[s][p] = "None"
      BY <2>5, <2>6
    <3> QED
      BY <2>2, <2>3, <3>1
  <2>7. inbox' \subseteq inbox /\ UNCHANGED <<status, pc>>
    BY <1>2
  <2> QED
    BY <2>4, <2>6, <2>7, OneCopyDead
<1>5. CASE m.op # "Drop"
  <2>1. m.to \in Peer /\ rep[m.shard][m.to] = "None"
    BY <1>2, <1>3, <1>5 DEF Admissible, FillsLiving
  <2>2. \A s \in Shard, p \in Peer :
            rep'[s][p] = IF s = m.shard /\ p = m.to THEN "Partial" ELSE rep[s][p]
    BY <1>1, <1>5, <2>1, ApplyChanges
  <2>3. \A x \in inbox' : x.op = "Drop" /\ x.shard = m.shard /\ x.from = m.to =>
            ~ HasDeadCopy(m.shard)
    BY <1>2, <2>1 DEF DeadCopies, RemovesDead
  <2>4. ~ (/\ Issuing /\ status.activeMove.op = "Drop" /\ status.activeMove.shard = m.shard
           /\ status.activeMove.from = m.to /\ HasDeadCopy(m.shard))
    BY <1>5, <2>1 DEF DeadCopies, StillRemovesDead
  <2> QED
    BY <1>1, <1>2, <2>2, <2>3, <2>4, OneCopyDead
<1> QED
  BY <1>4, <1>5

\* The copies that a transfer changes as it ends.
LEMMA TransferCopies ==
    ASSUME IInv, NEW t \in transfers, FinishTransfer(t) \/ AbortTransfer(t)
    PROVE  /\ t.shard \in Shard /\ t.from \in Peer /\ t.to \in Peer
           /\ rep[t.shard][t.to] = "Partial"
           /\ \A s \in Shard, p \in Peer : s # t.shard => rep'[s][p] = rep[s][p]
           /\ \A p \in Peer : p \notin {t.from, t.to} => rep'[t.shard][p] = rep[t.shard][p]
           /\ \/ /\ rep[t.shard][t.from] = "Active" /\ rep'[t.shard][t.to] = "Active"
                 /\ rep'[t.shard][t.from] \in {"Active", "None"}
              \/ /\ rep'[t.shard][t.to] = "None"
                 /\ t.from # t.to => rep'[t.shard][t.from] = rep[t.shard][t.from]
           /\ UNCHANGED <<inbox, status, pc>>
<1>1. t \in Move /\ rep \in [Shard -> [Peer -> ReplicaState]]
  BY DEF IInv, TypeOK
<1>2. t.shard \in Shard /\ t.from \in Peer /\ t.to \in Peer /\ rep[t.shard][t.to] = "Partial"
  BY <1>1 DEF IInv, TransfersPartial, Move
<1>3. CASE FinishTransfer(t)
  <2>1. t.from # t.to
    BY <1>2, <1>3 DEF FinishTransfer
  <2> QED
    BY <1>1, <1>2, <1>3, <2>1 DEF FinishTransfer
<1>4. CASE AbortTransfer(t)
  BY <1>1, <1>2, <1>4 DEF AbortTransfer
<1> QED
  BY <1>3, <1>4

\* No copy becomes dead by the work of the server.
LEMMA DeadBefore ==
    ASSUME IInv, NEW s \in Shard, NEW p \in Peer, rep'[s][p] = "Dead",
           \/ \E m \in inbox : ApplyCommand(m) \/ DiscardCommand(m)
           \/ \E t \in transfers : FinishTransfer(t) \/ AbortTransfer(t)
    PROVE  rep[s][p] = "Dead"
<1>1. rep \in [Shard -> [Peer -> ReplicaState]] /\ inbox \subseteq Move
  BY DEF IInv, TypeOK
<1>2. ASSUME NEW m \in inbox, ApplyCommand(m) \/ DiscardCommand(m)
      PROVE  rep[s][p] = "Dead"
  <2>1. m.shard \in Shard /\ m.from \in Peer
    BY <1>1 DEF Move
  <2>2. CASE DiscardCommand(m)
    BY <2>2 DEF DiscardCommand
  <2>3. CASE ApplyCommand(m) /\ m.op = "Drop"
    <3>1. rep'[s][p] = IF s = m.shard /\ p = m.from THEN "None" ELSE rep[s][p]
      BY <1>1, <2>1, <2>3, ApplyChanges
    <3> QED
      BY <3>1
  <2>4. CASE ApplyCommand(m) /\ m.op # "Drop"
    <3>1. m.to \in Peer
      BY <2>4 DEF ApplyCommand, Admissible, IInv, TypeOK
    <3>2. rep'[s][p] = IF s = m.shard /\ p = m.to THEN "Partial" ELSE rep[s][p]
      BY <1>1, <2>1, <2>4, <3>1, ApplyChanges
    <3> QED
      BY <3>2
  <2> QED
    BY <1>2, <2>2, <2>3, <2>4
<1>3. ASSUME NEW t \in transfers, FinishTransfer(t) \/ AbortTransfer(t)
      PROVE  rep[s][p] = "Dead"
  BY <1>3, TransferCopies
<1> QED
  BY <1>2, <1>3

\* A transfer ends.
LEMMA TransferDead ==
    ASSUME IInv, DeadCopies, NEW t \in transfers, FinishTransfer(t) \/ AbortTransfer(t)
    PROVE  DeadCopies'
<1>1. ASSUME NEW s \in Shard, NEW p \in Peer, rep'[s][p] # rep[s][p]
      PROVE  s = t.shard /\ rep[s][p] \in {"Partial", "Active"} /\ rep'[s][p] # "Dead"
  BY <1>1, TransferCopies
<1>2. ASSUME NEW s \in Shard, NEW p \in Peer, rep[s][p] \in {"Partial", "Active"},
             HasDeadCopy(s)
      PROVE  /\ \A x \in inbox : x.op = "Drop" => x.shard # s \/ x.from # p
             /\ ~ (/\ Issuing /\ status.activeMove.op = "Drop"
                   /\ status.activeMove.shard = s /\ status.activeMove.from = p)
  BY <1>2 DEF DeadCopies, RemovesDead, StillRemovesDead
<1>3. UNCHANGED <<inbox, status, pc>>
  BY TransferCopies
<1>4. \A s \in Shard, p \in Peer : rep'[s][p] = "Dead" => rep[s][p] = "Dead"
  BY <1>1
<1> QED
  BY <1>1, <1>2, <1>3, <1>4, OneCopyDead

\* Every step preserves it, as long as no replica dies.
LEMMA NextDead ==
    ASSUME IInv, DeadCopies, [Next]_vars, "replicaDies" \notin Faults
    PROVE  DeadCopies'
<1>1. CASE SteadyPass \/ DrainPass
  BY <1>1, PassDead
<1>2. CASE \/ ScaleOut \/ SteadyHold \/ DrainUnobservable
           \/ RemovePeer \/ ShrinkOne \/ AbandonPass
  BY <1>2, ReportRecord, SameDead DEF IInv
<1>3. CASE IssueCommand
  BY <1>3, IssueDead
<1>4. CASE \E m \in inbox : ApplyCommand(m)
  BY <1>4, ApplyDead
<1>5. CASE \E m \in inbox : DiscardCommand(m)
  BY <1>5, SameDead DEF DiscardCommand, Issuing
<1>6. CASE \E t \in transfers : FinishTransfer(t) \/ AbortTransfer(t)
  BY <1>6, TransferDead
<1>7. CASE \E s \in Shard, p \in Peer : ReplicaDies(s, p)
  BY <1>7 DEF ReplicaDies, Fault
<1>8. CASE \/ \E k \in 0..(MaxReplicas - 1) : PodStart(k)
           \/ \E p \in Peer : Join(p)
           \/ (\E n \in 1..MaxReplicas : SetReplicas(n)) \/ SwitchRebalance
           \/ DeadlinePasses \/ ReshardBegin \/ ReshardComplete
           \/ UNCHANGED vars
  <2>1. UNCHANGED <<rep, inbox, status, pc>>
    BY <1>8 DEF PodStart, Join, SetReplicas, SwitchRebalance, DeadlinePasses,
           ReshardBegin, ReshardComplete, qdrant, vars
  <2> QED
    BY <2>1, SameDead DEF Issuing
<1> QED
  BY <1>1, <1>2, <1>3, <1>4, <1>5, <1>6, <1>7, <1>8 DEF Next, Operator, Server

\* A balancing command whose source is a dead replica finds the replication factor
\* reached: so the planner saw it, and the Active copies have not become fewer since.
ActiveCopies(s) == {p \in Peer : rep[s][p] = "Active"}

DeadLastInv ==
    pc = "issue" /\ rep[status.activeMove.shard][status.activeMove.from] = "Dead" =>
        Cardinality(ActiveCopies(status.activeMove.shard)) >= RF[status.activeMove.shard[1]]

\* The planner sees it.
LEMMA SteadyDeadLast ==
    ASSUME IInv, SteadyPass, "rfUnread" \notin Faults
    PROVE  DeadLastInv'
<1> SUFFICES ASSUME pc' = "issue",
                    rep'[status'.activeMove.shard][status'.activeMove.from] = "Dead"
             PROVE  Cardinality(ActiveCopies(status.activeMove.shard)')
                        >= RF[status'.activeMove.shard[1]]
  BY DEF DeadLastInv
<1> DEFINE m == status'.activeMove
<1>1. PICK o \in {FullObservation} \cup PartialObservations : m \in Plan(o)
  BY SteadyRecord DEF Issuing, IInv
<1>2. o \in ObservationType /\ o.rep = rep /\ UNCHANGED rep
  BY ObserveType DEF IInv, SteadyPass, qdrant
<1> HIDE DEF m
<1>3. m \in Move /\ Cardinality(ActiveHolders(o, m.shard)) >= o.rf[m.shard[1]]
  BY <1>1, <1>2, PlanType, PlanDropsDeadLast DEF m
<1>4. m.shard[1] \in Collection
  BY <1>3 DEF Move, Collection
<1>5. o.rf[m.shard[1]] = RF[m.shard[1]]
  BY <1>4, ObserveParts
<1>6. ActiveHolders(o, m.shard) = {p \in Peer : rep'[m.shard][p] = "Active"}
  BY <1>2 DEF ActiveHolders
<1> QED
  BY <1>3, <1>5, <1>6 DEF m, ActiveCopies

\* A shard with a dead copy loses no Active one to the server's work, but by a
\* transfer that brings one in its place.
LEMMA ActiveNotFewer ==
    ASSUME IInv, DeadCopies, NEW s \in Shard, HasDeadCopy(s),
           \/ \E m \in inbox : ApplyCommand(m) \/ DiscardCommand(m)
           \/ \E t \in transfers : FinishTransfer(t) \/ AbortTransfer(t)
    PROVE  Cardinality(ActiveCopies(s)') >= Cardinality(ActiveCopies(s))
<1>1. /\ IsFiniteSet(ActiveCopies(s)) /\ Cardinality(ActiveCopies(s)) \in Nat
      /\ IsFiniteSet(ActiveCopies(s)') /\ Cardinality(ActiveCopies(s)') \in Nat
  <2>1. IsFiniteSet(ActiveCopies(s))
    BY PeerAssumption, FS_Subset DEF ActiveCopies
  <2>2. IsFiniteSet(ActiveCopies(s)')
    BY PeerAssumption, FS_Subset DEF ActiveCopies
  <2> QED
    BY <2>1, <2>2, FS_CardinalityType
<1>2. ASSUME NEW m \in inbox, ApplyCommand(m) \/ DiscardCommand(m)
      PROVE  ActiveCopies(s)' = ActiveCopies(s)
  <2>1. /\ rep \in [Shard -> [Peer -> ReplicaState]] /\ m.shard \in Shard /\ m.from \in Peer
        /\ FillsLiving(m) /\ RemovesDead(m)
    BY DEF IInv, TypeOK, Move, DeadCopies
  <2>2. CASE DiscardCommand(m)
    BY <2>2 DEF DiscardCommand, ActiveCopies
  <2>3. CASE ApplyCommand(m) /\ m.op = "Drop"
    <3>1. \A p \in Peer :
              rep'[s][p] = IF s = m.shard /\ p = m.from THEN "None" ELSE rep[s][p]
      BY <2>1, <2>3, ApplyChanges
    <3>2. s = m.shard => rep[s][m.from] = "Dead"
      BY <2>1, <2>3 DEF RemovesDead
    <3> QED
      BY <3>1, <3>2 DEF ActiveCopies
  <2>4. CASE ApplyCommand(m) /\ m.op # "Drop"
    <3>1. m.to \in Peer /\ rep[m.shard][m.to] = "None"
      BY <2>1, <2>4 DEF ApplyCommand, Admissible, FillsLiving
    <3>2. \A p \in Peer :
              rep'[s][p] = IF s = m.shard /\ p = m.to THEN "Partial" ELSE rep[s][p]
      BY <2>1, <2>4, <3>1, ApplyChanges
    <3> QED
      BY <3>1, <3>2 DEF ActiveCopies
  <2> QED
    BY <1>2, <2>2, <2>3, <2>4
<1>3. ASSUME NEW t \in transfers, FinishTransfer(t) \/ AbortTransfer(t)
      PROVE  Cardinality(ActiveCopies(s)') >= Cardinality(ActiveCopies(s))
  <2> DEFINE A == ActiveCopies(s)
             B == ActiveCopies(s)'
  <2>1. \/ A \subseteq B
        \/ s = t.shard /\ t.from \in A /\ t.to \notin A /\ B = (A \ {t.from}) \cup {t.to}
    <3>1. CASE s # t.shard
      BY <1>3, <3>1, TransferCopies DEF ActiveCopies
    <3>2. CASE s = t.shard
      <4>1. /\ \A p \in Peer : p \notin {t.from, t.to} => rep'[s][p] = rep[s][p]
            /\ t.from \in Peer /\ t.to \in Peer /\ rep[s][t.to] = "Partial"
            /\ \/ /\ rep[s][t.from] = "Active" /\ rep'[s][t.to] = "Active"
                  /\ rep'[s][t.from] \in {"Active", "None"}
               \/ t.from # t.to => rep'[s][t.from] = rep[s][t.from]
        BY <1>3, <3>2, TransferCopies
      <4> QED
        BY <3>2, <4>1 DEF ActiveCopies
    <3> QED
      BY <3>1, <3>2
  <2> HIDE DEF A, B
  <2>2. CASE A \subseteq B
    BY <1>1, <2>2, FS_Subset DEF A, B
  <2>3. CASE t.from \in A /\ t.to \notin A /\ B = (A \ {t.from}) \cup {t.to}
    <3>1. IsFiniteSet(A \ {t.from}) /\ Cardinality(A \ {t.from}) = Cardinality(A) - 1
      BY <1>1, <2>3, FS_RemoveElement DEF A
    <3>2. Cardinality(B) = Cardinality(A \ {t.from}) + 1
      BY <2>3, <3>1, FS_AddElement
    <3>3. Cardinality(A) \in Nat
      BY <1>1 DEF A
    <3>4. Cardinality(B) >= Cardinality(A)
      BY <3>1, <3>2, <3>3
    <3> QED
      BY <3>4 DEF A, B
  <2> QED
    BY <2>1, <2>2, <2>3
<1> QED
  BY <1>1, <1>2, <1>3

\* Every step preserves it, as long as no replica dies and no replication factor is
\* unread.
LEMMA NextDeadLast ==
    ASSUME IInv, DeadCopies, DeadLastInv, [Next]_vars,
           "rfUnread" \notin Faults, "replicaDies" \notin Faults
    PROVE  DeadLastInv'
<1>1. CASE SteadyPass
  BY <1>1, SteadyDeadLast
<1>2. CASE DrainPass
  BY <1>2, DrainRecord DEF DeadLastInv, Issuing, IInv
<1>3. CASE \/ ScaleOut \/ SteadyHold \/ DrainUnobservable
           \/ RemovePeer \/ ShrinkOne \/ AbandonPass
  BY <1>3, ReportRecord DEF DeadLastInv, Issuing, IInv
<1>4. CASE IssueCommand
  BY <1>4 DEF DeadLastInv, IssueCommand, EndPass
<1>5. CASE \/ \E m \in inbox : ApplyCommand(m) \/ DiscardCommand(m)
           \/ \E t \in transfers : FinishTransfer(t) \/ AbortTransfer(t)
  <2>0. UNCHANGED <<status, pc>>
    BY <1>5 DEF ApplyCommand, DiscardCommand, FinishTransfer, AbortTransfer
  <2> SUFFICES ASSUME pc = "issue", NEW n, n = status.activeMove,
                      rep'[n.shard][n.from] = "Dead"
               PROVE  Cardinality(ActiveCopies(n.shard)') >= RF[n.shard[1]]
    BY <2>0 DEF DeadLastInv
  <2>1. n \in Move
    BY DEF IInv, IssueCommitted
  <2>2. n.shard \in Shard /\ n.from \in Peer /\ n.shard[1] \in Collection
    BY <2>1 DEF Move, Collection
  <2>3. rep[n.shard][n.from] = "Dead"
    BY <1>5, <2>2, DeadBefore
  <2>4. Cardinality(ActiveCopies(n.shard)') >= Cardinality(ActiveCopies(n.shard))
    BY <1>5, <2>2, <2>3, ActiveNotFewer DEF HasDeadCopy
  <2>5. Cardinality(ActiveCopies(n.shard)) >= RF[n.shard[1]]
    BY <2>3 DEF DeadLastInv
  <2>6. /\ Cardinality(ActiveCopies(n.shard)) \in Nat /\ Cardinality(ActiveCopies(n.shard)') \in Nat
        /\ RF[n.shard[1]] \in Nat
    <3>1. IsFiniteSet(ActiveCopies(n.shard))
      BY PeerAssumption, FS_Subset DEF ActiveCopies
    <3>2. IsFiniteSet(ActiveCopies(n.shard)')
      BY PeerAssumption, FS_Subset DEF ActiveCopies
    <3> QED
      BY <2>2, <3>1, <3>2, FS_CardinalityType, RFAssumption
  <2>7. \A a, b, c \in Nat : a >= b /\ b >= c => a >= c
    OBVIOUS
  <2> QED
    BY <2>4, <2>5, <2>6, <2>7, Zenon
<1>6. CASE \E s \in Shard, p \in Peer : ReplicaDies(s, p)
  BY <1>6 DEF ReplicaDies, Fault
<1>7. CASE \/ \E k \in 0..(MaxReplicas - 1) : PodStart(k)
           \/ \E p \in Peer : Join(p)
           \/ (\E n \in 1..MaxReplicas : SetReplicas(n)) \/ SwitchRebalance
           \/ DeadlinePasses \/ ReshardBegin \/ ReshardComplete
           \/ UNCHANGED vars
  BY <1>7 DEF DeadLastInv, ActiveCopies, PodStart, Join, SetReplicas, SwitchRebalance,
         DeadlinePasses, ReshardBegin, ReshardComplete, qdrant, vars
<1> QED
  BY <1>1, <1>2, <1>3, <1>4, <1>5, <1>6, <1>7 DEF Next, Operator, Server

\* rebalance.go:325-326: the rebalance lane drops a dead replica only when the Active
\* ones reach the replication factor, also at the moment the server accepts the
\* command, and also while the server is at work on commands whose calls were reported
\* as failed.  It needs the replication factors to be readable and no replica to die in
\* the middle of a pass.
THEOREM DeadReplicasDroppedLast ==
    ASSUME "rfUnread" \notin Faults, "replicaDies" \notin Faults
    PROVE  Spec => DeadDroppedLast
<1>1. Init => DeadCopies /\ DeadLastInv
  BY DEF Init, DeadCopies, DeadLastInv, Issuing
<1>2. IInv /\ DeadCopies /\ [Next]_vars => DeadCopies'
  BY NextDead
<1>3. IInv /\ DeadCopies /\ DeadLastInv /\ [Next]_vars => DeadLastInv'
  BY NextDeadLast
<1>4. ASSUME DeadLastInv, Next, NEW m \in inbox' \ inbox
      PROVE  pc = "issue" /\ rep[m.shard][m.from] = "Dead" =>
                 Cardinality({p \in Peer : rep[m.shard][p] = "Active"}) >= RF[m.shard[1]]
  BY <1>4, IssuedRecorded DEF DeadLastInv, ActiveCopies
<1>5. ASSUME DeadLastInv, [Next]_vars
      PROVE  [\A m \in inbox' \ inbox :
                 pc = "issue" /\ rep[m.shard][m.from] = "Dead" =>
                     Cardinality({p \in Peer : rep[m.shard][p] = "Active"}) >= RF[m.shard[1]]]_vars
  BY <1>4, <1>5
<1> QED
  BY <1>1, <1>2, <1>3, <1>5, Invariance, PTL DEF Spec, DeadDroppedLast
=============================================================================
