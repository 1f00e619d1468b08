---------------------------- MODULE QdrantCluster ----------------------------
(***************************************************************************)
(* The QdrantCluster controller (qdrantcluster_controller.go, rebalance.go,*)
(* drain.go) driving a Qdrant cluster through a StatefulSet.               *)
(*                                                                         *)
(* A reconcile pass is cut where another actor can interfere with it: the  *)
(* pass itself (read the CR and the StatefulSet, observe, settle, plan and *)
(* commit the status) is one step, every later call to the Qdrant API and  *)
(* the StatefulSet update are steps of their own (pc), and a crash may     *)
(* fall between any two.  The planners are pure and no one else writes the *)
(* fields of status, so the first part of a pass is atomic.                *)
(*                                                                         *)
(* The Qdrant server and the StatefulSet controller are external: modelled *)
(* from how the code uses them and from the test double internal/qdrant/   *)
(* fake.go.  A shard command is accepted (inbox) before it becomes visible *)
(* as a transfer.                                                          *)
(***************************************************************************)
EXTENDS ShardPlanner

CONSTANTS
    RF,                \* RF[c]: replication factor of collection c
    MaxReplicas,       \* bound on spec.replicas
    InitReplicas,      \* initial spec.replicas
    Placements,        \* set of initial replica placements
    Faults,            \* the classes of failure that may happen
    MaxFaults,         \* bound on the number of failures
    MaxEdits,          \* bound on the number of edits of the spec
    MaxReshards        \* bound on the number of reshard workflows

VARIABLES
    spec,       \* QdrantCluster.spec: replicas, rebalance (rebalance.enabled)
    status,     \* QdrantCluster.status: activeMove, moveBackoff, drainStatus, Degraded
    edited,     \* the CR was edited since the current pass read it
    sts,        \* StatefulSet.spec.replicas
    pods,       \* ordinals of the ready pods
    newborn,    \* ordinals of the pods that have not joined the consensus yet
    peers,      \* consensus members
    rep,        \* rep[s][p]: state of the replica of shard s on peer p
    transfers,  \* running shard transfers
    inbox,      \* accepted shard commands that are not visible yet
    pc,         \* what the current pass does next
    expired,    \* moveAppearDeadline has passed since activeMove was issued
    reshard,    \* a QdrantCollection of this cluster has status.reshard
    budget      \* how many failures, edits and reshards have happened

vars == <<spec, status, edited, sts, pods, newborn, peers, rep, transfers,
          inbox, pc, expired, reshard, budget>>
kube == <<sts, pods, newborn>>
qdrant == <<peers, rep, transfers, inbox>>

FaultClass == {"unobservable", "partialObserve", "rfUnread", "sizesUnread",
               "uriUnread", "listUnread", "updateFails", "callFails", "responseLost",
               "commandLost", "lateStart", "transferFails", "replicaDies", "crash"}
Reason == {"None", "MoveFailed", "DrainBlocked"}
NoMove == [op |-> "None"]

ASSUME RFAssumption == RF \in [Collection -> Nat \ {0}]
ASSUME BoundAssumption ==
    /\ MaxReplicas \in Nat /\ InitReplicas \in 1..MaxReplicas
    /\ MaxFaults \in Nat /\ MaxEdits \in Nat /\ MaxReshards \in Nat
    /\ Faults \subseteq FaultClass
\* The cluster starts with every shard served by a running member.
ASSUME PlacementAssumption ==
    /\ Placements \subseteq [Shard -> [Peer -> ReplicaState \ {"Partial"}]]
    /\ \A r \in Placements, s \in Shard :
          /\ \E p \in Peer : r[s][p] = "Active"
          /\ \A p \in Peer : r[s][p] # "None" => Ordinal[p] < InitReplicas

Status == [activeMove : Move \cup {NoMove}, backoff : Nat,
           drain : BOOLEAN, degraded : Reason]
Budget == [faults : 0..MaxFaults, edits : 0..MaxEdits, reshards : 0..MaxReshards]

TypeOK ==
    /\ spec \in [replicas : 1..MaxReplicas, rebalance : BOOLEAN]
    /\ sts \in 1..MaxReplicas
    /\ status \in Status
    /\ pods \subseteq 0..(MaxReplicas - 1) /\ newborn \subseteq pods
    /\ peers \subseteq Peer
    /\ rep \in [Shard -> [Peer -> ReplicaState]]
    /\ transfers \subseteq Move /\ inbox \subseteq Move
    /\ pc \in {"idle", "issue", "drainIssue", "remove", "shrink"}
    /\ edited \in BOOLEAN /\ expired \in BOOLEAN /\ reshard \in BOOLEAN
    /\ budget \in Budget

Init ==
    /\ spec \in [replicas : {InitReplicas}, rebalance : BOOLEAN]
    /\ sts = InitReplicas
    /\ status = [activeMove |-> NoMove, backoff |-> 0, drain |-> FALSE,
                 degraded |-> "None"]
    /\ pods = 0..(InitReplicas - 1) /\ newborn = {}
    /\ peers = {p \in Peer : Ordinal[p] < InitReplicas}
    /\ rep \in Placements
    /\ transfers = {} /\ inbox = {}
    /\ pc = "idle" /\ edited = FALSE /\ expired = FALSE /\ reshard = FALSE
    /\ budget = [faults |-> 0, edits |-> 0, reshards |-> 0]

(***************************************************************************)
(* Failures.  Spend(n) charges n of them to the budget.                    *)
(***************************************************************************)
Spend(n) ==
    /\ budget.faults + n <= MaxFaults
    /\ budget' = [budget EXCEPT !.faults = @ + n]

Fault(f) == f \in Faults /\ Spend(1)

(***************************************************************************)
(* observe.  A failing GET /cluster yields no observation ("unobservable"),*)
(* a failing layout, replication-factor or size query leaves its part out. *)
(***************************************************************************)
Observe(readable, rfReadable, sized) ==
    [peers |-> peers,
     shards |-> {s \in Shard : s[1] \in readable},
     rep |-> rep,
     transfers |-> {t \in transfers : t.shard[1] \in readable},
     rf |-> [c \in Collection |-> IF c \in rfReadable THEN RF[c] ELSE 0],
     sized |-> sized]

FullObservation == Observe(Collection, Collection, TRUE)

PartialObservations ==
    {Observe(Collection \ {c}, Collection, TRUE) :
        c \in {x \in Collection : "partialObserve" \in Faults}}
    \cup {Observe(Collection, Collection \ {c}, TRUE) :
        c \in {x \in Collection : "rfUnread" \in Faults}}
    \cup {Observe(Collection, Collection, FALSE) : f \in Faults \cap {"sizesUnread"}}

ObservationCost(o) == IF o = FullObservation THEN 0 ELSE 1

(***************************************************************************)
(* Status().Update.  It fails on a conflict with a concurrent edit of the  *)
(* CR, or transiently; a pass whose first update fails may still succeed   *)
(* with a later one, which carries everything set so far.  written is the  *)
(* final status, and partial the statuses an incomplete pass leaves.       *)
(***************************************************************************)
UpdateStatus(written, partial, spent) ==
    /\ \/ ~ edited /\ status' = written /\ Spend(spent)
       \/ edited /\ status' = status /\ Spend(spent)
       \/ /\ ~ edited /\ "updateFails" \in Faults
          /\ status' \in {status} \cup partial
          /\ Spend(spent + 1)
    /\ expired' = (expired /\ status'.activeMove = status.activeMove)

\* MoveBackoff++.  The level is not bounded: backoff() clamps the delay it gives.
Escalate(st) == [st EXCEPT !.backoff = @ + 1]

MoveFailed(st) ==
    [Escalate(st) EXCEPT !.activeMove = NoMove, !.degraded = "MoveFailed"]

\* Mutant: running transfers do not count.
SettleIgnoringTransfers(o) ==
    IF status.activeMove = NoMove \/ MoveCompleted(o, status.activeMove) THEN "settled"
    ELSE IF ~ expired THEN "waiting"
    ELSE "lost"

\* Mutant: no appearance window after a command was issued.
SettleImpatiently(o) ==
    IF o.transfers # {} THEN "busy"
    ELSE IF status.activeMove = NoMove \/ MoveCompleted(o, status.activeMove) THEN "settled"
    ELSE "lost"

\* Mutant: the deadline of a command that never started is not looked at.
SettlePatiently(o) ==
    IF o.transfers # {} THEN "busy"
    ELSE IF status.activeMove = NoMove \/ MoveCompleted(o, status.activeMove) THEN "settled"
    ELSE "waiting"

\* settleActiveMove: what becomes of the tracked command.
SettleState(o) ==
    IF o.transfers # {} THEN "busy"
    ELSE IF status.activeMove = NoMove \/ MoveCompleted(o, status.activeMove) THEN "settled"
    ELSE IF ~ expired THEN "waiting"
    ELSE "lost"

\* Mutant: a completed command takes the back-off down by one level.
SettleStepwise(st, o) ==
    CASE SettleState(o) = "lost" -> MoveFailed(st)
      [] SettleState(o) = "settled" /\ status.activeMove # NoMove ->
            [st EXCEPT !.activeMove = NoMove, !.backoff = @ - 1, !.degraded = "None"]
      [] OTHER -> st

Settle(st, o) ==
    CASE SettleState(o) = "lost" -> MoveFailed(st)
      [] SettleState(o) = "settled" /\ status.activeMove # NoMove ->
            [st EXCEPT !.activeMove = NoMove, !.backoff = 0, !.degraded = "None"]
      [] OTHER -> st

\* Mutant: the back-off outlives the condition.
ClearConditionOnly(st) ==
    IF st.degraded = "MoveFailed" THEN [st EXCEPT !.degraded = "None"] ELSE st

\* Mutant: an empty plan leaves the condition as it is.
ClearNothing(st) == st

ClearMoveFailed(st) ==
    IF st.degraded = "MoveFailed" THEN [st EXCEPT !.backoff = 0, !.degraded = "None"]
    ELSE st

(***************************************************************************)
(* The steady pass (Reconcile, reconcileStatus, reconcileRebalance): the   *)
(* StatefulSet is applied as rendered, so it grows at once.                *)
(***************************************************************************)
NoDrain(st) == [st EXCEPT !.drain = FALSE]

SteadyGuard == pc = "idle" /\ spec.replicas >= sts

ScaleOut ==
    /\ SteadyGuard /\ spec.replicas > sts
    /\ sts' = spec.replicas
    /\ UpdateStatus(NoDrain(status), {}, 0)
    /\ UNCHANGED <<spec, edited, pods, newborn, qdrant, pc, reshard>>

\* Provisioning, or ready with a member missing or no observation: report only.
NotReady == Cardinality(pods) # spec.replicas \/ Cardinality(peers) # spec.replicas

SteadyHold ==
    /\ SteadyGuard /\ spec.replicas = sts
    /\ \/ NotReady /\ UpdateStatus(NoDrain(status), {}, 0)
       \/ /\ "unobservable" \in Faults
          /\ UpdateStatus(NoDrain(status), {}, 1)
    /\ UNCHANGED <<spec, edited, kube, qdrant, pc, reshard>>

\* Mutant: the switch spec.rebalance.enabled is not consulted.
RebalanceAlways(o) ==
    LET settled == Settle(NoDrain(status), o)
    IN  /\ SettleState(o) = "settled" /\ ~ Transitioning(o)
        /\ \E m \in Plan(o) :
              LET committed == [settled EXCEPT !.activeMove = m]
              IN  /\ UpdateStatus(committed, {}, ObservationCost(o))
                  /\ pc' = IF status' = committed THEN "issue" ELSE pc

\* Mutant: a failed command is not planned again.
RebalanceUntilFailed(o) ==
    LET settled == Settle(NoDrain(status), o)
        idle == \/ SettleState(o) # "settled" \/ Transitioning(o) \/ ~ spec.rebalance
                \/ settled.degraded = "MoveFailed"
    IN  \/ /\ idle \/ Plan(o) = {}
           /\ UpdateStatus(settled, {}, ObservationCost(o))
           /\ pc' = pc
        \/ /\ ~ idle
           /\ \E m \in Plan(o) :
                 LET committed == [settled EXCEPT !.activeMove = m]
                 IN  /\ UpdateStatus(committed, {}, ObservationCost(o))
                     /\ pc' = IF status' = committed THEN "issue" ELSE pc

Rebalance(o) ==
    LET settled == Settle(NoDrain(status), o)
    IN  \/ /\ SettleState(o) # "settled" \/ Transitioning(o)
           /\ UpdateStatus(settled, {}, ObservationCost(o))
           /\ pc' = pc
        \/ /\ SettleState(o) = "settled" /\ ~ Transitioning(o)
           /\ Plan(o) = {}
           /\ UpdateStatus(ClearMoveFailed(settled), {}, ObservationCost(o))
           /\ pc' = pc
        \/ /\ SettleState(o) = "settled" /\ ~ Transitioning(o)
           /\ Plan(o) # {} /\ ~ spec.rebalance
           /\ UpdateStatus(settled, {}, ObservationCost(o))
           /\ pc' = pc
        \/ /\ SettleState(o) = "settled" /\ ~ Transitioning(o)
           /\ spec.rebalance
           /\ \E m \in Plan(o) :
                 LET committed == [settled EXCEPT !.activeMove = m]
                 IN  \/ /\ UpdateStatus(committed, {}, ObservationCost(o))
                        /\ pc' = IF status' = committed THEN "issue" ELSE pc
                     \* issueActiveMove gave up, the trailing update did not
                     \/ /\ "updateFails" \in Faults
                        /\ UpdateStatus(committed, {}, ObservationCost(o) + 1)
                        /\ pc' = pc

SteadyPass ==
    /\ SteadyGuard /\ spec.replicas = sts /\ ~ NotReady
    /\ \E o \in {FullObservation} \cup PartialObservations : Rebalance(o)
    /\ UNCHANGED <<spec, edited, kube, qdrant, reshard>>

(***************************************************************************)
(* The drain pass (reconcileDrainCycle), taken while the StatefulSet is    *)
(* larger than spec.replicas.  The peer of the highest ordinal leaves.     *)
(***************************************************************************)
Draining(st) == [st EXCEPT !.drain = TRUE]
Target == {p \in peers : Ordinal[p] = sts - 1}

DrainGuard == pc = "idle" /\ spec.replicas < sts

DrainUnobservable ==
    /\ DrainGuard
    /\ "unobservable" \in Faults
    /\ UpdateStatus([Draining(status) EXCEPT !.degraded = "DrainBlocked"],
                    {Draining(status)}, 1)
    /\ UNCHANGED <<spec, edited, kube, qdrant, pc, reshard>>

\* reshardActive; it answers FALSE when the collections cannot be listed.
ReshardActive(seen) == seen = reshard \/ (~ seen /\ "listUnread" \in Faults)
ReshardCost(seen) == IF seen = reshard THEN 0 ELSE 1

DrainPeer(o, target, cost) ==
    LET settled == Settle(status, o)
        keepers == Keepers(o, spec.replicas)
        published == Draining(settled)
    IN  \/ /\ ~ AllShardsActive(o)
           /\ UpdateStatus(published, {}, cost)
           /\ pc' = pc
        \/ /\ AllShardsActive(o) /\ DrainBlocked(o, target, keepers)
           /\ UpdateStatus([published EXCEPT !.degraded = "DrainBlocked"],
                           {published}, cost)
           /\ pc' = pc
        \/ /\ AllShardsActive(o) /\ ~ DrainBlocked(o, target, keepers)
           /\ \E m \in DrainPlan(o, target, keepers) :
                 LET committed == [published EXCEPT !.activeMove = m]
                 IN  /\ UpdateStatus(committed, {published}, cost)
                     /\ pc' = IF status' = committed THEN "drainIssue" ELSE pc
        \/ /\ AllShardsActive(o) /\ HeldBy(o, target) = {}
           /\ UpdateStatus(published, {}, cost)
           /\ pc' = "remove"

\* Mutant: the ordinal of a removed peer is waited for, not shrunk away.
ResumeWaits(cost) ==
    /\ Target = {}
    /\ pc' = pc
    /\ Spend(cost) /\ UNCHANGED <<status, expired>>

\* Mutant: a member of the leaving ordinal is taken for a removed one.
ResumeShrinkAlways(cost) ==
    /\ pc' = "shrink"
    /\ Spend(cost) /\ UNCHANGED <<status, expired>>

\* The peer of the leaving ordinal is no member: an earlier pass removed it.
ResumeShrink(cost) ==
    /\ Target = {}
    /\ pc' = "shrink"
    /\ Spend(cost) /\ UNCHANGED <<status, expired>>

DrainUnparseable(o, cost) ==
    /\ "uriUnread" \in Faults
    /\ LET published == Draining(Settle(status, o))
       IN  UpdateStatus([published EXCEPT !.degraded = "DrainBlocked"], {published}, cost + 1)
    /\ pc' = pc

DrainPass ==
    /\ DrainGuard
    /\ \E o \in {FullObservation} \cup PartialObservations, seen \in BOOLEAN :
          LET cost == ObservationCost(o) + ReshardCost(seen)
          IN  /\ ReshardActive(seen)
              /\ \/ /\ SettleState(o) # "settled" \/ seen
                    /\ UpdateStatus(Draining(Settle(status, o)), {}, cost)
                    /\ pc' = pc
                 \/ /\ SettleState(o) = "settled" /\ ~ seen
                    /\ \/ DrainUnparseable(o, cost)
                       \/ ResumeShrink(cost)
                       \/ \E target \in Target : DrainPeer(o, target, cost)
    /\ UNCHANGED <<spec, edited, kube, qdrant, reshard>>

(***************************************************************************)
(* The call that issueActiveMove makes after it committed activeMove.  The *)
(* steady pass writes a failure back (reconcileStatus ends with an update),*)
(* the drain pass returns without one.                                     *)
(***************************************************************************)
EndPass == pc' = "idle" /\ edited' = FALSE

\* What the server checks of a command, when it accepts it and when it applies it.
Admissible(m) ==
    IF m.op = "Drop"
    THEN /\ rep[m.shard][m.from] # "None"
         /\ \E p \in Peer \ {m.from} : rep[m.shard][p] = "Active"
    ELSE /\ m.to \in peers
         /\ rep[m.shard][m.to] = "None"
         /\ rep[m.shard][m.from] = "Active"
         /\ \A t \in transfers : t.shard # m.shard

RecordFailure(spent) ==
    IF pc = "issue" THEN UpdateStatus(MoveFailed(status), {}, spent)
    ELSE Spend(spent) /\ UNCHANGED <<status, expired>>

IssueCommand ==
    /\ pc \in {"issue", "drainIssue"}
    /\ \/ /\ Admissible(status.activeMove)
          /\ inbox' = inbox \cup {status.activeMove}
          /\ UNCHANGED <<status, expired, budget>>
       \/ /\ Admissible(status.activeMove) /\ "responseLost" \in Faults
          /\ inbox' = inbox \cup {status.activeMove}
          /\ RecordFailure(1)
       \/ /\ ~ Admissible(status.activeMove)
          /\ inbox' = inbox
          /\ RecordFailure(0)
       \/ /\ "callFails" \in Faults
          /\ inbox' = inbox
          /\ RecordFailure(1)
    /\ EndPass
    /\ UNCHANGED <<spec, kube, peers, rep, transfers, reshard>>

(***************************************************************************)
(* RemovePeer(force=false) and the update of the StatefulSet that follows. *)
(***************************************************************************)
Empty(p) == \A s \in Shard : rep[s][p] = "None"

\* Commands that name the removed peer are void: consensus orders them before it.
Detach(p) ==
    /\ peers' = peers \ {p}
    /\ inbox' = {m \in inbox : p \notin {m.from, m.to}}

RemoveFailed(spent) ==
    /\ UpdateStatus([Escalate(status) EXCEPT !.degraded = "DrainBlocked"], {}, spent)
    /\ EndPass

\* Mutant: force=true.
RemovePeerForced ==
    /\ pc = "remove"
    /\ \E p \in Target :
          /\ Detach(p)
          /\ rep' = [s \in Shard |-> [rep[s] EXCEPT ![p] = "None"]]
    /\ pc' = "shrink"
    /\ UNCHANGED <<spec, status, edited, kube, transfers, expired, reshard, budget>>

RemovePeer ==
    /\ pc = "remove"
    /\ \E p \in Target :
          \/ /\ Empty(p) /\ Detach(p)
             /\ pc' = "shrink"
             /\ UNCHANGED <<status, expired, edited, budget>>
          \/ /\ Empty(p) /\ Detach(p)
             /\ "responseLost" \in Faults /\ RemoveFailed(1)
          \/ /\ ~ Empty(p) /\ RemoveFailed(0)
             /\ UNCHANGED <<peers, inbox>>
          \/ /\ "callFails" \in Faults /\ RemoveFailed(1)
             /\ UNCHANGED <<peers, inbox>>
    /\ UNCHANGED <<spec, kube, rep, transfers, reshard>>

\* Mutant: the StatefulSet is shrunk straight to spec.replicas.
ShrinkToSpec ==
    /\ pc = "shrink"
    /\ sts' = spec.replicas
    /\ pods' = pods \cap 0..(spec.replicas - 1)
    /\ newborn' = newborn \cap 0..(spec.replicas - 1)
    /\ EndPass
    /\ UNCHANGED <<spec, status, qdrant, expired, reshard, budget>>

\* shrinkOne; the StatefulSet controller then deletes the pod.
ShrinkOne ==
    /\ pc = "shrink"
    /\ sts' = sts - 1
    /\ pods' = pods \ {sts - 1}
    /\ newborn' = newborn \ {sts - 1}
    /\ EndPass
    /\ UNCHANGED <<spec, status, qdrant, expired, reshard, budget>>

\* A failed StatefulSet update returns an error, and so does a lost leader.
AbandonPass ==
    /\ pc # "idle"
    /\ \/ Fault("crash")
       \/ pc = "shrink" /\ Fault("updateFails")
    /\ EndPass
    /\ UNCHANGED <<spec, status, kube, qdrant, expired, reshard>>

(***************************************************************************)
(* The Qdrant server.                                                      *)
(***************************************************************************)
ApplyCommand(m) ==
    /\ m \in inbox /\ Admissible(m)
    /\ inbox' = inbox \ {m}
    /\ IF m.op = "Drop"
       THEN /\ rep' = [rep EXCEPT ![m.shard][m.from] = "None"]
            /\ transfers' = {t \in transfers : t.shard # m.shard \/ t.to # m.from}
       ELSE /\ rep' = [rep EXCEPT ![m.shard][m.to] = "Partial"]
            /\ transfers' = transfers \cup {m}
    /\ UNCHANGED <<spec, status, edited, kube, peers, pc, expired, reshard, budget>>

DiscardCommand(m) ==
    /\ m \in inbox
    /\ inbox' = inbox \ {m}
    /\ \/ ~ Admissible(m) /\ UNCHANGED budget
       \/ Fault("commandLost")
    /\ UNCHANGED <<spec, status, edited, kube, peers, rep, transfers, pc, expired, reshard>>

FinishTransfer(t) ==
    /\ t \in transfers
    /\ rep[t.shard][t.from] = "Active" /\ Ordinal[t.to] \in pods
    /\ transfers' = transfers \ {t}
    /\ rep' = [rep EXCEPT ![t.shard][t.to] = "Active",
                          ![t.shard][t.from] = IF t.op = "Move" THEN "None" ELSE @]
    /\ UNCHANGED <<spec, status, edited, kube, peers, inbox, pc, expired, reshard, budget>>

AbortTransfer(t) ==
    /\ t \in transfers
    /\ transfers' = transfers \ {t}
    /\ rep' = [rep EXCEPT ![t.shard][t.to] = "None"]
    /\ \/ rep[t.shard][t.from] # "Active" /\ UNCHANGED budget
       \/ Fault("transferFails")
    /\ UNCHANGED <<spec, status, edited, kube, peers, inbox, pc, expired, reshard>>

\* Qdrant never declares the last Active replica dead.
ReplicaDies(s, p) ==
    /\ rep[s][p] = "Active"
    /\ \E q \in Peer \ {p} : rep[s][q] = "Active"
    /\ rep' = [rep EXCEPT ![s][p] = "Dead"]
    /\ Fault("replicaDies")
    /\ UNCHANGED <<spec, status, edited, kube, peers, transfers, inbox, pc, expired, reshard>>

(***************************************************************************)
(* StatefulSet controller, joining pods, users, other controllers, time.   *)
(***************************************************************************)
PodStart(k) ==
    /\ k \in 0..(sts - 1) \ pods
    /\ pods' = pods \cup {k}
    /\ newborn' = newborn \cup ({k} \ {Ordinal[p] : p \in peers})
    /\ UNCHANGED <<spec, status, edited, sts, qdrant, pc, expired, reshard, budget>>

Join(p) ==
    /\ Ordinal[p] \in newborn
    /\ newborn' = newborn \ {Ordinal[p]}
    /\ peers' = peers \cup {p}
    /\ UNCHANGED <<spec, status, edited, sts, pods, rep, transfers, inbox, pc,
                   expired, reshard, budget>>

SetReplicas(n) ==
    /\ n # spec.replicas /\ budget.edits < MaxEdits
    /\ spec' = [spec EXCEPT !.replicas = n]
    /\ edited' = (pc # "idle")
    /\ budget' = [budget EXCEPT !.edits = @ + 1]
    /\ UNCHANGED <<status, kube, qdrant, pc, expired, reshard>>

SwitchRebalance ==
    /\ budget.edits < MaxEdits
    /\ spec' = [spec EXCEPT !.rebalance = ~ @]
    /\ edited' = (pc # "idle")
    /\ budget' = [budget EXCEPT !.edits = @ + 1]
    /\ UNCHANGED <<status, kube, qdrant, pc, expired, reshard>>

\* An accepted command becomes visible, or is lost, well before the deadline; one
\* that the server is slower to start is still to come when the deadline passes.
DeadlinePasses ==
    /\ status.activeMove # NoMove /\ ~ expired
    /\ pc = "idle"
    /\ \/ inbox = {} /\ UNCHANGED budget
       \/ inbox # {} /\ Fault("lateStart")
    /\ expired' = TRUE
    /\ UNCHANGED <<spec, status, edited, kube, qdrant, pc, reshard>>

\* clusterMoveActive: what a reshard workflow of a QdrantCollection waits for.
ClusterMoveActive == status.activeMove # NoMove \/ status.drain

ReshardBegin ==
    /\ ~ reshard /\ ~ ClusterMoveActive
    /\ budget.reshards < MaxReshards
    /\ reshard' = TRUE
    /\ budget' = [budget EXCEPT !.reshards = @ + 1]
    /\ UNCHANGED <<spec, status, edited, kube, qdrant, pc, expired>>

\* Copying proceeds, to the end of the workflow, only while no move is active.
ReshardComplete ==
    /\ reshard /\ ~ ClusterMoveActive
    /\ reshard' = FALSE
    /\ UNCHANGED <<spec, status, edited, kube, qdrant, pc, expired, budget>>

Operator ==
    \/ ScaleOut \/ SteadyHold \/ SteadyPass
    \/ DrainUnobservable \/ DrainPass
    \/ IssueCommand \/ RemovePeer \/ ShrinkOne

Server ==
    \/ \E m \in inbox : ApplyCommand(m) \/ DiscardCommand(m)
    \/ \E t \in transfers : FinishTransfer(t) \/ AbortTransfer(t)

Next ==
    \/ Operator \/ AbandonPass
    \/ Server
    \/ \E s \in Shard, p \in Peer : ReplicaDies(s, p)
    \/ \E k \in 0..(MaxReplicas - 1) : PodStart(k)
    \/ \E p \in Peer : Join(p)
    \/ (\E n \in 1..MaxReplicas : SetReplicas(n)) \/ SwitchRebalance
    \/ DeadlinePasses
    \/ ReshardBegin \/ ReshardComplete

Spec == Init /\ [][Next]_vars

(***************************************************************************)
(* Fairness.  Every pass of the code requeues itself, so a pass that would *)
(* change something is eventually run; the server works off what it has    *)
(* accepted, started pods join, and time passes.                           *)
(***************************************************************************)
Fairness ==
    /\ WF_vars(ScaleOut) /\ WF_vars(SteadyHold) /\ WF_vars(SteadyPass)
    /\ WF_vars(DrainPass)
    /\ WF_vars(IssueCommand) /\ WF_vars(RemovePeer) /\ WF_vars(ShrinkOne)
    /\ WF_vars(Server)
    /\ WF_vars(\E k \in 0..(MaxReplicas - 1) : PodStart(k))
    /\ WF_vars(\E p \in Peer : Join(p))
    /\ WF_vars(DeadlinePasses)
    /\ WF_vars(ReshardComplete)

FairSpec == Spec /\ Fairness

(***************************************************************************)
(* Safety.                                                                 *)
(***************************************************************************)

\* drain.go:30-32, "the last active replica is never lost": whatever moves,
\* drops, removals, shrinks, crashes and failed calls happen, every shard keeps
\* an Active replica on a consensus member that the StatefulSet still runs.
NoShardLost ==
    \A s \in Shard : \E p \in peers :
        rep[s][p] = "Active" /\ Ordinal[p] < sts

\* drain.go:183 and :30-32: the StatefulSet shrinks by exactly one ordinal,
\* never below one, and only when the peer of that ordinal holds no replica.
ShrinkKeepsData ==
    [][sts' < sts =>
        /\ sts' = sts - 1 /\ sts' >= 1
        /\ \A p \in Peer : Ordinal[p] = sts' => Empty(p)]_vars

\* rebalance.go:235-262: every command the server has accepted and not
\* finished is the one in status.activeMove, so a restarted controller knows
\* what is outstanding.
CommandTracked ==
    \A m \in inbox \cup transfers : m = status.activeMove

\* rebalance.go:68: at most one shard command is outstanding cluster-wide.
SingleLane == Cardinality(transfers) + Cardinality(inbox) <= 1

\* rebalance.go:252-260, :287-293 and :364-381: a lane that backs off says so in
\* the Degraded condition, and a reported MoveFailed goes with a back-off.
BackoffVisible ==
    /\ status.backoff > 0 => status.degraded # "None"
    /\ status.degraded = "MoveFailed" => status.backoff > 0

\* rebalance.go:325-326: the rebalance lane drops a dead replica only after it has
\* brought the Active ones back to the replication factor.
DeadDroppedLast ==
    [][\A m \in inbox' \ inbox :
        pc = "issue" /\ rep[m.shard][m.from] = "Dead" =>
            Cardinality({p \in Peer : rep[m.shard][p] = "Active"}) >= RF[m.shard[1]]]_vars

\* rebalance.go:358-360: with spec.rebalance.enabled off the plan is only shown.
\* The server is given a command by a scale-in alone, to empty a leaving peer,
\* or by a pass that had begun before the switch was turned off.
DryRunInert ==
    [][\A m \in inbox' \ inbox :
        \/ spec.rebalance \/ edited
        \/ pc = "drainIssue" /\ Ordinal[m.from] = sts - 1]_vars

(***************************************************************************)
(* Liveness.                                                               *)
(***************************************************************************)

\* A scale-in or scale-out that is not edited again is carried out, unless a dead
\* replica holds the drain up (drain.go:233).
ScaleCompletes == <>[](sts = spec.replicas \/ HasDead(FullObservation))

\* rebalance.go:233 ("the record is cleared, so the lane never stops"): no
\* lost, refused or failed command occupies the lane for ever.
LaneFrees == []<>(status.activeMove = NoMove)

\* rebalance.go:28-29 and :489-490: rebalancing terminates in a placement the
\* planners leave alone, where rebalancing is on.
Rebalanced ==
    <>[](/\ inbox = {} /\ transfers = {}
         /\ spec.rebalance /\ Cardinality(peers) = spec.replicas =>
                Plan(FullObservation) = {})

\* rebalance.go:644-647: where rebalancing is on and a peer is spare for every
\* shard, dead replicas are repaired and reclaimed without anyone's help.
DeadRepaired ==
    <>[](spec.rebalance /\ (\A c \in Collection : RF[c] < Cardinality(peers)) =>
            ~ HasDead(FullObservation))

\* The same where no scale-in is left to do: lost, refused and failed commands
\* delay the repair and the reclaim of a dead replica, they do not end it.
RepairCompletes ==
    <>[](/\ spec.rebalance /\ sts = spec.replicas
         /\ \A c \in Collection : RF[c] < Cardinality(peers)
         => ~ HasDead(FullObservation))

\* rebalance.go:345-350 and :364-366: MoveFailed does not outlive the failing
\* move: once nothing is left to move, the condition is cleared.
MoveFailedCleared ==
    <>[](spec.rebalance /\ sts = spec.replicas => status.degraded # "MoveFailed")
=============================================================================
