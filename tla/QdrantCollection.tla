-------------------------- MODULE QdrantCollection --------------------------
(***************************************************************************)
(* The QdrantCollection controller (qdrantcollection_controller.go) and    *)
(* its reshard workflow (reshard.go): create or adopt the collection, keep *)
(* the alias on it, and change its shard number by copying it into a       *)
(* shadow collection and swapping the alias.                               *)
(*                                                                         *)
(* One reconcile pass is one step.  A pass makes its Qdrant calls in order *)
(* and ends with one status update; it may fail at each of them, so its    *)
(* outcomes are the prefixes of its effects.  An edit of the resource that *)
(* overlaps a pass is an edit before or after it plus a failing update.    *)
(*                                                                         *)
(* A collection name is the sequence of generations in "-rs-g<generation>" *)
(* suffixes: the collection named in the spec is the empty sequence.       *)
(***************************************************************************)
EXTENDS Integers, Sequences, FiniteSets, FiniteSetsExt

CONSTANTS
    Point,        \* point ids: positive naturals, the order of a scroll
    Batch,        \* reshardCopyBatch
    ShardNumber,  \* values of spec.shardNumber
    InitColls,    \* the possible contents of the server at the start
    Faults,       \* the classes of failure that may happen
    MaxFaults,    \* bound on the number of failures
    MaxEdits,     \* bound on the number of edits of the spec
    MaxWrites,    \* bound on the number of client writes
    MaxMoves,     \* bound on the number of shard moves of the cluster
    EditPhases,   \* reshard phases in which the spec is edited
    WritePhases   \* reshard phases in which clients write

VARIABLES
    spec,       \* shardNumber, onDelete, alias set, reshard = Auto, generation
    object,     \* "live", "deleting" (DeletionTimestamp set) or "gone"
    finalizer,  \* the deletion finalizer is set
    status,     \* activeCollection, adopted, Ready, Degraded reason, reshard
    colls,      \* collections of the server, by name
    alias,      \* collection that the alias of the spec names
    cluster,    \* "idle", "moving" (clusterMoveActive) or "gone"
    budget

vars == <<spec, object, finalizer, status, colls, alias, cluster, budget>>

Base == << >>
NoName == <<0>>
Unset == 0
NoReshard == [phase |-> "None"]
FaultClass == {"callFails", "aliasCallFails", "deleteFails", "updateFails", "clusterGone"}
Phase == {"Preparing", "Copying", "Swapping", "Finalizing", "Failed", "Blocked"}
Reason == {"None", "ClusterNotFound", "QdrantUnreachable", "CreateFailed", "AliasFailed",
           "ReshardRequired", "ParamsMismatch", "ReshardFailed", "SourceMutated",
           "ShadowConflict"}
Collection == [shards : Nat \ {0}, fit : {"same", "lowRF", "other"},
               points : SUBSET Point]

ASSUME PointAssumption == Point \subseteq Nat \ {0} /\ IsFiniteSet(Point)
ASSUME ReshardBounds ==
    /\ Batch \in Nat \ {0} /\ ShardNumber \subseteq Nat \ {0}
    /\ MaxFaults \in Nat /\ MaxEdits \in Nat /\ MaxWrites \in Nat /\ MaxMoves \in Nat
    /\ Faults \subseteq FaultClass
    /\ EditPhases \subseteq Phase \cup {"None"} /\ WritePhases \subseteq Phase \cup {"None"}

Name == Seq(Nat)

\* The server holds collections, whatever their names.
ASSUME ServerAssumption ==
    \A c \in InitColls : DOMAIN c \subseteq Name /\ c \in [DOMAIN c -> Collection]

Reshard == [phase : Phase, source : Name, shadow : Name, target : Nat \ {0},
            total : Nat, cursor : Nat]
Resource == [shards : ShardNumber \cup {Unset}, onDelete : {"Retain", "Delete"},
             alias : BOOLEAN, auto : BOOLEAN, generation : Nat]
Status == [active : Name, adopted : BOOLEAN, ready : BOOLEAN, degraded : Reason,
           reshard : Reshard \cup {NoReshard}]
Budget == [faults : 0..MaxFaults, edits : 0..MaxEdits,
           writes : 0..MaxWrites, moves : 0..MaxMoves]

TypeOK ==
    /\ spec \in Resource
    /\ object \in {"live", "deleting", "gone"} /\ finalizer \in BOOLEAN
    /\ status \in Status
    /\ DOMAIN colls \subseteq Name /\ colls \in [DOMAIN colls -> Collection]
    /\ alias \in DOMAIN colls \cup {NoName}
    /\ cluster \in {"idle", "moving", "gone"}
    /\ budget \in Budget

Init ==
    /\ spec \in [shards : ShardNumber \cup {Unset}, onDelete : {"Retain", "Delete"},
                 alias : BOOLEAN, auto : BOOLEAN, generation : {1}]
    /\ object = "live" /\ finalizer = FALSE
    /\ status = [active |-> NoName, adopted |-> FALSE, ready |-> FALSE,
                 degraded |-> "None", reshard |-> NoReshard]
    /\ colls \in InitColls
    /\ alias = NoName /\ cluster = "idle"
    /\ budget = [faults |-> 0, edits |-> 0, writes |-> 0, moves |-> 0]

(***************************************************************************)
(* Failures and the status update that ends a pass.                        *)
(***************************************************************************)
Spend(n) ==
    /\ budget.faults + n <= MaxFaults
    /\ budget' = [budget EXCEPT !.faults = @ + n]

UpdateStatus(written, spent) ==
    \/ status' = written /\ Spend(spent)
    \/ "updateFails" \in Faults /\ status' = status /\ Spend(spent + 1)

(***************************************************************************)
(* The Qdrant server: collections, aliases, scroll.  Deleting a collection *)
(* takes its alias along; deleting a missing one succeeds.                 *)
(***************************************************************************)
With(c, n, r) == [m \in DOMAIN c \cup {n} |-> IF m = n THEN r ELSE c[m]]
Without(c, n) == [m \in DOMAIN c \ {n} |-> c[m]]
AliasWithout(a, n) == IF a = n THEN NoName ELSE a
PointsOf(n) == IF n \in DOMAIN colls THEN colls[n].points ELSE {}
Fresh(shards) == [shards |-> shards, fit |-> "same", points |-> {}]

\* One page of a scroll from a cursor, and the cursor of the next page (0: none).
Remaining(n, cursor) == {p \in PointsOf(n) : p >= cursor}
Page(n, cursor) ==
    {p \in Remaining(n, cursor) :
        Cardinality({q \in Remaining(n, cursor) : q < p}) < Batch}
NextPage(n, cursor) ==
    LET rest == Remaining(n, cursor) \ Page(n, cursor)
    IN  IF rest = {} THEN 0 ELSE Min(rest)

(***************************************************************************)
(* Reconcile without a reshard in progress.                                *)
(***************************************************************************)
Physical == IF status.active = NoName THEN Base ELSE status.active

\* Mutant: an unset shard number is passed on.
ShardNumberAsGiven == spec.shards

ResolvedShardNumber ==
    IF spec.shards # Unset THEN spec.shards
    ELSE IF Physical \in DOMAIN colls THEN colls[Physical].shards
    ELSE 1

ParamsMatch ==
    /\ colls[Physical].fit \in {"same", "lowRF"}
    /\ colls[Physical].shards = ResolvedShardNumber

Reshardable ==
    /\ spec.shards # Unset
    /\ colls[Physical].fit = "same"
    /\ colls[Physical].shards # spec.shards

OptedIn == spec.auto /\ spec.alias

Degrade(st, reason) == [st EXCEPT !.degraded = reason]
SetReady(st) == [st EXCEPT !.ready = TRUE, !.degraded = "None"]

\* Without its cluster a resource is neither reconciled nor finalized.
ClusterNotFound ==
    /\ object # "gone" /\ cluster = "gone"
    /\ UpdateStatus(Degrade(status, "ClusterNotFound"), 0)
    /\ UNCHANGED <<spec, object, finalizer, colls, alias, cluster>>

\* Every live pass then aligns the finalizer with onDelete.
LivePass ==
    /\ object = "live" /\ cluster # "gone"
    /\ finalizer' = (spec.onDelete = "Delete")
    /\ UNCHANGED <<spec, object, cluster>>

SteadyPass == LivePass /\ status.reshard = NoReshard

\* ensureAlias, then setReady; the swap of the alias may succeed unnoticed.
EnsureAlias(st, spent) ==
    \/ /\ alias' = IF spec.alias THEN Physical ELSE alias
       /\ UpdateStatus(SetReady(st), spent)
    \/ /\ spec.alias /\ "aliasCallFails" \in Faults
       /\ alias' \in {alias, Physical}
       /\ UpdateStatus(Degrade(st, "AliasFailed"), spent + 1)

Unreachable ==
    /\ SteadyPass /\ "callFails" \in Faults
    /\ UpdateStatus(Degrade(status, "QdrantUnreachable"), 1)
    /\ UNCHANGED <<colls, alias>>

Create ==
    /\ SteadyPass /\ Physical \notin DOMAIN colls
    /\ \/ /\ colls' = With(colls, Physical, Fresh(ResolvedShardNumber))
          /\ EnsureAlias([status EXCEPT !.active = Physical, !.adopted = FALSE], 0)
       \/ /\ "callFails" \in Faults
          /\ colls' \in {colls, With(colls, Physical, Fresh(ResolvedShardNumber))}
          /\ UpdateStatus(Degrade(status, "CreateFailed"), 1)
          /\ alias' = alias

Adopt ==
    /\ SteadyPass /\ Physical \in DOMAIN colls /\ ParamsMatch
    /\ EnsureAlias([status EXCEPT !.active = Physical,
                                  !.adopted = @ \/ ~ status.ready], 0)
    /\ colls' = colls

BeginReshard ==
    /\ SteadyPass /\ Physical \in DOMAIN colls
    /\ Reshardable /\ OptedIn /\ cluster = "idle"
    /\ UpdateStatus([status EXCEPT !.reshard =
            [phase |-> "Preparing", source |-> Physical,
             shadow |-> Append(Physical, spec.generation), target |-> spec.shards,
             total |-> Cardinality(PointsOf(Physical)), cursor |-> 0]], 0)
    /\ UNCHANGED <<colls, alias>>

ReportMismatch ==
    /\ SteadyPass /\ Physical \in DOMAIN colls
    /\ ~ ParamsMatch /\ ~ (Reshardable /\ OptedIn)
    /\ UpdateStatus(Degrade(status, IF Reshardable THEN "ReshardRequired"
                                    ELSE "ParamsMismatch"), 0)
    /\ UNCHANGED <<colls, alias>>

(***************************************************************************)
(* reconcileReshard.                                                       *)
(***************************************************************************)
rs == status.reshard

InPhase(p, st) == [st EXCEPT !.reshard.phase = p]

\* DeleteCollection(shadow) with its error ignored, then the status update.
Discard(c, a, st, spent) ==
    \E kept \in BOOLEAN :
        /\ kept => "deleteFails" \in Faults
        /\ colls' = IF kept THEN c ELSE Without(c, rs.shadow)
        /\ alias' = IF kept THEN a ELSE AliasWithout(a, rs.shadow)
        /\ UpdateStatus(st, spent + IF kept THEN 1 ELSE 0)

FailReshard(c, a, reason, spent) ==
    Discard(c, a, Degrade(InPhase("Failed", [status EXCEPT !.reshard.cursor = 0]), reason),
            spent)

ReshardPass == LivePass /\ rs # NoReshard

\* The first check of a pass, in whatever phase: the target has been edited.
Retarget ==
    /\ ReshardPass /\ spec.shards # rs.target
    /\ Discard(colls, alias, [status EXCEPT !.reshard = NoReshard], 0)

Driven(phases) == ReshardPass /\ spec.shards = rs.target /\ rs.phase \in phases

\* Mutant: a failed workflow is not entered again.
PrepareOnce ==
    /\ Driven({"Preparing"})
    /\ colls' = With(colls, rs.shadow, Fresh(rs.target))
    /\ alias' = alias
    /\ UpdateStatus(InPhase("Copying", status), 0)

Prepare ==
    /\ Driven({"Preparing", "Failed"})
    /\ LET copying == InPhase("Copying", [status EXCEPT !.reshard.cursor = 0])
       IN  \/ "callFails" \in Faults /\ FailReshard(colls, alias, "ReshardFailed", 1)
           \/ /\ rs.shadow \notin DOMAIN colls
              /\ colls' = With(colls, rs.shadow, Fresh(rs.target))
              /\ alias' = alias
              /\ UpdateStatus(copying, 0)
           \/ /\ rs.shadow \in DOMAIN colls /\ colls[rs.shadow].shards # rs.target
              /\ UpdateStatus(Degrade(InPhase("Blocked", status), "ShadowConflict"), 0)
              /\ UNCHANGED <<colls, alias>>
           \/ /\ rs.shadow \in DOMAIN colls /\ colls[rs.shadow].shards = rs.target
              /\ UpdateStatus(copying, 0)
              /\ UNCHANGED <<colls, alias>>

Upserted ==
    IF Page(rs.source, rs.cursor) = {} THEN colls
    ELSE [colls EXCEPT ![rs.shadow].points = @ \cup Page(rs.source, rs.cursor)]

\* Mutant: the cursor of the next page is not looked at.
CopyOnePage ==
    /\ Driven({"Copying"}) /\ cluster = "idle"
    /\ rs.shadow \in DOMAIN colls
    /\ colls' = Upserted /\ alias' = alias
    /\ UpdateStatus(InPhase("Swapping", status), 0)

\* reshardCopyStep: one page, then the count of the source is compared.
CopyStep ==
    /\ Driven({"Copying"}) /\ cluster = "idle"
    /\ LET page == Page(rs.source, rs.cursor)
           next == NextPage(rs.source, rs.cursor)
           lost == page # {} /\ rs.shadow \notin DOMAIN colls
           mutated == Cardinality(PointsOf(rs.source)) # rs.total
       IN  \/ /\ "callFails" \in Faults
              /\ \E c \in {colls, IF lost THEN colls ELSE Upserted} :
                    FailReshard(c, alias, "ReshardFailed", 1)
           \/ lost /\ FailReshard(colls, alias, "ReshardFailed", 0)
           \/ /\ ~ lost /\ next # 0
              /\ colls' = Upserted /\ alias' = alias
              /\ UpdateStatus([status EXCEPT !.reshard.cursor = next], 0)
           \/ /\ ~ lost /\ next = 0 /\ mutated
              /\ FailReshard(Upserted, alias, "SourceMutated", 0)
           \/ /\ ~ lost /\ next = 0 /\ ~ mutated
              /\ colls' = Upserted /\ alias' = alias
              /\ UpdateStatus(InPhase("Swapping", status), 0)

\* The alias calls fail before the swap, or after it when it is verified.
Swap ==
    /\ Driven({"Swapping"})
    /\ \/ /\ rs.shadow \in DOMAIN colls
          /\ alias' = rs.shadow /\ colls' = colls
          /\ UpdateStatus(InPhase("Finalizing", status), 0)
       \/ /\ rs.shadow \notin DOMAIN colls
          /\ FailReshard(colls, alias, "ReshardFailed", 0)
       \/ /\ "aliasCallFails" \in Faults
          /\ \E a \in {alias} \cup {n \in DOMAIN colls : n = rs.shadow} :
                FailReshard(colls, a, "ReshardFailed", 1)

\* Mutant: the active collection is disposed of, after it has become the shadow.
FinalizeDeletesActive ==
    /\ Driven({"Finalizing"})
    /\ IF spec.onDelete = "Delete"
       THEN /\ colls' = Without(colls, rs.shadow)
            /\ alias' = AliasWithout(alias, rs.shadow)
       ELSE UNCHANGED <<colls, alias>>
    /\ UpdateStatus(SetReady([status EXCEPT !.active = rs.shadow,
                                            !.reshard = NoReshard]), 0)

Finalize ==
    /\ Driven({"Finalizing"})
    /\ IF spec.onDelete = "Delete"
       THEN /\ colls' = Without(colls, rs.source)
            /\ alias' = AliasWithout(alias, rs.source)
       ELSE UNCHANGED <<colls, alias>>
    /\ UpdateStatus(SetReady([status EXCEPT !.active = rs.shadow,
                                            !.reshard = NoReshard]), 0)

\* A pass that leaves with a requeue: a shard move is running, the workflow is
\* blocked, or the source could not be disposed of.
Wait ==
    /\ \/ SteadyPass /\ Physical \in DOMAIN colls /\ Reshardable /\ OptedIn
          /\ cluster = "moving"
       \/ Driven({"Copying"}) /\ cluster = "moving"
       \/ Driven({"Blocked"})
       \/ Driven({"Finalizing"}) /\ spec.onDelete = "Delete" /\ "callFails" \in Faults
    /\ UNCHANGED <<status, colls, alias, budget>>

(***************************************************************************)
(* Deletion: the finalizer deletes the physical collection.                *)
(***************************************************************************)
DeleteObject ==
    /\ object = "live"
    /\ object' = IF finalizer THEN "deleting" ELSE "gone"
    /\ UNCHANGED <<spec, finalizer, status, colls, alias, cluster, budget>>

\* Mutant: a reshard under way is waited for.
FinalizeObjectAfterReshard ==
    /\ object = "deleting" /\ cluster # "gone" /\ rs = NoReshard
    /\ colls' = Without(colls, Physical)
    /\ alias' = AliasWithout(alias, Physical)
    /\ object' = "gone" /\ finalizer' = FALSE /\ Spend(0)
    /\ UNCHANGED <<spec, status, cluster>>

FinalizeObject ==
    /\ object = "deleting" /\ cluster # "gone"
    /\ \/ /\ "callFails" \in Faults /\ Spend(1)
          /\ UNCHANGED <<object, finalizer, colls, alias>>
       \/ /\ colls' = Without(colls, Physical)
          /\ alias' = AliasWithout(alias, Physical)
          /\ \/ object' = "gone" /\ finalizer' = FALSE /\ Spend(0)
             \/ "updateFails" \in Faults /\ Spend(1) /\ UNCHANGED <<object, finalizer>>
    /\ UNCHANGED <<spec, status, cluster>>

(***************************************************************************)
(* Users, clients and the cluster controller.                              *)
(***************************************************************************)
SetSpec(shards, onDelete) ==
    /\ object = "live" /\ rs.phase \in EditPhases
    /\ <<shards, onDelete>> # <<spec.shards, spec.onDelete>>
    /\ budget.edits < MaxEdits
    /\ budget' = [budget EXCEPT !.edits = @ + 1]
    /\ spec' = [spec EXCEPT !.shards = shards, !.onDelete = onDelete, !.generation = @ + 1]
    /\ UNCHANGED <<object, finalizer, status, colls, alias, cluster>>

Named == IF alias = NoName THEN Physical ELSE alias

Write(pts) ==
    /\ Named \in DOMAIN colls /\ rs.phase \in WritePhases
    /\ budget.writes < MaxWrites
    /\ budget' = [budget EXCEPT !.writes = @ + 1]
    /\ colls' = [colls EXCEPT ![Named].points = pts]
    /\ UNCHANGED <<spec, object, finalizer, status, alias, cluster>>

Put(p) == Write(PointsOf(Named) \cup {p})
Remove(p) == Write(PointsOf(Named) \ {p})

ClusterBusy ==
    /\ cluster = "idle" /\ budget.moves < MaxMoves
    /\ cluster' = "moving"
    /\ budget' = [budget EXCEPT !.moves = @ + 1]
    /\ UNCHANGED <<spec, object, finalizer, status, colls, alias>>

ClusterIdle ==
    /\ cluster = "moving" /\ cluster' = "idle"
    /\ UNCHANGED <<spec, object, finalizer, status, colls, alias, budget>>

ClusterGone ==
    /\ "clusterGone" \in Faults /\ cluster # "gone" /\ cluster' = "gone"
    /\ Spend(1)
    /\ UNCHANGED <<spec, object, finalizer, status, colls, alias>>

Reconcile ==
    \/ ClusterNotFound \/ Unreachable \/ Create \/ Adopt \/ BeginReshard
    \/ ReportMismatch
    \/ Retarget \/ Prepare \/ CopyStep \/ Swap \/ Finalize \/ Wait
    \/ FinalizeObject

Next ==
    \/ Reconcile
    \/ DeleteObject
    \/ \E n \in ShardNumber \cup {Unset}, d \in {"Retain", "Delete"} : SetSpec(n, d)
    \/ \E p \in Point : Put(p) \/ Remove(p)
    \/ ClusterBusy \/ ClusterIdle \/ ClusterGone

Spec == Init /\ [][Next]_vars

(***************************************************************************)
(* Fairness: every pass requeues itself, and a shard move ends.            *)
(***************************************************************************)
FairSpec == Spec /\ WF_vars(Reconcile) /\ WF_vars(ClusterIdle)

(***************************************************************************)
(* Properties                                                              *)
(***************************************************************************)

\* phase-b-collections-and-rebalance.md:101-103: consumers that use the alias
\* see no interruption and no change of content.
Logical == INSTANCE LogicalCollection WITH
    content <- PointsOf(Named),
    calls <- budget.writes,
    deleted <- object # "live"

Implements == Logical!Spec

\* blueprint 9.5 and reshard.go:192: while the resource lives, no pass takes away
\* the collection that the alias names.
AliasKept == [][alias # NoName /\ object = "live" => alias' # NoName]_vars

Settled ==
    /\ rs = NoReshard /\ Physical \in DOMAIN colls
    /\ OptedIn => ~ Reshardable
    /\ ParamsMatch /\ spec.alias => alias = Physical

\* reshard.go:122-214: an edit of shardNumber is carried out, and the alias ends
\* on the collection that the resource calls active.
Converges == <>[](object = "live" => Settled)

\* qdrantcollection_controller.go:73: a resource that was deleted goes away, from
\* every phase of a reshard and after failed passes, as long as its cluster is
\* there (qdrantcollection_controller.go:59 looks for the cluster first).
DeletionEnds == []<>(object # "deleting" \/ cluster = "gone")
=============================================================================
