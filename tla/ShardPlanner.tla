---------------------------- MODULE ShardPlanner ----------------------------
(***************************************************************************)
(* The pure planners of the cluster controller (rebalance.go, drain.go).   *)
(* Each one is a function of one observation of the Qdrant cluster.  The   *)
(* controller executes only the first entry of a plan, so a planner is     *)
(* written as the set of moves it may put first: {} is the empty plan, and *)
(* a set of several moves means that the order the server listed the       *)
(* shards in decides.                                                      *)
(*                                                                         *)
(* An observation is a record:                                             *)
(*   peers      consensus members (GET /cluster)                           *)
(*   shards     shards of the collections whose layout could be read       *)
(*   rep        rep[s][p]: state of the replica of s on p, or "None"       *)
(*   transfers  running transfers of those collections                     *)
(*   rf         replication target per collection, 0 if it was not read    *)
(*   sized      SizesComplete: every per-peer size query succeeded         *)
(***************************************************************************)
EXTENDS Integers, FiniteSets, FiniteSetsExt

CONSTANTS
    Peer,          \* peer ids: positive naturals, ordered like the code's uint64s
    Shard,         \* shards: pairs <<collection, shard id>> of naturals
    Ordinal,       \* Ordinal[p]: StatefulSet ordinal in the URI of peer p
    Points,        \* Points[s]: number of points in shard s
    SizeMinDelta   \* sizeMinDelta, in the unit of Points

ASSUME PeerAssumption == Peer \subseteq Nat \ {0} /\ IsFiniteSet(Peer)
ASSUME ShardAssumption == Shard \subseteq Nat \X Nat /\ IsFiniteSet(Shard)
\* Every pod has one URI, so no two peers share an ordinal.
ASSUME OrdinalAssumption ==
    /\ Ordinal \in [Peer -> Nat]
    /\ \A p, q \in Peer : Ordinal[p] = Ordinal[q] => p = q

NoPeer == 0
Collection == {s[1] : s \in Shard}
ReplicaState == {"None", "Active", "Partial", "Dead"}
Move == [op : {"Move", "Replicate", "Drop"}, shard : Shard,
         from : Peer, to : Peer \cup {NoPeer}]

(***************************************************************************)
(* Readings of an observation                                              *)
(***************************************************************************)
Holders(o, s) == {p \in Peer : o.rep[s][p] # "None"}
ActiveHolders(o, s) == {p \in Peer : o.rep[s][p] = "Active"}
HeldBy(o, p) == {s \in o.shards : o.rep[s][p] # "None"}
ShardCount(o, c, p) == Cardinality({s \in HeldBy(o, p) : s[1] = c})

AllShardsActive(o) ==
    \A s \in o.shards, p \in Peer : o.rep[s][p] \in {"None", "Active"}

\* Mutant: a dead replica counts as one in transition.
TransitioningOrDead(o) ==
    \E s \in o.shards, p \in Peer : o.rep[s][p] \notin {"None", "Active"}

\* Neither Active nor Dead: Dead is final and must not hold up its own repair.
Transitioning(o) ==
    \E s \in o.shards, p \in Peer : o.rep[s][p] \notin {"None", "Active", "Dead"}

HasDead(o) == \E s \in o.shards, p \in Peer : o.rep[s][p] = "Dead"

\* Completion is judged from the placement alone, never from the transfers.
MoveCompleted(o, m) ==
    /\ m.shard \in o.shards
    /\ CASE m.op = "Drop"      -> o.rep[m.shard][m.from] = "None"
         [] m.op = "Replicate" -> o.rep[m.shard][m.to] = "Active"
         [] m.op = "Move"      -> /\ o.rep[m.shard][m.to] = "Active"
                                  /\ o.rep[m.shard][m.from] = "None"

(***************************************************************************)
(* Ordering of a plan: the moves whose key is lexicographically least.     *)
(***************************************************************************)
LexLess(a, b) ==
    \E i \in DOMAIN a : a[i] < b[i] /\ \A j \in DOMAIN a : j < i => a[j] = b[j]

Earliest(key) ==
    {m \in DOMAIN key : \A n \in DOMAIN key : ~ LexLess(key[n], key[m])}

(***************************************************************************)
(* planReplications: restore the replication factor.  The source is the    *)
(* least Active holder, the target the least loaded peer without a copy,   *)
(* dead copies included.                                                   *)
(***************************************************************************)
ReplicationTargets(o, s) ==
    {p \in o.peers : o.rep[s][p] \notin {"Active", "Dead"}}

ReplicationPlan(o) ==
    {m \in [op : {"Replicate"}, shard : o.shards, from : Peer, to : o.peers] :
        LET c == m.shard[1]
            active == ActiveHolders(o, m.shard)
            targets == ReplicationTargets(o, m.shard)
        IN  /\ o.rf[c] >= 2
            /\ Cardinality(o.peers) >= o.rf[c]
            /\ Cardinality(active) < o.rf[c]
            /\ m.from \in active /\ \A p \in active : m.from <= p
            /\ m.to \in Earliest([p \in targets |-> <<ShardCount(o, c, p), p>>])}

(***************************************************************************)
(* planDeadDrops: drop a dead copy once the Active ones reach the target.  *)
(***************************************************************************)
\* Mutant: the replication factor is not waited for.
DeadDropEagerly(o) ==
    {m \in [op : {"Drop"}, shard : o.shards, from : Peer, to : {NoPeer}] :
        /\ o.rep[m.shard][m.from] = "Dead"
        /\ ActiveHolders(o, m.shard) # {}}

DeadDropPlan(o) ==
    {m \in [op : {"Drop"}, shard : o.shards, from : Peer, to : {NoPeer}] :
        /\ o.rep[m.shard][m.from] = "Dead"
        /\ Cardinality(ActiveHolders(o, m.shard)) >= o.rf[m.shard[1]]
        /\ ActiveHolders(o, m.shard) # {}}

(***************************************************************************)
(* planRebalance: shard counts per collection first, point totals second.  *)
(***************************************************************************)
CountPlan(o) ==
    {m \in [op : {"Move"}, shard : o.shards, from : o.peers, to : o.peers] :
        LET c == m.shard[1]
            movable == {s \in HeldBy(o, m.from) :
                            s[1] = c /\ o.rep[s][m.to] = "None"}
        IN  /\ ShardCount(o, c, m.from) - ShardCount(o, c, m.to) >= 2
            /\ m.shard \in movable
            /\ \A s \in movable : m.shard[2] <= s[2]}

PeerTotal(o, p) == MapThenSumSet(LAMBDA s : Points[s], HeldBy(o, p))

TotalsAfter(o, m) ==
    [p \in o.peers |-> CASE p = m.from -> PeerTotal(o, p) - Points[m.shard]
                         [] p = m.to   -> PeerTotal(o, p) + Points[m.shard]
                         [] OTHER      -> PeerTotal(o, p)]

Spread(total) == LET v == {total[p] : p \in DOMAIN total} IN Max(v) - Min(v)

Fullest(o) == Earliest([p \in o.peers |-> <<-PeerTotal(o, p), p>>])
Emptiest(o) == Earliest([p \in o.peers |-> <<PeerTotal(o, p), p>>])

\* A move from the fullest to the emptiest peer, only if it narrows the spread.
SizeCandidates(o) ==
    {m \in [op : {"Move"}, shard : o.shards, from : Fullest(o), to : Emptiest(o)] :
        LET most == PeerTotal(o, m.from)
            least == PeerTotal(o, m.to)
        IN  /\ o.sized
            /\ m.from # m.to
            /\ most - least >= SizeMinDelta
            /\ most >= 2 * Max({least, 1})
            /\ m.shard \in HeldBy(o, m.from)
            /\ o.rep[m.shard][m.to] = "None"
            /\ Spread(TotalsAfter(o, m)) < most - least}

SizePlan(o) ==
    Earliest([m \in SizeCandidates(o) |->
        <<Spread(TotalsAfter(o, m)), m.shard[1], m.shard[2]>>])

RebalancePlan(o) ==
    IF Cardinality(o.peers) < 2 \/ HasDead(o) THEN {}
    ELSE IF CountPlan(o) # {}
    THEN Earliest([m \in CountPlan(o) |->
            <<-ShardCount(o, m.shard[1], m.from), ShardCount(o, m.shard[1], m.to),
              -m.from, m.to, m.shard[2], m.shard[1]>>])
    ELSE SizePlan(o)

\* The first entry of the steady-state plan: durability, then clean-up, then balance.
Plan(o) ==
    IF ReplicationPlan(o) # {}
    THEN Earliest([m \in ReplicationPlan(o) |-> m.shard])
    ELSE IF DeadDropPlan(o) # {}
    THEN Earliest([m \in DeadDropPlan(o) |-> <<m.shard[1], m.shard[2], m.from>>])
    ELSE RebalancePlan(o)

(***************************************************************************)
(* planPeerDrain: empty the peer that is about to leave.  The keepers are  *)
(* the peers that survive the whole scale-in.                              *)
(***************************************************************************)
Keepers(o, replicas) == {p \in o.peers : Ordinal[p] < replicas}
Takers(o, s, keepers) == {p \in keepers : o.rep[s][p] = "None"}

DrainBlocked(o, target, keepers) ==
    \E s \in HeldBy(o, target) :
        Takers(o, s, keepers) = {} /\ Cardinality(Holders(o, s)) < 2

DrainPlan(o, target, keepers) ==
    {m \in [op : {"Move", "Drop"}, shard : HeldBy(o, target),
            from : {target}, to : keepers \cup {NoPeer}] :
        LET takers == Takers(o, m.shard, keepers)
        IN  /\ \A s \in HeldBy(o, target) : m.shard[1] <= s[1]
            /\ \/ /\ m.op = "Move"
                  /\ m.to \in Earliest([p \in takers |->
                                        <<Cardinality(HeldBy(o, p)), p>>])
               \/ m.op = "Drop" /\ m.to = NoPeer /\ takers = {}}
=============================================================================
