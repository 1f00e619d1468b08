--------------------------- MODULE MCQdrantCluster ---------------------------
(***************************************************************************)
(* Instances of QdrantCluster for TLC.                                     *)
(***************************************************************************)
EXTENDS QdrantCluster, TLC

\* Peer ids are not in the order of the ordinals: ids are random in Qdrant.
Peers2 == {1, 2}
Peers3 == {1, 2, 3}
Ordinal2 == (1 :> 1) @@ (2 :> 0)
Ordinal3 == (1 :> 1) @@ (2 :> 2) @@ (3 :> 0)

\* Two collections of one shard; of three shards and one; one of four shards.
TwoCollections == {<<1, 0>>, <<2, 0>>}
ThreeAndOne == {<<1, 0>>, <<1, 1>>, <<1, 3>>, <<2, 0>>}
FourShards == {<<1, 0>>, <<1, 1>>, <<1, 2>>, <<1, 3>>}

RFOne == [c \in Collection |-> 1]
RFTwo == [c \in Collection |-> 2]
RFMixed == [c \in Collection |-> IF c = 1 THEN 2 ELSE 1]

EqualPoints == [s \in Shard |-> 1]
\* One shard outweighs the others, so that the size stage has something to move.
OneLarge == [s \in Shard |-> IF s[2] = 3 THEN 8 ELSE 1]
\* 20k points in shards 0 and 1, 5k in shards 2 and 3 (unit 5k; SizeMinDelta = 2)
SkewedPoints == [s \in Shard |-> IF s[2] \in {0, 1} THEN 4 ELSE 1]

\* holders[s]: the peers with an Active copy, dead[s] those with a dead one.
Placed(holders, dead) ==
    [s \in Shard |-> [p \in Peer |->
        CASE p \in holders[s] -> "Active" [] p \in dead[s] -> "Dead" [] OTHER -> "None"]]

None == [s \in Shard |-> {}]
Initially == {p \in Peer : Ordinal[p] < InitReplicas}

\* Every placement in which each shard has RF copies on the initial members.
AllPlacements ==
    {Placed(h, None) : h \in {f \in [Shard -> SUBSET Initially] :
        \A s \in Shard : Cardinality(f[s]) = Min({RF[s[1]], Cardinality(Initially)})}}

\* All shards on the same two members, with no copy of shard 0 dead or one.
CrowdedPlacements ==
    {Placed([s \in Shard |-> pair \ dead[s]], dead) :
        pair \in kSubset(2, Initially),
        dead \in {None} \cup {[None EXCEPT ![<<1, 0>>] = {p}] : p \in Initially}}

\* Two peers with two shards each, the large ones together.
SkewedPlacement ==
    {Placed([s \in Shard |-> IF s[2] \in {0, 1} THEN {1} ELSE {2}], None)}
=============================================================================
