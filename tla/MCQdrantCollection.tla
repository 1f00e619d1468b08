------------------------ MODULE MCQdrantCollection ------------------------
(***************************************************************************)
(* Instances of QdrantCollection for TLC.                                  *)
(***************************************************************************)
EXTENDS QdrantCollection, TLC

\* Three points and pages of two: a copy takes two passes.
Points3 == {1, 2, 3}

Existing(shards, fit, points) ==
    [shards |-> shards, fit |-> fit, points |-> points]

Nothing == [n \in {} |-> Existing(1, "same", {})]
Populated == Base :> Existing(1, "same", {1, 2, 3})
\* A collection of another owner under the name of the first shadow.
Foreign(shards) == <<1>> :> Existing(shards, "same", {3})

AnyServer ==
    {Nothing, Populated, Populated @@ Foreign(9),
     Base :> Existing(1, "same", {}),
     Base :> Existing(1, "lowRF", {1}), Base :> Existing(1, "other", {1})}
PopulatedServer == {Populated}
UsedServer == {Nothing, Populated, Base :> Existing(1, "same", {})}
=============================================================================
