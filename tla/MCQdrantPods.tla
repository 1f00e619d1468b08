---------------------------- MODULE MCQdrantPods ----------------------------
(***************************************************************************)
(* QdrantPods with small bounds for TLC.                                   *)
(***************************************************************************)
EXTENDS QdrantPods

=============================================================================
