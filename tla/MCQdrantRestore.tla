--------------------------- MODULE MCQdrantRestore ---------------------------
(***************************************************************************)
(* Instances of QdrantRestore for TLC.                                     *)
(***************************************************************************)
EXTENDS QdrantRestore

OneListing == {{1}}
TwoListed == {{1, 2}}

NoSources == {}
=============================================================================
