--------------------------- MODULE MCQdrantBackup ---------------------------
(***************************************************************************)
(* Instances of QdrantBackup for TLC: listings of collections.             *)
(***************************************************************************)
EXTENDS QdrantBackup

OneOrNone == {{}, {1}}
=============================================================================
