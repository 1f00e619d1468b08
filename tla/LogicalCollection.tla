-------------------------- MODULE LogicalCollection --------------------------
(***************************************************************************)
(* What a QdrantCollection promises to the clients of its alias: a set of  *)
(* points that only they change.  Creating, adopting and resharding the    *)
(* physical collection behind it are invisible.  Only the deletion of the  *)
(* custom resource may end it.                                             *)
(***************************************************************************)
EXTENDS Naturals

CONSTANT Point

VARIABLES
    content,  \* the points a client finds
    calls,    \* how many writes the clients have made
    deleted   \* the QdrantCollection has been deleted

Init == content \in SUBSET Point /\ calls = 0 /\ deleted = FALSE

ClientWrite(points) ==
    content' = points /\ calls' = calls + 1 /\ UNCHANGED deleted

Put(p) == ClientWrite(content \cup {p})

Remove(p) == ClientWrite(content \ {p})

Delete == ~ deleted /\ deleted' = TRUE /\ UNCHANGED <<content, calls>>

Drop == deleted /\ content' = {} /\ UNCHANGED <<calls, deleted>>

Next == (\E p \in Point : Put(p) \/ Remove(p)) \/ Delete \/ Drop

Spec == Init /\ [][Next]_<<content, calls, deleted>>
=============================================================================
