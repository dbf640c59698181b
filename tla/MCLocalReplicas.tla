--------------------------- MODULE MCLocalReplicas ---------------------------
(* A small instance of LocalReplicas for TLC. *)
EXTENDS LocalReplicas, TLC

CONSTANTS v1, v2, p1

\* replicas 1 and 2; the hub is node 0, an id no replica has
MCReplica == {1, 2}
MCHub == 0
MCKey == MCReplica \X (1 .. MaxFeatures)

ValueSymmetry == Permutations(Text)
=============================================================================
