--------------------------- MODULE MCClusterLock ---------------------------
(* Instances of ClusterLock for TLC: two executors, one lock object each. *)
EXTENDS ClusterLock

CONSTANTS l1, l2, podA, podB

MCOwnerOf == [l \in {l1, l2} |-> IF l = l1 THEN podA ELSE podB]

=============================================================================
