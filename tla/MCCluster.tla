----------------------------- MODULE MCCluster -----------------------------
(* Small instances of the cluster. *)
EXTENDS Cluster, TLC

CONSTANTS c1, w1, w2

ApiRequests == {[content |-> c1, hot |-> FALSE, dedupe |-> FALSE]}
HotRequests == {[content |-> c1, hot |-> TRUE, dedupe |-> FALSE]}
AnyRequests == ApiRequests \cup HotRequests
=============================================================================
