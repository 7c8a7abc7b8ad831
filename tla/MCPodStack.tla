----------------------------- MODULE MCPodStack -----------------------------
(* Instances of PodStack for TLC.                                          *)
EXTENDS PodStack

CONSTANTS p1, p2, p3, x

(* Every dependency graph, with self-dependencies, cycles, and names that  *)
(* are not in the stack.                                                   *)
OpenGraphs == [Pods -> SUBSET (Pods \cup Others)]

(* A chain: p2 depends on p1.                                              *)
Chain == {[p \in Pods |-> IF p = p1 THEN {} ELSE {p1}]}
=============================================================================
