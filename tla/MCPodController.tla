-------------------------- MODULE MCPodController --------------------------
(* Instances of PodController for TLC: who may call what on which pod.     *)
EXTENDS PodController, FiniteSets

CONSTANTS c1, c2, c3, p1, p2, h

(* spec.vmid is 0, and spec.hostname empty, unless a run says otherwise.   *)
NoVMID == [p \in Pods |-> 0]
OwnName == [p \in Pods |-> p]
OtherName == [p \in Pods |-> IF p = p1 THEN h ELSE p]

(* Every pod has one client, which does everything for it.                 *)
Owners == {<<c, o, p>> \in Clients \X Ops \X Pods : c = c1 <=> p = p1}

(* Every client may apply and delete every pod.                            *)
Anything == Clients \X {"apply", "delete"} \X Pods

(* Two clients that may delete the same pod.                               *)
TwoDeleters == ({c1} \X {"apply"} \X Pods) \cup ({c2, c3} \X {"delete"} \X {p1})
=============================================================================
