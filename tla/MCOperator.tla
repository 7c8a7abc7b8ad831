----------------------------- MODULE MCOperator -----------------------------
(* Instances of Operator for TLC.                                          *)
EXTENDS Operator

CONSTANTS w1, w2, p1, p2

NoVMID == [p \in Pods |-> 0]
OwnName == [p \in Pods |-> p]

(* Any worker may reconcile any resource.                                  *)
Reconciliations == Workers \X {"apply", "delete"} \X Pods
=============================================================================
