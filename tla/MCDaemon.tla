------------------------------ MODULE MCDaemon ------------------------------
(* Instances of Daemon for TLC.                                            *)
EXTENDS Daemon

CONSTANTS n1, n2

TwoNodes == <<n1, n2>>

(* Container 1 may be on both nodes, container 2 on the second only.       *)
MovableAndLocal == 1 :> {n1, n2} @@ 2 :> {n2}
=============================================================================
