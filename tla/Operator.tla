------------------------------ MODULE Operator ------------------------------
(***************************************************************************)
(* The Kubernetes operator (pkg/operator/reconciler.go): events of         *)
(* ProxKubePod resources are reconciled by calling Apply or Delete of the  *)
(* controller, and asked for again when that fails.                        *)
(*                                                                         *)
(* The repository has Reconcile, not the loop that calls it.  The loop is  *)
(* modelled as Reconcile's comments expect it: several workers, one at a   *)
(* time per resource; a newer event of a resource replaces an older one    *)
(* that has not been taken, also one that was requeued.  RequeueAfter is a *)
(* delay, and passes at any time.                                          *)
(*                                                                         *)
(* "Calm" is the point from which users leave their resources alone and    *)
(* nothing fails any more, but for what the workers do to one another.     *)
(***************************************************************************)
EXTENDS PodController, FiniteSets

CONSTANT Workers    \* the operator's workers, clients of the controller

ASSUME OperatorAssumption == Workers \subseteq Clients

VARIABLES
  exists,     \* exists[p]: there is a resource p
  event,      \* event[p]: the event of p that waits to be reconciled
  serving,    \* serving[c]: the resource worker c reconciles
  calm

resources == <<exists, event, serving, calm>>
opvars == <<vars, resources>>

(* ADDED and MODIFIED are one case of Reconcile, "CHANGED" here.  There is *)
(* no other type: of one, Reconcile would return an error, change nothing  *)
(* and not ask for it again.                                               *)
Events == {"CHANGED", "DELETED"}

OperatorTypeOK ==
  /\ TypeOK
  /\ exists \in [Pods -> BOOLEAN]
  /\ event \in [Pods -> Events \cup {"none"}]
  /\ serving \in [Workers -> Pods \cup {None}]
  /\ calm \in BOOLEAN

OperatorInit ==
  /\ Init
  /\ exists = [p \in Pods |-> FALSE]
  /\ event = [p \in Pods |-> "none"]
  /\ serving = [c \in Workers |-> None]
  /\ calm = FALSE

-----------------------------------------------------------------------------
(* Users.                                                                  *)
Notify(p, e, there) ==
  /\ ~calm
  /\ event' = [event EXCEPT ![p] = e]
  /\ exists' = [exists EXCEPT ![p] = there]
  /\ UNCHANGED <<vars, serving, calm>>

ChangeResource(p) == Notify(p, "CHANGED", TRUE)
DeleteResource(p) == exists[p] /\ Notify(p, "DELETED", FALSE)

Calmed == ~calm /\ calm' = TRUE /\ UNCHANGED <<vars, exists, event, serving>>

-----------------------------------------------------------------------------
(* Reconcile.                                                              *)
OperationFor(e) == IF e = "DELETED" THEN "delete" ELSE "apply"

Reconcile(c, p) ==
  /\ event[p] # "none"
  /\ \A d \in Workers : serving[d] # p
  /\ Begin(c, OperationFor(event[p]), p)
  /\ serving' = [serving EXCEPT ![c] = p]
  /\ event' = [event EXCEPT ![p] = "none"]
  /\ UNCHANGED <<exists, calm>>

(* Whether Reconcile asks for the resource to be queued again: an Apply    *)
(* that fails, and a Delete that fails, unless the pod was "not found".    *)
Requeues(r) == r = "error"

(* Seeded bugs: a Delete, or an Apply, that fails is not asked for again.  *)
RequeueApplies(o, r) == IF o = "apply" /\ Requeues(r) THEN "CHANGED" ELSE "none"
RequeueDeletes(o, r) == IF o = "delete" /\ Requeues(r) THEN "DELETED" ELSE "none"

Requeued(o, r) ==
  IF Requeues(r) THEN (IF o = "delete" THEN "DELETED" ELSE "CHANGED") ELSE "none"

(* Once calm, the controller and the node are those without faults.        *)
Calm == INSTANCE PodController WITH Faults <- {}

(* A request of worker c; with the last one of its call Reconcile returns. *)
(* (The status it then writes into the event's object is result[c].)       *)
Work(c) ==
  /\ serving[c] # None
  /\ IF calm THEN Calm!Step(c) ELSE Step(c)
  /\ \/ pc'[c] # "idle" /\ UNCHANGED resources
     \/ /\ pc'[c] = "idle"
        /\ event' = [event EXCEPT ![serving[c]] =
                       IF @ = "none" THEN Requeued(op[c], result'[c]) ELSE @]
        /\ serving' = [serving EXCEPT ![c] = None]
        /\ UNCHANGED <<exists, calm>>

PVE == (IF calm THEN Calm!Node ELSE Node) /\ UNCHANGED resources

OperatorNext ==
  \/ \E p \in Pods : ChangeResource(p) \/ DeleteResource(p)
  \/ Calmed
  \/ \E c \in Workers : Work(c) \/ \E p \in Pods : Reconcile(c, p)
  \/ PVE

(* Workers are scheduled, queued events are taken, and tasks end.          *)
OperatorSpec ==
  /\ OperatorInit /\ [][OperatorNext]_opvars
  /\ \A c \in Workers : WF_opvars(Work(c)) /\ WF_opvars(\E p \in Pods : Reconcile(c, p))
  /\ WF_opvars(PVE)
-----------------------------------------------------------------------------
Containers(p) == {v \in VMIDs : name[v] = Hostname[p]}

(* Deleted stays deleted: when a resource is gone and its events have been *)
(* reconciled, it has no container and none is being created, whatever was *)
(* retried before ("Requeue", reconciler.go 70-99).                        *)
DeletedIsGone ==
  \A p \in Pods :
    ~exists[p] /\ event[p] = "none" /\ (\A c \in Workers : serving[c] # p)
      => Containers(p) = {}

(* None is forgotten: a resource that exists and whose events have been    *)
(* reconciled has a container, and one only, however often it was deleted  *)
(* and made again while earlier calls were under way.                      *)
ExistingIsThere ==
  \A p \in Pods :
    exists[p] /\ event[p] = "none" /\ (\A c \in Workers : serving[c] # p)
      => Cardinality(Containers(p)) = 1

(* Once calm, retries end, and exactly the resources that exist have a     *)
(* container, one each.                                                    *)
Settles ==
  calm ~> [](/\ \A p \in Pods : event[p] = "none" /\ Cardinality(Containers(p)) = IF exists[p] THEN 1 ELSE 0
             /\ \A c \in Workers : serving[c] = None)

(* "The pod ... will be created and started" (pod.go 42): a resource whose *)
(* container is missing when nothing fails any more gets one that runs,    *)
(* although the workers compete for VMIDs and locks.                       *)
MissingRuns ==
  \A p \in Pods :
    calm /\ exists[p] /\ Containers(p) = {} ~> \E v \in Containers(p) : state[v] = "running"
=============================================================================
