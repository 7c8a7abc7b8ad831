--------------------------- MODULE OperatorProofs ---------------------------
(***************************************************************************)
(* Theorems about Operator, for any workers, resources and containers.     *)
(* The workers are clients of the controller, and all may handle every     *)
(* resource: what PodControllerProofs asks of the calls, the operator has  *)
(* because it gives a resource to one worker at a time.                    *)
(***************************************************************************)
EXTENDS Operator, PodControllerProofs, FiniteSetTheorems

(* Only workers call the controller, each for the resource it serves, and  *)
(* no two serve the same.                                                  *)
Served ==
  /\ \A c \in Clients : pc[c] # "idle" => c \in Workers
  /\ \A c \in Workers : pc[c] = "idle" <=> serving[c] = None
  /\ \A c \in Workers : serving[c] # None => pod[c] = serving[c] /\ op[c] \in {"apply", "delete"}
  /\ \A c, d \in Workers : serving[c] # None /\ serving[c] = serving[d] => c = d

(* A resource that is gone is asked to be deleted, being deleted, or has   *)
(* no container.                                                           *)
Wanted ==
  \A p \in Pods : ~exists[p] =>
    /\ event[p] \in {"none", "DELETED"}
    /\ event[p] = "none" => \A c \in Workers : serving[c] = p => op[c] = "delete"
    /\ event[p] = "none" /\ (\A c \in Workers : serving[c] # p) => \A v \in VMIDs : name[v] # p

(* A resource that is there is asked to be applied, being applied, or has  *)
(* a container.                                                            *)
Provided ==
  \A p \in Pods : exists[p] =>
    /\ event[p] \in {"none", "CHANGED"}
    /\ event[p] = "none" => \A c \in Workers : serving[c] = p => op[c] = "apply"
    /\ event[p] = "none" /\ (\A c \in Workers : serving[c] # p) => \E v \in VMIDs : name[v] = p

OpTyped ==
  /\ exists \in [Pods -> BOOLEAN]
  /\ event \in [Pods -> Events \cup {"none"}]
  /\ serving \in [Workers -> Pods \cup {None}]
  /\ calm \in BOOLEAN

-----------------------------------------------------------------------------
(* A step of the operator is one of the controller, or none.               *)

(* Without faults, nothing can happen that could not happen with them.     *)
LEMMA CalmStep ==
  ASSUME NEW c \in Clients, Calm!Step(c)
  PROVE  Step(c)
  <1>1. \A d, l, i : Calm!Goto(d, l, i) => Goto(d, l, i)
    BY DEF Calm!Goto, Goto
  <1>2. \A d, r : Calm!Return(d, r) => Return(d, r)
    BY DEF Calm!Return, Return
  <1>3. ~Calm!Rejected(c)
    BY DEF Calm!Rejected
  <1>4. Calm!Find(c) => Find(c)
    BY <1>1, <1>2, <1>3
    DEF Calm!Find, Find, Calm!Named, Named, Calm!ListLXC, ListLXC, Calm!Exists, Exists,
        Calm!Resolved, Resolved, Calm!pve, pve
  <1>5. Calm!NextID(c) => NextID(c)
    BY <1>1, <1>2, <1>3
    DEF Calm!NextID, NextID, Calm!NextIDs, NextIDs, Calm!FreeIDs, FreeIDs, Calm!Exists, Exists,
        Calm!Locked, Locked, Calm!pve, pve
  <1>6. ASSUME NEW kind, NEW wait, Calm!Request(c, kind, wait)
        PROVE  Request(c, kind, wait)
    BY <1>1, <1>2, <1>3, <1>6
    DEF Calm!Request, Request, Calm!Submit, Submit, Calm!Accepts, Accepts, Calm!Locked, Locked,
        Calm!Needs, Needs, Calm!pve, pve
  <1>7. Calm!Create(c) \/ Calm!Start(c) \/ Calm!Stop(c) \/ Calm!Destroy(c)
          => Create(c) \/ Start(c) \/ Stop(c) \/ Destroy(c)
    BY <1>6 DEF Calm!Create, Create, Calm!Start, Start, Calm!Stop, Stop, Calm!Destroy, Destroy
  <1>8. Calm!WaitForTask(c) => WaitForTask(c)
    BY <1>1, <1>2
    DEF Calm!WaitForTask, WaitForTask, Calm!TakenForTask, Calm!AfterWait, AfterWait,
        Calm!Waits, Waits, Calm!pve, pve
  <1>9. Calm!GetLXCStatus(vmid[c]) = GetLXCStatus(vmid[c])
    BY DEF Calm!GetLXCStatus, GetLXCStatus
  <1>10. Calm!Refresh(c) => Refresh(c)
    BY <1>1, <1>2, <1>3, <1>9 DEF Calm!Refresh, Refresh, Calm!pve, pve
  <1>11. Calm!Status(c) => Status(c)
    BY <1>1, <1>2, <1>3, <1>9 DEF Calm!Status, Status, Calm!pve, pve
  <1> QED BY <1>4, <1>5, <1>7, <1>8, <1>10, <1>11 DEF Calm!Step, Step

(* Without faults, a node does nothing that it could not do with them.     *)
LEMMA CalmNode ==
  ASSUME Calm!Node
  PROVE  Node
  <1>1. \A v, exit : Calm!EndTask(v, exit) => EndTask(v, exit)
    BY DEF Calm!EndTask, EndTask, Calm!Leaves, Leaves, Calm!Locked, Locked, Calm!NoJob, NoJob
  <1> QED
    BY <1>1
    DEF Calm!Node, Node, Calm!TaskDone, TaskDone, Calm!TaskFailed, Calm!Halt, Calm!local, local

(* Whatever the operator does, the controller makes one of its own steps   *)
(* or none.                                                                *)
LEMMA ControllerStep ==
  ASSUME [OperatorNext]_opvars
  PROVE  [Next]_vars
  <1>1. ASSUME NEW c \in Workers, Work(c)
        PROVE  Next
    <2>1. c \in Clients
      BY OperatorAssumption
    <2>2. Step(c)
      BY <1>1, <2>1, CalmStep DEF Work
    <2> QED BY <2>1, <2>2 DEF Next
  <1>2. ASSUME NEW c \in Workers, NEW p \in Pods, Reconcile(c, p)
        PROVE  Next
    <2>1. c \in Clients /\ OperationFor(event[p]) \in Ops
      BY OperatorAssumption DEF OperationFor, Ops
    <2>2. PICK o \in Ops : o = OperationFor(event[p])
      BY <2>1
    <2>3. Begin(c, o, p)
      BY <1>2, <2>2 DEF Reconcile, Begin
    <2> QED BY <2>1, <2>3 DEF Next
  <1>3. CASE PVE
    BY <1>3, CalmNode DEF PVE, Next
  <1>4. CASE UNCHANGED vars
    BY <1>4
  <1> QED
    BY <1>1, <1>2, <1>3, <1>4
    DEF OperatorNext, opvars, ChangeResource, DeleteResource, Notify, Calmed

(* The operator is a client of the controller like any other: whatever     *)
(* holds of every behaviour of the controller holds of the operator's.     *)
THEOREM OperatorIsClient == OperatorSpec => Spec
<1>1. OperatorInit => Init
  BY DEF OperatorInit
<1>2. [OperatorNext]_opvars => [Next]_vars
  BY ControllerStep
<1> QED BY <1>1, <1>2, PTL DEF OperatorSpec, Spec

-----------------------------------------------------------------------------
(* What one request of one client may change.                              *)

(* It concerns its own call, which has a result when it ends.              *)
LEMMA StepOfOne ==
  ASSUME Typed, NEW c \in Clients, Step(c)
  PROVE  /\ pc[c] # "idle"
         /\ \A d \in Clients \ {c} : pc'[d] = pc[d] /\ op'[d] = op[d] /\ pod'[d] = pod[d]
         /\ pc'[c] # "idle" => op'[c] = op[c] /\ pod'[c] = pod[c]
         /\ pc'[c] = "idle" => result'[c] # "none"
  <1> USE DEF Typed, TypeOK
  <1> DEFINE Right ==
        /\ pc[c] # "idle"
        /\ \A d \in Clients \ {c} : pc'[d] = pc[d] /\ op'[d] = op[d] /\ pod'[d] = pod[d]
        /\ pc'[c] # "idle" => op'[c] = op[c] /\ pod'[c] = pod[c]
        /\ pc'[c] = "idle" => result'[c] # "none"
  <1>1. ASSUME NEW l \in Labels \ {"idle"}, NEW i, Goto(c, l, i), pc[c] # "idle"
        PROVE  Right
    BY <1>1 DEF Goto
  <1>2. ASSUME NEW r \in Results \ {"none"}, Return(c, r), pc[c] # "idle"
        PROVE  Right
    BY <1>2 DEF Return
  <1>3. {"notfound", "error", "deleted"} \subseteq Results \ {"none"}
    BY DEF Results
  <1>4. (Labels \ {"idle", "waitDestroy"}) \cup Waits \subseteq Labels \ {"idle"}
    BY DEF Labels, Waits
  <1>5. CASE Find(c)
    <2>1. Resolved(op[c]) \in Labels \ {"idle"} /\ "nextid" \in Labels \ {"idle"}
      BY DEF Resolved, Labels
    <2> QED BY <1>1, <1>2, <1>3, <1>5, <2>1 DEF Find, Rejected
  <1>6. CASE NextID(c) \/ Status(c)
    <2>1. {"create", "stop", "destroy"} \subseteq Labels \ {"idle"}
      BY DEF Labels
    <2> QED BY <1>1, <1>2, <1>3, <1>6, <2>1 DEF NextID, Status, Rejected
  <1>7. CASE Create(c) \/ Start(c) \/ Stop(c) \/ Destroy(c)
    BY <1>1, <1>2, <1>3, <1>4, <1>7 DEF Create, Start, Stop, Destroy, Request, Rejected, Waits
  <1>8. CASE WaitForTask(c)
    <2>1. pc[c] # "idle" /\ (pc[c] # "waitDestroy" => AfterWait(pc[c]) \in Labels \ {"idle"})
      BY <1>8 DEF WaitForTask, AfterWait, Waits, Labels
    <2> QED BY <1>1, <1>2, <1>3, <1>8, <2>1 DEF WaitForTask
  <1>9. CASE Refresh(c)
    <2>1. vmid[c] \in VMIDs
      BY <1>9 DEF Refresh, Control
    <2>2. GetLXCStatus(vmid[c]) # "absent" => GetLXCStatus(vmid[c]) \in Results \ {"none"}
      BY <2>1 DEF GetLXCStatus, VETypeOK, Results
    <2> QED BY <1>2, <1>3, <1>9, <2>2 DEF Refresh, Rejected
  <1>10. Right
    BY <1>5, <1>6, <1>7, <1>8, <1>9 DEF Step
  <1> QED BY <1>10

(* It names a container after the pod it applies, or names none.           *)
LEMMA NamesStep ==
  ASSUME Typed, OwnNames, NEW c \in Clients, Step(c), NEW v \in VMIDs, name'[v] # name[v]
  PROVE  op[c] = "apply" /\ name'[v] = pod[c]
  <1> USE DEF Typed, TypeOK, VETypeOK
  <1>1. ~UNCHANGED pve /\ ~Orphan(c)
    BY DEF pve, Orphan
  <1>2. ASSUME NEW kind \in {"start", "stop", "destroy"}, NEW wait, Request(c, kind, wait)
        PROVE  FALSE
    BY <1>1, <1>2 DEF Request, Rejected, Submit
  <1>3. Create(c)
    BY <1>1, <1>2
    DEF Step, Find, NextID, Start, Stop, Destroy, WaitForTask, Refresh, Status
  <1>4. op[c] = "apply" /\ pc[c] # "idle"
    BY <1>3 DEF Create, Control
  <1>5. name'[v] = Hostname[pod[c]]
    BY <1>1, <1>3 DEF Create, Request, Rejected, Submit
  <1> QED BY <1>4, <1>5, HostnameTyped DEF OwnNames

(* What happens on the node gives no container a name, and no client       *)
(* notices.                                                                *)
LEMMA NodeNames ==
  ASSUME Typed, Node
  PROVE  /\ UNCHANGED local
         /\ \A v \in VMIDs : name'[v] = name[v] \/ name'[v] = None
  <1> USE DEF Typed, TypeOK, VETypeOK
  <1>1. ASSUME NEW w \in VMIDs, NEW exit, EndTask(w, exit)
        PROVE  \A v \in VMIDs : name'[v] = name[v] \/ name'[v] = None
    BY <1>1 DEF EndTask
  <1> QED BY <1>1 DEF Node, TaskDone, TaskFailed, Halt

-----------------------------------------------------------------------------
(* The invariant is inductive.                                             *)

(* Nobody else works for the resource a worker serves.                     *)
LEMMA ServedAlone ==
  ASSUME Served, NEW o, NEW q
  PROVE  Alone(o, q)
  BY OperatorAssumption DEF Served, Alone

(* The resources, their events and the workers keep their types.           *)
LEMMA OpTypedStep ==
  ASSUME OpTyped, [OperatorNext]_opvars
  PROVE  OpTyped'
  <1> USE DEF OpTyped, Events
  <1>1. ASSUME NEW p \in Pods, ChangeResource(p) \/ DeleteResource(p)
        PROVE  OpTyped'
    BY <1>1 DEF ChangeResource, DeleteResource, Notify
  <1>2. CASE Calmed
    BY <1>2 DEF Calmed
  <1>3. ASSUME NEW c \in Workers, Work(c)
        PROVE  OpTyped'
    <2>1. serving[c] \in Pods
      BY <1>3 DEF Work
    <2>2. Requeued(op[c], result'[c]) \in {"none", "CHANGED", "DELETED"}
      BY DEF Requeued
    <2> QED BY <1>3, <2>1, <2>2 DEF Work, resources
  <1>4. ASSUME NEW c \in Workers, NEW p \in Pods, Reconcile(c, p)
        PROVE  OpTyped'
    BY <1>4 DEF Reconcile
  <1>5. CASE UNCHANGED resources
    BY <1>5 DEF resources
  <1> QED BY <1>1, <1>2, <1>3, <1>4, <1>5 DEF OperatorNext, PVE, opvars

(* A resource is given to one worker at a time.                            *)
LEMMA ServedStep ==
  ASSUME Typed, OpTyped, Served, [OperatorNext]_opvars
  PROVE  Served'
  <1> USE OperatorAssumption DEF Typed, TypeOK, OpTyped
  <1>1. ASSUME UNCHANGED local, UNCHANGED serving
        PROVE  Served'
    BY <1>1 DEF local, Served
  <1>2. ASSUME NEW c \in Workers, NEW p \in Pods, Reconcile(c, p)
        PROVE  Served'
    <2>1. PICK o \in {"apply", "delete"} : o = OperationFor(event[p])
      BY DEF OperationFor
    <2>2. Begin(c, o, p)
      BY <1>2, <2>1 DEF Reconcile, Begin
    <2>3. pc' = [pc EXCEPT ![c] = pc'[c]] /\ pc'[c] # "idle"
      BY <2>2 DEF Begin, Resolved
    <2>4. op' = [op EXCEPT ![c] = o] /\ pod' = [pod EXCEPT ![c] = p]
      BY <2>2 DEF Begin
    <2>5. serving' = [serving EXCEPT ![c] = p] /\ \A d \in Workers : serving[d] # p
      BY <1>2 DEF Reconcile
    <2>6. p # None
      BY PodAssumption, VEAssumption
    <2> QED BY <2>3, <2>4, <2>5, <2>6 DEF Served
  <1>3. ASSUME NEW c \in Workers, Work(c)
        PROVE  Served'
    <2>1. Step(c) /\ c \in Clients /\ serving[c] # None
      BY <1>3, CalmStep DEF Work
    <2>2. /\ \A d \in Clients \ {c} : pc'[d] = pc[d] /\ op'[d] = op[d] /\ pod'[d] = pod[d]
          /\ pc'[c] # "idle" => op'[c] = op[c] /\ pod'[c] = pod[c]
      BY <2>1, StepOfOne
    <2>3. CASE pc'[c] # "idle" /\ serving' = serving
      BY <2>1, <2>2, <2>3 DEF Served
    <2>4. CASE pc'[c] = "idle" /\ serving' = [serving EXCEPT ![c] = None]
      BY <2>1, <2>2, <2>4 DEF Served
    <2> QED BY <1>3, <2>3, <2>4 DEF Work, resources
  <1>4. CASE PVE
    BY <1>1, <1>4, CalmNode, NodeNames DEF PVE, resources
  <1>5. CASE UNCHANGED vars /\ UNCHANGED serving
    BY <1>1, <1>5 DEF vars, local
  <1> QED
    BY <1>2, <1>3, <1>4, <1>5
    DEF OperatorNext, ChangeResource, DeleteResource, Notify, Calmed, opvars, resources

(* A resource that is gone is on its way out.                              *)
LEMMA WantedStep ==
  ASSUME Kept, Fresh, Gone, OwnNames, OpTyped, Served, Wanted, [OperatorNext]_opvars
  PROVE  Wanted'
  <1> USE OperatorAssumption DEF Kept, Unique, OpTyped
  <1>1. ASSUME NEW p \in Pods, ChangeResource(p) \/ DeleteResource(p)
        PROVE  Wanted'
    BY <1>1 DEF ChangeResource, DeleteResource, Notify, vars, Wanted
  <1>2. CASE Calmed
    BY <1>2 DEF Calmed, vars, Wanted
  <1>3. ASSUME NEW c \in Workers, NEW p \in Pods, Reconcile(c, p)
        PROVE  Wanted'
    <2>1. PICK o \in {"apply", "delete"} : o = OperationFor(event[p])
      BY DEF OperationFor
    <2>2. op' = [op EXCEPT ![c] = o] /\ name' = name
      BY <1>3, <2>1 DEF Reconcile, Begin, pve
    <2>3. /\ serving' = [serving EXCEPT ![c] = p] /\ event' = [event EXCEPT ![p] = "none"]
          /\ exists' = exists /\ event[p] # "none" /\ \A d \in Workers : serving[d] # p
      BY <1>3 DEF Reconcile
    <2>4. serving[c] = None
      BY <1>3 DEF Reconcile, Begin, Served
    <2>5. ~exists[p] => o = "delete"
      BY <2>1, <2>3 DEF Wanted, OperationFor
    <2>6. \A q \in Pods : q # None
      BY PodAssumption, VEAssumption
    <2> QED BY <2>2, <2>3, <2>4, <2>5, <2>6 DEF Wanted, Typed, TypeOK
  <1>4. ASSUME NEW c \in Workers, Work(c)
        PROVE  Wanted'
    <2>1. Step(c) /\ c \in Clients /\ serving[c] \in Pods
      BY <1>4, CalmStep DEF Work
    <2>2. PICK p \in Pods : p = serving[c] /\ p = pod[c]
      BY <2>1, PodAssumption, VEAssumption DEF Served
    <2>3. /\ \A d \in Workers \ {c} : op'[d] = op[d]
          /\ pc'[c] # "idle" => op'[c] = op[c]
          /\ pc'[c] = "idle" => result'[c] # "none"
      BY <2>1, StepOfOne
    <2>4. \A v \in VMIDs : name'[v] # name[v] => op[c] = "apply" /\ name'[v] = p
      BY <2>1, <2>2, NamesStep
    <2>5. CASE pc'[c] # "idle" /\ UNCHANGED resources
      <3>1. exists' = exists /\ event' = event /\ serving' = serving
        BY <2>5 DEF resources
      <3>2. \A d \in Workers : op'[d] = op[d]
        BY <2>3, <2>5
      <3>3. ASSUME NEW q \in Pods, \A d \in Workers : serving[d] # q, NEW v \in VMIDs, name[v] # q
            PROVE  name'[v] # q
        BY <2>2, <2>4, <3>3
      <3> QED BY <3>1, <3>2, <3>3 DEF Wanted
    <2>6. CASE pc'[c] = "idle"
      <3>1. /\ event' = [event EXCEPT ![p] = IF @ = "none" THEN Requeued(op[c], result'[c]) ELSE @]
            /\ serving' = [serving EXCEPT ![c] = None]
            /\ exists' = exists
        BY <1>4, <2>2, <2>6 DEF Work
      <3>2. ASSUME NEW q \in Pods, q # p, ~exists'[q]
            PROVE  /\ event'[q] \in {"none", "DELETED"}
                   /\ event'[q] = "none" => \A d \in Workers : serving'[d] = q => op'[d] = "delete"
                   /\ event'[q] = "none" /\ (\A d \in Workers : serving'[d] # q)
                        => \A v \in VMIDs : name'[v] # q
        <4>1. event'[q] = event[q] /\ ~exists[q]
          BY <3>1, <3>2
        <4>2. \A d \in Workers : serving'[d] = q <=> serving[d] = q
          BY <2>2, <3>1, <3>2, PodAssumption, VEAssumption
        <4>3. \A d \in Workers : serving[d] = q => op'[d] = op[d]
          BY <2>2, <2>3, <3>2
        <4>4. \A v \in VMIDs : name[v] # q => name'[v] # q
          BY <2>4, <3>2
        <4> QED BY <4>1, <4>2, <4>3, <4>4 DEF Wanted
      <3>3. ASSUME ~exists[p], event[p] = "none"
            PROVE  \/ event'[p] = "DELETED"
                   \/ event'[p] = "none" /\ \A v \in VMIDs : name'[v] # p
        <4>1. op[c] = "delete" /\ event'[p] = Requeued("delete", result'[c])
          BY <2>2, <3>1, <3>3 DEF Wanted
        <4>2. CASE result'[c] = "error"
          BY <4>1, <4>2 DEF Requeued, Requeues
        <4>3. CASE result'[c] # "error"
          <5>1. [Next]_vars /\ Alone("apply", "delete")
            BY ControllerStep, ServedAlone
          <5>2. result'[c] \in {"deleted", "notfound"}
            <6>1. \A r : Return(c, r) => result'[c] = r
              BY DEF Return, Typed, TypeOK
            <6>2. ~Refresh(c)
              BY <4>1 DEF Refresh, Fresh
            <6> QED BY <2>3, <2>6, <4>1, <4>3, <5>1, <6>1, <6>2, Returning
          <5>3. \A v \in VMIDs : name[v] # p
            BY <2>2, <4>1, <5>1, <5>2, RightlyGone
          <5> QED BY <2>4, <4>1, <4>3, <5>3 DEF Requeued, Requeues
        <4> QED BY <4>2, <4>3
      <3>4. ASSUME ~exists[p], event[p] # "none"
            PROVE  event'[p] = "DELETED"
        BY <3>1, <3>4 DEF Wanted
      <3>5. \A d \in Workers : serving'[d] # p
        BY <2>2, <3>1, PodAssumption, VEAssumption DEF Served
      <3> QED BY <3>1, <3>2, <3>3, <3>4, <3>5 DEF Wanted
    <2> QED BY <1>4, <2>5, <2>6 DEF Work
  <1>5. CASE PVE
    <2>1. UNCHANGED local /\ UNCHANGED resources /\ \A v \in VMIDs : name'[v] = name[v] \/ name'[v] = None
      BY <1>5, CalmNode, NodeNames DEF PVE
    <2>2. \A q \in Pods : q # None
      BY PodAssumption, VEAssumption
    <2> QED BY <2>1, <2>2 DEF local, resources, Wanted
  <1>6. CASE UNCHANGED opvars
    BY <1>6 DEF opvars, vars, resources, Wanted
  <1> QED BY <1>1, <1>2, <1>3, <1>4, <1>5, <1>6 DEF OperatorNext

(* A request takes no container its name.                                  *)
LEMMA NamesKept ==
  ASSUME Typed, NameMeans, NEW c \in Clients, Step(c), NEW v \in VMIDs, name[v] # None
  PROVE  name'[v] = name[v]
  <1> USE DEF Typed, TypeOK, VETypeOK
  <1>1. ASSUME NEW by, NEW kind, NEW w, NEW h, Submit(c, by, kind, w, h)
        PROVE  name'[v] = name[v]
    <2>1. CASE kind = "create" /\ w = v
      <3>1. state[v] = "absent" /\ job[v].kind = "none"
        BY <1>1, <2>1 DEF Submit, Accepts, Locked, Needs
      <3> QED BY <3>1 DEF NameMeans, Exists
    <2>2. CASE ~(kind = "create" /\ w = v)
      BY <1>1, <2>2 DEF Submit
    <2> QED BY <2>1, <2>2
  <1>2. ASSUME NEW kind, NEW wait, Request(c, kind, wait)
        PROVE  name'[v] = name[v]
    BY <1>1, <1>2 DEF Request, Rejected, pve
  <1>3. UNCHANGED pve \/ Orphan(c) => name'[v] = name[v]
    BY DEF pve, Orphan
  <1> QED
    BY <1>2, <1>3
    DEF Step, Find, NextID, Create, Start, Stop, Destroy, WaitForTask, Refresh, Status

(* What happens on the node takes a container its name only while a worker *)
(* serves the resource of that name.                                       *)
LEMMA NodeKeepsNames ==
  ASSUME Kept, Served, Node, NEW p \in Pods, \A c \in Workers : serving[c] # p,
         NEW v \in VMIDs, name[v] = p
  PROVE  name'[v] = p
  <1> USE DEF Kept, Unique, Own, Typed, TypeOK, VETypeOK
  <1>1. ASSUME NEW w \in VMIDs, NEW exit \in {"OK", "failed"}, EndTask(w, exit)
        PROVE  name'[v] = p
    <2>1. CASE w # v
      BY <1>1, <2>1 DEF EndTask
    <2>2. CASE w = v
      <3> DEFINE c == job[v].by
      <3>1. Locked(v) /\ c \in Clients /\ pc[c] = WaitFor(job[v].kind) /\ job[v].kind \in TaskKinds
        BY <1>1, <2>2 DEF EndTask, Awaited, Locked
      <3>2. pc[c] # "idle"
        BY <3>1 DEF WaitFor, TaskKinds
      <3>3. pod[c] # p
        BY <3>1, <3>2 DEF Served
      <3>4. job[v].kind \in {"start", "stop"} /\ Exists(v)
        BY <3>1, <3>3 DEF NameMeans, OwnTask, TaskKinds
      <3>5. ~((IF exit = "OK" THEN Leaves(job[v].kind) ELSE state[v]) = "absent")
        BY <3>4 DEF Leaves, Exists
      <3> QED BY <1>1, <2>2, <3>5 DEF EndTask
    <2> QED BY <2>1, <2>2
  <1>2. ASSUME NEW w \in VMIDs, Halt(w)
        PROVE  name'[v] = p
    BY <1>2 DEF Halt
  <1> QED BY <1>1, <1>2 DEF Node, TaskDone, TaskFailed

(* A resource that is there is on its way in.                              *)
LEMMA ProvidedStep ==
  ASSUME Kept, Fresh, Held("apply"), OpTyped, Served, Provided, [OperatorNext]_opvars
  PROVE  Provided'
  <1> USE OperatorAssumption DEF Kept, Unique, OpTyped
  <1>1. ASSUME NEW p \in Pods, ChangeResource(p) \/ DeleteResource(p)
        PROVE  Provided'
    BY <1>1 DEF ChangeResource, DeleteResource, Notify, vars, Provided
  <1>2. CASE Calmed
    BY <1>2 DEF Calmed, vars, Provided
  <1>3. ASSUME NEW c \in Workers, NEW p \in Pods, Reconcile(c, p)
        PROVE  Provided'
    <2>1. PICK o \in {"apply", "delete"} : o = OperationFor(event[p])
      BY DEF OperationFor
    <2>2. op' = [op EXCEPT ![c] = o] /\ name' = name
      BY <1>3, <2>1 DEF Reconcile, Begin, pve
    <2>3. /\ serving' = [serving EXCEPT ![c] = p] /\ event' = [event EXCEPT ![p] = "none"]
          /\ exists' = exists /\ event[p] # "none" /\ \A d \in Workers : serving[d] # p
      BY <1>3 DEF Reconcile
    <2>4. serving[c] = None
      BY <1>3 DEF Reconcile, Begin, Served
    <2>5. exists[p] => o = "apply"
      BY <2>1, <2>3 DEF Provided, OperationFor
    <2>6. \A q \in Pods : q # None
      BY PodAssumption, VEAssumption
    <2> QED BY <2>2, <2>3, <2>4, <2>5, <2>6 DEF Provided, Typed, TypeOK
  <1>4. ASSUME NEW c \in Workers, Work(c)
        PROVE  Provided'
    <2>1. Step(c) /\ c \in Clients /\ serving[c] \in Pods
      BY <1>4, CalmStep DEF Work
    <2>2. PICK p \in Pods : p = serving[c] /\ p = pod[c]
      BY <2>1, PodAssumption, VEAssumption DEF Served
    <2>3. /\ \A d \in Workers \ {c} : op'[d] = op[d]
          /\ pc'[c] # "idle" => op'[c] = op[c]
          /\ pc'[c] = "idle" => result'[c] # "none"
      BY <2>1, StepOfOne
    <2>4. \A q \in Pods : \A v \in VMIDs : name[v] = q => name'[v] = q
      BY <2>1, NamesKept, PodAssumption, VEAssumption
    <2>5. CASE pc'[c] # "idle" /\ UNCHANGED resources
      <3>1. exists' = exists /\ event' = event /\ serving' = serving
        BY <2>5 DEF resources
      <3>2. \A d \in Workers : op'[d] = op[d]
        BY <2>3, <2>5
      <3> QED BY <2>4, <3>1, <3>2 DEF Provided
    <2>6. CASE pc'[c] = "idle"
      <3>1. /\ event' = [event EXCEPT ![p] = IF @ = "none" THEN Requeued(op[c], result'[c]) ELSE @]
            /\ serving' = [serving EXCEPT ![c] = None]
            /\ exists' = exists
        BY <1>4, <2>2, <2>6 DEF Work
      <3>2. ASSUME NEW q \in Pods, q # p, exists'[q]
            PROVE  /\ event'[q] \in {"none", "CHANGED"}
                   /\ event'[q] = "none" => \A d \in Workers : serving'[d] = q => op'[d] = "apply"
                   /\ event'[q] = "none" /\ (\A d \in Workers : serving'[d] # q)
                        => \E v \in VMIDs : name'[v] = q
        <4>1. event'[q] = event[q] /\ exists[q]
          BY <3>1, <3>2
        <4>2. \A d \in Workers : serving'[d] = q <=> serving[d] = q
          BY <2>2, <3>1, <3>2, PodAssumption, VEAssumption
        <4>3. \A d \in Workers : serving[d] = q => op'[d] = op[d]
          BY <2>2, <2>3, <3>2
        <4> QED BY <2>4, <4>1, <4>2, <4>3 DEF Provided
      <3>3. ASSUME exists[p], event[p] = "none"
            PROVE  \/ event'[p] = "CHANGED"
                   \/ event'[p] = "none" /\ \E v \in VMIDs : name'[v] = p
        <4>1. op[c] = "apply" /\ event'[p] = Requeued("apply", result'[c])
          BY <2>2, <3>1, <3>3 DEF Provided
        <4>2. CASE result'[c] = "error"
          BY <4>1, <4>2 DEF Requeued, Requeues
        <4>3. CASE result'[c] # "error"
          <5>1. [Next]_vars
            BY ControllerStep
          <5>2. \A r : Return(c, r) => result'[c] = r
            BY DEF Return, Typed, TypeOK
          <5>3. pc[c] = "refresh"
            BY <2>1, <2>3, <2>6, <4>1, <4>3, <5>1, <5>2, Returning DEF Refresh, Typed, Control
          <5>4. name[vmid[c]] = p /\ vmid[c] \in VMIDs
            BY <2>1, <2>2, <4>1, <5>3 DEF Held, Holds, Typed, Control
          <5> QED BY <2>4, <4>1, <4>3, <5>4 DEF Requeued, Requeues
        <4> QED BY <4>2, <4>3
      <3>4. ASSUME exists[p], event[p] # "none"
            PROVE  event'[p] = "CHANGED"
        BY <3>1, <3>4 DEF Provided
      <3>5. \A d \in Workers : serving'[d] # p
        BY <2>2, <3>1, PodAssumption, VEAssumption DEF Served
      <3> QED BY <3>1, <3>2, <3>3, <3>4, <3>5 DEF Provided
    <2> QED BY <1>4, <2>5, <2>6 DEF Work
  <1>5. CASE PVE
    <2>1. Node /\ UNCHANGED local /\ UNCHANGED resources
      BY <1>5, CalmNode, NodeNames DEF PVE
    <2>2. op' = op /\ exists' = exists /\ event' = event /\ serving' = serving
      BY <2>1 DEF local, resources
    <2> QED BY <2>1, <2>2, NodeKeepsNames DEF Provided
  <1>6. CASE UNCHANGED opvars
    BY <1>6 DEF opvars, vars, resources, Provided
  <1> QED BY <1>1, <1>2, <1>3, <1>4, <1>5, <1>6 DEF OperatorNext

-----------------------------------------------------------------------------
(* Every variable of the operator, the controller and the node stays in    *)
(* its type.                                                               *)
THEOREM OperatorTypeCorrect == OperatorSpec => []OperatorTypeOK
<1>1. OperatorInit => OpTyped
  BY DEF OperatorInit, OpTyped
<1>2. OpTyped /\ [OperatorNext]_opvars => OpTyped'
  BY OpTypedStep
<1>3. TypeOK /\ OpTyped => OperatorTypeOK
  BY DEF OperatorTypeOK, OpTyped
<1> QED BY <1>1, <1>2, <1>3, OperatorIsClient, TypeCorrect, PTL DEF OperatorSpec

(* What the operator and the controller keep together.                     *)
OpInv == Kept /\ Fresh /\ Stage /\ Held("apply") /\ Gone /\ OpTyped /\ Served /\ Wanted /\ Provided

(* It holds while workers wait for their tasks, pods are found by their    *)
(* names and none has a given VMID.                                        *)
LEMMA OpInvariance ==
  ASSUME Patient, OwnNames, NoPinned
  PROVE  OperatorSpec => []OpInv
<1>1. OperatorInit => OpInv
  <2> SUFFICES ASSUME OperatorInit PROVE OpInv
    OBVIOUS
  <2>1. Kept /\ Fresh /\ Stage /\ Held("apply") /\ Gone
    BY KeptInit DEF OperatorInit
  <2>2. OpTyped /\ Served
    BY OperatorAssumption DEF OperatorInit, Init, OpTyped, Served, Events
  <2>3. Wanted /\ Provided
    <3>1. \A p \in Pods : p # None
      BY PodAssumption, VEAssumption
    <3> QED BY <3>1 DEF OperatorInit, Init, VEInit, Wanted, Provided
  <2> QED BY <2>1, <2>2, <2>3 DEF OpInv
<1>2. OpInv /\ Typed' /\ [OperatorNext]_opvars => OpInv'
  <2> SUFFICES ASSUME OpInv, Typed', [OperatorNext]_opvars PROVE OpInv'
    OBVIOUS
  <2> USE DEF OpInv
  <2>1. [Next]_vars
    BY ControllerStep
  <2>2. Alone("apply", "apply") /\ Alone("delete", "delete") /\ Alone("apply", "delete")
    BY ServedAlone
  <2>3. Kept' /\ Fresh' /\ Stage' /\ Held("apply")' /\ Gone'
    BY <2>1, <2>2, KeptStep
  <2>4. OpTyped' /\ Served' /\ Wanted' /\ Provided'
    BY OpTypedStep, ServedStep, WantedStep, ProvidedStep DEF Kept, Unique
  <2> QED BY <2>3, <2>4
<1> QED BY <1>1, <1>2, OperatorIsClient, TypedAlways, PTL DEF OperatorSpec

(* While the operator's workers wait for their tasks, a resource that was  *)
(* deleted and is no longer being reconciled has no container and none is  *)
(* being created, for any number of workers that compete for VMIDs and     *)
(* locks, any sequence of changes and deletions by users, and whatever     *)
(* requests and tasks fail and are retried.                                *)
THEOREM DeletedStaysGone ==
  ASSUME Patient, OwnNames, NoPinned
  PROVE  OperatorSpec => []DeletedIsGone
<1>1. OpInv => DeletedIsGone
  BY DEF OpInv, Wanted, DeletedIsGone, Containers, OwnNames
<1> QED BY <1>1, OpInvariance, PTL

(* Under the same conditions, a resource that exists and is no longer      *)
(* being reconciled has exactly one container.                             *)
THEOREM ExistingStaysThere ==
  ASSUME Patient, OwnNames, NoPinned
  PROVE  OperatorSpec => []ExistingIsThere
<1>1. OpInv => ExistingIsThere
  <2> SUFFICES ASSUME OpInv, NEW p \in Pods, exists[p], event[p] = "none",
                      \A c \in Workers : serving[c] # p
               PROVE  Cardinality(Containers(p)) = 1
    BY DEF ExistingIsThere
  <2>1. PICK v \in VMIDs : name[v] = p
    BY DEF OpInv, Provided
  <2>2. \A w \in VMIDs : name[w] = p => w = v
    BY <2>1, PodAssumption, VEAssumption DEF OpInv, Kept, Unique, UniqueFromStart
  <2>3. Containers(p) = {v}
    BY <2>1, <2>2 DEF Containers, OwnNames
  <2> QED BY <2>3, FS_Singleton
<1> QED BY <1>1, OpInvariance, PTL
=============================================================================
