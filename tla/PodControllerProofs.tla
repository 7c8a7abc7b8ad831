------------------------ MODULE PodControllerProofs ------------------------
(***************************************************************************)
(* Theorems about PodController, for any clients, pods, VMIDs and calls.   *)
(***************************************************************************)
EXTENDS PodController, TLAPS

(* Where a client is tells what it is doing and for whom, and a client     *)
(* that addresses a container has a VMID.                                  *)
Control ==
  \A c \in Clients :
    /\ pc[c] # "idle" => <<c, op[c], pod[c]>> \in Calls
    /\ pc[c] \notin {"idle", "find", "nextid"} => vmid[c] \in VMIDs
    /\ pc[c] \in {"nextid", "create", "waitCreate", "start", "waitStart"} => op[c] = "apply"
    /\ pc[c] \in {"status", "stop", "waitStop", "destroy", "waitDestroy"} => op[c] = "delete"

Typed == TypeOK /\ Control

-----------------------------------------------------------------------------
(* The building blocks of the actions keep their variables in their types. *)

(* Going to a label with a VMID keeps the local variables in their types.  *)
LEMMA GotoTyped ==
  ASSUME TypeOK, NEW c \in Clients, NEW l \in Labels, NEW v \in VMIDs \cup {0}, Goto(c, l, v)
  PROVE  /\ pc' \in [Clients -> Labels]
         /\ op' \in [Clients -> Ops \cup {"none"}]
         /\ pod' \in [Clients -> Pods \cup {None}]
         /\ vmid' \in [Clients -> VMIDs \cup {0}]
         /\ result' \in [Clients -> Results]
  BY DEF TypeOK, Goto

(* So does returning.                                                      *)
LEMMA ReturnTyped ==
  ASSUME TypeOK, NEW c \in Clients, NEW r \in Results, Return(c, r)
  PROVE  /\ pc' \in [Clients -> Labels]
         /\ op' \in [Clients -> Ops \cup {"none"}]
         /\ pod' \in [Clients -> Pods \cup {None}]
         /\ vmid' \in [Clients -> VMIDs \cup {0}]
         /\ result' \in [Clients -> Results]
  BY DEF TypeOK, Return, Labels

(* An accepted request keeps the node's variables in their types.          *)
LEMMA SubmitTyped ==
  ASSUME VETypeOK, NEW c \in Clients, NEW by \in Clients \cup {None}, NEW kind \in TaskKinds,
         NEW v, NEW h \in Names, Submit(c, by, kind, v, h)
  PROVE  VETypeOK'
  <1>1. job' \in [VMIDs -> [kind : TaskKinds \cup {"none"}, by : Clients \cup {None}]]
    BY DEF Submit, VETypeOK
  <1>2. name' \in [VMIDs -> Names \cup {None}]
    BY DEF Submit, VETypeOK
  <1>3. outcome' \in [Clients -> {"none", "OK", "failed"}] /\ state' = state
    BY DEF Submit, VETypeOK
  <1> QED BY <1>1, <1>2, <1>3 DEF VETypeOK

(* So does the end of a task ...                                           *)
LEMMA EndTaskTyped ==
  ASSUME VETypeOK, NEW v \in VMIDs, NEW exit \in {"OK", "failed"}, EndTask(v, exit)
  PROVE  VETypeOK'
  <1>1. job[v].kind \in TaskKinds
    BY DEF EndTask, Locked, VETypeOK
  <1>2. Leaves(job[v].kind) \in {"absent", "stopped", "running"}
    BY <1>1 DEF Leaves, TaskKinds
  <1>3. state' \in [VMIDs -> {"absent", "stopped", "running"}]
    BY <1>2 DEF EndTask, VETypeOK
  <1>4. name' \in [VMIDs -> Names \cup {None}]
    BY DEF EndTask, VETypeOK
  <1>5. job' \in [VMIDs -> [kind : TaskKinds \cup {"none"}, by : Clients \cup {None}]]
    BY DEF EndTask, VETypeOK, NoJob
  <1>6. outcome' \in [Clients -> {"none", "OK", "failed"}]
    BY DEF EndTask, VETypeOK
  <1> QED BY <1>3, <1>4, <1>5, <1>6 DEF VETypeOK

(* ... and a client that stops polling.                                    *)
LEMMA OrphanTyped ==
  ASSUME VETypeOK, NEW c \in Clients, Orphan(c)
  PROVE  VETypeOK'
  BY DEF Orphan, VETypeOK

(* Whatever happens on the node leaves everything in its type.             *)
LEMMA NodeTyped ==
  ASSUME VETypeOK, NEW v \in VMIDs, TaskDone(v) \/ TaskFailed(v) \/ Halt(v)
  PROVE  VETypeOK'
  <1>1. CASE TaskDone(v) BY <1>1, EndTaskTyped DEF TaskDone
  <1>2. CASE TaskFailed(v) BY <1>2, EndTaskTyped DEF TaskFailed
  <1>3. CASE Halt(v) BY <1>3 DEF Halt, VETypeOK
  <1> QED BY <1>1, <1>2, <1>3

(* The types are about the variables in vars and nothing else.             *)
LEMMA SameTyped ==
  ASSUME VETypeOK, UNCHANGED pve
  PROVE  VETypeOK'
  BY DEF VETypeOK, pve

-----------------------------------------------------------------------------
(* Type correctness.                                                       *)

(* A client in the middle of a call has a call, a pod, and a host name.    *)
LEMMA HostnameTyped ==
  ASSUME NEW c \in Clients, Typed, pc[c] # "idle"
  PROVE  op[c] \in Ops /\ pod[c] \in Pods /\ Hostname[pod[c]] \in Names
  BY PodAssumption DEF Typed, Control, Ops

(* A mutating request, whichever way it ends, leaves everything in its type. *)
LEMMA RequestTyped ==
  ASSUME Typed, NEW c \in Clients, pc[c] # "idle",
         NEW kind \in TaskKinds, NEW wait \in Waits, vmid[c] \in VMIDs,
         Request(c, kind, wait)
  PROVE  TypeOK'
  <1> USE DEF Typed
  <1>1. Hostname[pod[c]] \in Names
    BY HostnameTyped
  <1>2. CASE Submit(c, c, kind, vmid[c], Hostname[pod[c]]) /\ Goto(c, wait, vmid[c])
    <2>1. VETypeOK'
      BY <1>1, <1>2, SubmitTyped DEF TypeOK
    <2> QED BY <1>2, <2>1, GotoTyped DEF TypeOK, Labels
  <1>3. CASE ~Accepts(kind, vmid[c]) /\ Return(c, "error") /\ UNCHANGED pve
    BY <1>3, SameTyped, ReturnTyped DEF TypeOK, Results
  <1>4. CASE Rejected(c)
    BY <1>4, SameTyped, ReturnTyped DEF TypeOK, Results, Rejected
  <1>5. CASE Submit(c, None, kind, vmid[c], Hostname[pod[c]]) /\ Return(c, "error")
    <2>1. VETypeOK'
      BY <1>1, <1>5, SubmitTyped DEF TypeOK
    <2> QED BY <1>5, <2>1, ReturnTyped DEF TypeOK, Results
  <1> QED BY <1>2, <1>3, <1>4, <1>5 DEF Request

(* Typed is inductive; it holds along every behaviour.                     *)
THEOREM TypedAlways == Spec => []Typed
<1>1. Init => Typed
  BY DEF Init, VEInit, Typed, TypeOK, VETypeOK, Control, NoJob, Labels, Results
<1>2. Typed /\ [Next]_vars => Typed'
  <2> SUFFICES ASSUME Typed, [Next]_vars PROVE Typed'
    OBVIOUS
  <2>1. TypeOK'
    <3> USE DEF Typed
    <3>1. ASSUME NEW c \in Clients, NEW o \in Ops, NEW p \in Pods, Begin(c, o, p)
          PROVE  TypeOK'
      <4>1. VETypeOK'
        BY <3>1, SameTyped DEF Begin, TypeOK
      <4>2. SpecVMID[p] \in VMIDs \cup {0}
        BY PodAssumption
      <4>3. pc' \in [Clients -> Labels]
        BY <3>1 DEF Begin, TypeOK, Labels, Resolved
      <4> QED BY <3>1, <4>1, <4>2, <4>3 DEF Begin, TypeOK, Results
    <3>2. ASSUME NEW c \in Clients, Find(c)
          PROVE  TypeOK'
      <4>1. VETypeOK'
        BY <3>2, SameTyped DEF Find, TypeOK
      <4>2. Named(pod[c]) \subseteq VMIDs /\ Resolved(op[c]) \in Labels
        BY DEF Named, ListLXC, Resolved, Labels
      <4>3. ASSUME NEW v \in Named(pod[c]), Goto(c, Resolved(op[c]), v)
            PROVE  TypeOK'
        BY <4>1, <4>2, <4>3, GotoTyped DEF TypeOK
      <4>4. CASE Goto(c, "nextid", 0)
        BY <4>1, <4>4, GotoTyped DEF TypeOK, Labels
      <4>5. CASE Return(c, "notfound") \/ Return(c, "error")
        BY <4>1, <4>5, ReturnTyped DEF TypeOK, Results
      <4> QED BY <3>2, <4>3, <4>4, <4>5 DEF Find, Rejected
    <3>3. ASSUME NEW c \in Clients, NextID(c)
          PROVE  TypeOK'
      <4>1. VETypeOK'
        BY <3>3, SameTyped DEF NextID, TypeOK
      <4>2. NextIDs \subseteq VMIDs
        BY DEF NextIDs, FreeIDs
      <4>3. ASSUME NEW v \in NextIDs, Goto(c, "create", v)
            PROVE  TypeOK'
        BY <4>1, <4>2, <4>3, GotoTyped DEF TypeOK, Labels
      <4>4. CASE Return(c, "error")
        BY <4>1, <4>4, ReturnTyped DEF TypeOK, Results
      <4> QED BY <3>3, <4>3, <4>4 DEF NextID, Rejected
    <3>4. ASSUME NEW c \in Clients, Create(c) \/ Start(c) \/ Stop(c) \/ Destroy(c)
          PROVE  TypeOK'
      <4>1. vmid[c] \in VMIDs /\ pc[c] # "idle"
        BY <3>4 DEF Create, Start, Stop, Destroy, Control
      <4> QED BY <3>4, <4>1, RequestTyped DEF Create, Start, Stop, Destroy, TaskKinds, Waits
    <3>5. ASSUME NEW c \in Clients, WaitForTask(c)
          PROVE  TypeOK'
      <4>1. VETypeOK'
        BY <3>5, SameTyped, OrphanTyped DEF WaitForTask, TypeOK
      <4>2. vmid[c] \in VMIDs
        BY <3>5 DEF WaitForTask, Waits, Control
      <4>3. CASE pc[c] # "waitDestroy" /\ Goto(c, AfterWait(pc[c]), vmid[c])
        <5>1. AfterWait(pc[c]) \in Labels
          BY <3>5, <4>3 DEF WaitForTask, Waits, AfterWait, Labels
        <5> QED BY <4>1, <4>2, <4>3, <5>1, GotoTyped DEF TypeOK
      <4>4. CASE Return(c, "deleted") \/ Return(c, "error")
        BY <4>1, <4>4, ReturnTyped DEF TypeOK, Results
      <4> QED BY <3>5, <4>3, <4>4 DEF WaitForTask
    <3>6. ASSUME NEW c \in Clients, Refresh(c)
          PROVE  TypeOK'
      <4>1. VETypeOK'
        BY <3>6, SameTyped DEF Refresh, TypeOK
      <4>2. vmid[c] \in VMIDs
        BY <3>6 DEF Refresh, Control
      <4>3. GetLXCStatus(vmid[c]) \in {"absent", "stopped", "running"}
        BY <4>2 DEF GetLXCStatus, TypeOK, VETypeOK
      <4> QED BY <3>6, <4>1, <4>3, ReturnTyped DEF Refresh, Rejected, TypeOK, Results
    <3>7. ASSUME NEW c \in Clients, Status(c)
          PROVE  TypeOK'
      <4>1. VETypeOK'
        BY <3>7, SameTyped DEF Status, TypeOK
      <4>2. vmid[c] \in VMIDs
        BY <3>7 DEF Status, Control
      <4>3. CASE Goto(c, "stop", vmid[c]) \/ Goto(c, "destroy", vmid[c])
        BY <4>1, <4>2, <4>3, GotoTyped DEF TypeOK, Labels
      <4>4. CASE Return(c, "error")
        BY <4>1, <4>4, ReturnTyped DEF TypeOK, Results
      <4> QED BY <3>7, <4>3, <4>4 DEF Status, Rejected
    <3>8. ASSUME NEW c \in Clients, Crash(c)
          PROVE  TypeOK'
      BY <3>8, OrphanTyped, ReturnTyped DEF Crash, TypeOK, Results
    <3>9. CASE Node
      <4>1. VETypeOK'
        BY <3>9, NodeTyped DEF Node, TypeOK
      <4> QED BY <3>9, <4>1 DEF Node, TypeOK, local
    <3>10. CASE UNCHANGED vars
      BY <3>10, SameTyped DEF vars, pve, TypeOK
    <3> QED
      BY <3>1, <3>2, <3>3, <3>4, <3>5, <3>6, <3>7, <3>8, <3>9, <3>10 DEF Next, Step
  <2>2. Control'
    <3> USE DEF Typed
    <3>1. ASSUME NEW c \in Clients, NEW o \in Ops, NEW p \in Pods, Begin(c, o, p)
          PROVE  Control'
      <4>1. SpecVMID[p] # 0 => SpecVMID[p] \in VMIDs
        BY PodAssumption
      <4> QED BY <3>1, <4>1 DEF Begin, Control, TypeOK, Resolved, Ops
    <3>2. ASSUME NEW c \in Clients, NEW r, Return(c, r)
          PROVE  Control'
      BY <3>2 DEF Return, Control, TypeOK
    <3>3. ASSUME NEW c \in Clients, Find(c)
          PROVE  Control'
      <4>1. op[c] \in Ops
        BY <3>3, HostnameTyped DEF Find
      <4>2. Named(pod[c]) \subseteq VMIDs
        BY DEF Named, ListLXC
      <4>3. ASSUME NEW v \in Named(pod[c]), Goto(c, Resolved(op[c]), v)
            PROVE  Control'
        BY <3>3, <4>1, <4>2, <4>3 DEF Goto, Resolved, Control, TypeOK, Find, Ops
      <4>4. CASE op[c] = "apply" /\ Goto(c, "nextid", 0)
        BY <3>3, <4>4 DEF Goto, Control, TypeOK, Find
      <4> QED BY <3>2, <3>3, <4>3, <4>4 DEF Find, Rejected
    <3>4. ASSUME NEW c \in Clients, NextID(c)
          PROVE  Control'
      <4>1. NextIDs \subseteq VMIDs
        BY DEF NextIDs, FreeIDs
      <4>2. ASSUME NEW v \in NextIDs, Goto(c, "create", v)
            PROVE  Control'
        BY <3>4, <4>1, <4>2 DEF Goto, Control, TypeOK, NextID
      <4> QED BY <3>2, <3>4, <4>2 DEF NextID, Rejected
    <3>5. ASSUME NEW c \in Clients, Create(c) \/ Start(c) \/ Stop(c) \/ Destroy(c)
          PROVE  Control'
      <4>1. ASSUME NEW wait \in Waits, Goto(c, wait, vmid[c]),
                   \/ pc[c] \in {"create", "start"} /\ wait \in {"waitCreate", "waitStart"}
                   \/ pc[c] \in {"stop", "destroy"} /\ wait \in {"waitStop", "waitDestroy"}
            PROVE  Control'
        BY <4>1 DEF Goto, Control, TypeOK, Waits
      <4> QED BY <3>2, <3>5, <4>1 DEF Create, Start, Stop, Destroy, Request, Rejected, Waits
    <3>6. ASSUME NEW c \in Clients, WaitForTask(c)
          PROVE  Control'
      <4>1. CASE pc[c] # "waitDestroy" /\ Goto(c, AfterWait(pc[c]), vmid[c])
        BY <3>6, <4>1 DEF Goto, Control, TypeOK, WaitForTask, Waits, AfterWait
      <4> QED BY <3>2, <3>6, <4>1 DEF WaitForTask
    <3>7. ASSUME NEW c \in Clients, Refresh(c) \/ Crash(c)
          PROVE  Control'
      BY <3>2, <3>7 DEF Refresh, Crash, Rejected
    <3>8. ASSUME NEW c \in Clients, Status(c)
          PROVE  Control'
      <4>1. CASE Goto(c, "stop", vmid[c]) \/ Goto(c, "destroy", vmid[c])
        BY <3>8, <4>1 DEF Goto, Control, TypeOK, Status
      <4> QED BY <3>2, <3>8, <4>1 DEF Status, Rejected
    <3>9. CASE Node \/ UNCHANGED vars
      BY <3>9 DEF Node, vars, local, Control
    <3> QED
      BY <3>1, <3>3, <3>4, <3>5, <3>6, <3>7, <3>8, <3>9 DEF Next, Step
  <2> QED BY <2>1, <2>2 DEF Typed
<1> QED BY <1>1, <1>2, PTL DEF Spec

(* Every variable of the controller and of the node stays in its type.     *)
THEOREM TypeCorrect == Spec => []TypeOK
<1>1. Typed => TypeOK
  BY DEF Typed
<1> QED BY <1>1, TypedAlways, PTL

-----------------------------------------------------------------------------
(* The safety invariants.  The controller takes no lock, so each holds     *)
(* only while no two clients are at a pod at a time in ways that disturb   *)
(* each other, and while clients wait for the end of their tasks; TLC      *)
(* shows that neither can be dropped.                                      *)

(* No client leaves a task behind that still runs.                         *)
Patient == Faults \cap {"lost", "abandon", "crash"} = {}

(* The client that may call o for a pod is the one that may call q for it. *)
SameClient(o, q) == \A p \in Pods : \A c, d \in Clients :
                      <<c, o, p>> \in Calls /\ <<d, q, p>> \in Calls => c = d

OneApplier == SameClient("apply", "apply")
OneDeleter == SameClient("delete", "delete")

(* Containers carry the name of their pod; pods are found by that name.    *)
OwnNames == \A p \in Pods : Hostname[p] = p
NoPinned == \A p \in Pods : SpecVMID[p] = 0

-----------------------------------------------------------------------------
(* Every running task has a client that still waits for it.                *)
WaitFor(kind) ==
  CASE kind = "create" -> "waitCreate"
    [] kind = "start" -> "waitStart"
    [] kind = "stop" -> "waitStop"
    [] kind = "destroy" -> "waitDestroy"

Awaited ==
  \A v \in VMIDs : Locked(v) =>
    /\ job[v].by \in Clients
    /\ pc[job[v].by] = WaitFor(job[v].kind)
    /\ vmid[job[v].by] = v
    /\ outcome[job[v].by] = "none"

(* A client that does not wait, or whose task has ended, owns no task.     *)
LEMMA NoTask ==
  ASSUME Typed, Awaited, NEW c \in Clients, pc[c] \notin Waits \/ outcome[c] # "none",
         NEW v \in VMIDs, Locked(v)
  PROVE  job[v].by # c
  <1>1. job[v].kind \in TaskKinds
    BY DEF Locked, Typed, TypeOK, VETypeOK
  <1> QED BY <1>1 DEF Awaited, WaitFor, TaskKinds, Waits

(* While clients are patient, every task is waited for by the client that  *)
(* started it.                                                             *)
LEMMA AwaitedStep ==
  ASSUME Typed, Awaited, Patient, [Next]_vars
  PROVE  Awaited'
  <1> USE DEF Typed, TypeOK, VETypeOK
  <1>1. ASSUME NEW c \in Clients, NEW l, NEW i, Goto(c, l, i) \/ (\E r : Return(c, r)), UNCHANGED pve,
               pc[c] \notin Waits \/ outcome[c] # "none"
        PROVE  Awaited'
    <2>1. \A v \in VMIDs : Locked(v) => job[v].by # c
      BY <1>1, NoTask
    <2> QED BY <1>1, <2>1 DEF Awaited, Goto, Return, pve, Locked
  <1>2. ASSUME NEW c \in Clients, NEW o, NEW p, Begin(c, o, p)
        PROVE  Awaited'
    <2>1. \A v \in VMIDs : Locked(v) => job[v].by # c
      BY <1>2, NoTask DEF Begin, Waits
    <2> QED BY <1>2, <2>1 DEF Awaited, Begin, pve, Locked
  <1>3. ASSUME NEW c \in Clients, NEW kind \in TaskKinds, NEW h,
               Submit(c, c, kind, vmid[c], h), Goto(c, WaitFor(kind), vmid[c]),
               pc[c] \notin Waits, vmid[c] \in VMIDs
        PROVE  Awaited'
    <2>1. \A v \in VMIDs : Locked(v) => job[v].by # c
      BY <1>3, NoTask
    <2>2. ASSUME NEW v \in VMIDs, v # vmid[c], Locked(v)'
          PROVE  /\ job'[v] = job[v] /\ job[v].by # c
                 /\ pc'[job[v].by] = pc[job[v].by]
                 /\ vmid'[job[v].by] = vmid[job[v].by]
                 /\ outcome'[job[v].by] = outcome[job[v].by]
      BY <1>3, <2>1, <2>2 DEF Submit, Goto, Locked
    <2>3. /\ job'[vmid[c]] = [kind |-> kind, by |-> c]
          /\ pc'[c] = WaitFor(kind) /\ vmid'[c] = vmid[c] /\ outcome'[c] = "none"
      BY <1>3 DEF Submit, Goto
    <2> QED BY <1>3, <2>1, <2>2, <2>3 DEF Awaited, Locked
  <1>4. ASSUME NEW v \in VMIDs, NEW exit, EndTask(v, exit), UNCHANGED local
        PROVE  Awaited'
    <2>1. \A w \in VMIDs \ {v} : Locked(w) => job[w].by # job[v].by
      BY <1>4 DEF EndTask, Awaited
    <2> QED BY <1>4, <2>1 DEF EndTask, Awaited, Locked, NoJob, local
  <1>5. ASSUME NEW c \in Clients, Step(c)
        PROVE  Awaited'
    <2>1. CASE Find(c) \/ NextID(c) \/ Refresh(c) \/ Status(c)
      BY <1>1, <2>1 DEF Find, NextID, Refresh, Status, Rejected, Waits
    <2>2. CASE Create(c) \/ Start(c) \/ Stop(c) \/ Destroy(c)
      <3>1. vmid[c] \in VMIDs /\ pc[c] \notin Waits
        BY <2>2 DEF Create, Start, Stop, Destroy, Control, Waits
      <3>2. CASE \E kind \in TaskKinds :
                   Submit(c, c, kind, vmid[c], Hostname[pod[c]]) /\ Goto(c, WaitFor(kind), vmid[c])
        BY <1>3, <3>1, <3>2
      <3>3. CASE (\E r : Return(c, r)) /\ UNCHANGED pve
        BY <1>1, <3>1, <3>3
      <3> QED
        BY <2>2, <3>2, <3>3 DEF Create, Start, Stop, Destroy, Request, Rejected, WaitFor, TaskKinds, Patient
    <2>3. CASE WaitForTask(c)
      BY <1>1, <2>3 DEF WaitForTask, TakenForTask, Patient
    <2> QED BY <1>5, <2>1, <2>2, <2>3 DEF Step
  <1>6. CASE Node
    <2>1. ASSUME NEW v \in VMIDs, Halt(v), UNCHANGED local
          PROVE  Awaited'
      BY <2>1 DEF Halt, local, Awaited, Locked
    <2> QED BY <1>4, <1>6, <2>1 DEF Node, TaskDone, TaskFailed
  <1>7. CASE UNCHANGED vars
    BY <1>7 DEF vars, Awaited, Locked
  <1> QED BY <1>2, <1>5, <1>6, <1>7 DEF Next, Crash, Patient

-----------------------------------------------------------------------------
(* While a client runs o for a pod, no other client runs q for it.         *)
Alone(o, q) ==
  \A c, d \in Clients :
    pc[c] # "idle" /\ pc[d] # "idle" /\ op[c] = o /\ op[d] = q /\ pod[c] = pod[d] => c = d

(* So it is when the calls are those of one client.                        *)
LEMMA AloneByCalls ==
  ASSUME Typed, NEW o, NEW q, SameClient(o, q)
  PROVE  Alone(o, q)
  <1> SUFFICES ASSUME NEW c \in Clients, NEW d \in Clients, pc[c] # "idle", pc[d] # "idle",
                      op[c] = o, op[d] = q, pod[c] = pod[d]
               PROVE  c = d
    BY DEF Alone
  <1>1. <<c, o, pod[c]>> \in Calls /\ <<d, q, pod[c]>> \in Calls
    BY DEF Typed, Control
  <1>2. pod[c] \in Pods
    BY HostnameTyped
  <1> QED BY <1>1, <1>2 DEF SameClient

(* No two clients are at a pod at a time, unless one only reads.           *)
Apart == Alone("apply", "apply") /\ Alone("delete", "delete") /\ Alone("apply", "delete")

(* Clients keep apart when every pod is applied and deleted by one client, *)
(* as by an operator that owns it: the runs make this of the conditions    *)
(* below, which also hold of clients that take turns.                      *)
THEOREM OwnersAreApart ==
  ASSUME OneApplier, OneDeleter, SameClient("apply", "delete")
  PROVE  Spec => []Apart
<1>1. Typed => Apart
  BY AloneByCalls DEF Apart, OneApplier, OneDeleter
<1> QED BY <1>1, TypedAlways, PTL

-----------------------------------------------------------------------------
(* One container per name.                                                 *)

(* A VMID has a name exactly while its container exists or is being        *)
(* created, and a container being created has the name of the pod its      *)
(* creator applies.                                                        *)
NameMeans ==
  \A v \in VMIDs :
    /\ name[v] # None <=> Exists(v) \/ job[v].kind = "create"
    /\ job[v].kind \in {"start", "stop", "destroy"} => Exists(v)
    /\ job[v].kind = "create" => name[v] = pod[job[v].by]

(* Names are unique from the request that creates a container on.          *)
UniqueFromStart == \A v, w \in VMIDs : v # w /\ name[v] # None => name[v] # name[w]

(* A client that is about to create a container for a pod is right that    *)
(* there is none, whatever has happened since it looked.                   *)
NoneYet ==
  \A c \in Clients : pc[c] \in {"nextid", "create"} => \A v \in VMIDs : name[v] # pod[c]

Unique == Typed /\ Awaited /\ NameMeans /\ UniqueFromStart /\ NoneYet

(* Steps that leave the node alone and do not reach the creating request.  *)
LEMMA UniqueLocal ==
  ASSUME Unique, NEW c \in Clients, UNCHANGED pve, pc[c] \notin Waits \/ outcome[c] # "none",
         \A d \in Clients \ {c} : pc'[d] = pc[d] /\ pod'[d] = pod[d],
         pc'[c] \in {"nextid", "create"} => pc[c] \in {"nextid", "create"} /\ pod'[c] = pod[c]
  PROVE  NameMeans' /\ UniqueFromStart' /\ NoneYet'
  <1> USE DEF Unique
  <1>1. \A v \in VMIDs : Locked(v) => job[v].by # c /\ job[v].by \in Clients
    BY NoTask DEF Awaited
  <1>2. NameMeans'
    BY <1>1 DEF NameMeans, pve, Exists, Locked
  <1>3. UniqueFromStart'
    BY DEF UniqueFromStart, pve
  <1>4. NoneYet'
    BY DEF NoneYet, pve
  <1> QED BY <1>2, <1>3, <1>4

(* The request that creates a container.                                   *)
LEMMA UniqueCreate ==
  ASSUME Unique, Alone("apply", "apply"), OwnNames, NEW c \in Clients, pc[c] = "create",
         Submit(c, c, "create", vmid[c], Hostname[pod[c]]), Goto(c, "waitCreate", vmid[c])
  PROVE  NameMeans' /\ UniqueFromStart' /\ NoneYet'
  <1> USE DEF Unique
  <1>1. op[c] = "apply" /\ pod[c] \in Pods /\ vmid[c] \in VMIDs /\ Hostname[pod[c]] = pod[c]
    BY HostnameTyped DEF Typed, Control, OwnNames
  <1>2. \A v \in VMIDs : name[v] # pod[c]
    BY DEF NoneYet
  <1>3. /\ name' = [name EXCEPT ![vmid[c]] = pod[c]]
        /\ job' = [job EXCEPT ![vmid[c]] = [kind |-> "create", by |-> c]]
        /\ state' = state /\ pod' = pod /\ pc' = [pc EXCEPT ![c] = "waitCreate"]
    BY <1>1 DEF Submit, Goto
  <1>4. pod[c] # None
    BY <1>1, VEAssumption, PodAssumption
  <1>5. NameMeans'
    BY <1>1, <1>3, <1>4 DEF NameMeans, Exists, Typed, TypeOK, VETypeOK
  <1>6. UniqueFromStart'
    BY <1>1, <1>2, <1>3 DEF UniqueFromStart, Typed, TypeOK, VETypeOK
  <1>7. ASSUME NEW d \in Clients, pc'[d] \in {"nextid", "create"}, NEW v \in VMIDs
        PROVE  name'[v] # pod'[d]
    <2>1. d # c /\ pc[d] \in {"nextid", "create"} /\ op[d] = "apply"
      BY <1>3, <1>7 DEF Typed, TypeOK, Control
    <2>2. pod[d] # pod[c]
      BY <1>1, <2>1 DEF Alone, Typed, Control
    <2>3. name[v] # pod[d]
      BY <2>1 DEF NoneYet
    <2> QED BY <1>1, <1>3, <2>2, <2>3 DEF Typed, TypeOK, VETypeOK
  <1> QED BY <1>5, <1>6, <1>7 DEF NoneYet

(* The other requests change no name.                                      *)
LEMMA UniqueRequest ==
  ASSUME Unique, NEW c \in Clients, NEW kind \in {"start", "stop", "destroy"}, NEW wait \in Waits, NEW h,
         vmid[c] \in VMIDs, Submit(c, c, kind, vmid[c], h), Goto(c, wait, vmid[c])
  PROVE  NameMeans' /\ UniqueFromStart' /\ NoneYet'
  <1> USE DEF Unique
  <1>1. /\ name' = name /\ state' = state /\ pod' = pod
        /\ job' = [job EXCEPT ![vmid[c]] = [kind |-> kind, by |-> c]]
        /\ pc' = [pc EXCEPT ![c] = wait]
    BY DEF Submit, Goto
  <1>2. Exists(vmid[c]) /\ ~Locked(vmid[c])
    BY DEF Submit, Accepts, Needs, Exists
  <1>3. NameMeans'
    BY <1>1, <1>2 DEF NameMeans, Exists, Locked, Typed, TypeOK, VETypeOK
  <1>4. UniqueFromStart'
    BY <1>1 DEF UniqueFromStart
  <1>5. NoneYet'
    BY <1>1 DEF NoneYet, Typed, TypeOK, Waits
  <1> QED BY <1>3, <1>4, <1>5

(* The end of a task, and a container that stops.                          *)
LEMMA UniqueEndTask ==
  ASSUME Unique, NEW v \in VMIDs, NEW exit, EndTask(v, exit), UNCHANGED local
  PROVE  NameMeans' /\ UniqueFromStart' /\ NoneYet'
  <1> USE DEF Unique
  <1>1. job[v].kind \in TaskKinds /\ job' = [job EXCEPT ![v] = NoJob]
    BY DEF EndTask, Locked, Typed, TypeOK, VETypeOK
  <1>2. PICK left : /\ left = IF exit = "OK" THEN Leaves(job[v].kind) ELSE state[v]
                    /\ state' = [state EXCEPT ![v] = left]
                    /\ name' = IF left = "absent" THEN [name EXCEPT ![v] = None] ELSE name
    BY DEF EndTask
  <1>3. name[v] # None
    BY <1>1 DEF NameMeans, TaskKinds
  <1>4. \A w \in VMIDs : name'[w] = name[w] \/ name'[w] = None
    BY <1>2 DEF Typed, TypeOK, VETypeOK
  <1>5. NameMeans'
    BY <1>1, <1>2, <1>3 DEF NameMeans, Exists, NoJob, local, Typed, TypeOK, VETypeOK
  <1>6. UniqueFromStart'
    BY <1>4 DEF UniqueFromStart
  <1>7. NoneYet'
    <2>1. \A c \in Clients : pc[c] # "idle" => pod[c] # None
      BY HostnameTyped, VEAssumption, PodAssumption
    <2> QED BY <1>4, <2>1 DEF NoneYet, local
  <1> QED BY <1>5, <1>6, <1>7

(* A client that finds no container of its pod is not mistaken.            *)
LEMMA UniqueFind ==
  ASSUME Unique, Alone("apply", "apply"), OwnNames, NEW c \in Clients, pc[c] = "find", op[c] = "apply",
         Named(pod[c]) = {}, Goto(c, "nextid", 0), UNCHANGED pve
  PROVE  NameMeans' /\ UniqueFromStart' /\ NoneYet'
  <1> USE DEF Unique
  <1>1. pod[c] \in Pods /\ pod[c] # None
    BY HostnameTyped, VEAssumption, PodAssumption
  <1>2. ASSUME NEW v \in VMIDs
        PROVE  name[v] # pod[c]
    <2>1. SUFFICES ASSUME name[v] = pod[c], job[v].kind = "create" PROVE FALSE
      BY <1>1 DEF Named, ListLXC, NameMeans
    <2>2. /\ job[v].by \in Clients /\ pc[job[v].by] = "waitCreate" /\ pod[job[v].by] = pod[c]
      BY <2>1 DEF Awaited, WaitFor, NameMeans, Locked
    <2>3. op[job[v].by] = "apply"
      BY <2>2 DEF Typed, Control
    <2> QED BY <2>2, <2>3 DEF Alone
  <1>3. \A v \in VMIDs : Locked(v) => job[v].by # c /\ job[v].by \in Clients
    BY NoTask DEF Awaited, Waits
  <1>4. NameMeans'
    BY <1>3 DEF NameMeans, pve, Exists, Locked, Goto
  <1>5. UniqueFromStart'
    BY DEF UniqueFromStart, pve
  <1>6. NoneYet'
    BY <1>2 DEF NoneYet, pve, Goto, Typed, TypeOK
  <1> QED BY <1>4, <1>5, <1>6

(* Every step preserves the invariant behind UniqueName.                   *)
LEMMA UniqueStep ==
  ASSUME Unique, Patient, Alone("apply", "apply"), OwnNames, [Next]_vars
  PROVE  NameMeans' /\ UniqueFromStart' /\ NoneYet'
  <1> USE DEF Unique
  <1>1. ASSUME NEW c \in Clients, NEW r, Return(c, r), UNCHANGED pve, pc[c] \notin Waits \/ outcome[c] # "none"
        PROVE  NameMeans' /\ UniqueFromStart' /\ NoneYet'
    BY <1>1, UniqueLocal DEF Return, Typed, TypeOK
  <1>2. ASSUME NEW c \in Clients, NEW l \in Labels \ {"nextid", "create"}, NEW i, Goto(c, l, i), UNCHANGED pve,
               pc[c] \notin Waits \/ outcome[c] # "none"
        PROVE  NameMeans' /\ UniqueFromStart' /\ NoneYet'
    BY <1>2, UniqueLocal DEF Goto, Typed, TypeOK
  <1>3. ASSUME NEW c \in Clients, NEW o \in Ops, NEW p \in Pods, Begin(c, o, p)
        PROVE  NameMeans' /\ UniqueFromStart' /\ NoneYet'
    BY <1>3, UniqueLocal DEF Begin, Resolved, Waits, Typed, TypeOK
  <1>4. ASSUME NEW c \in Clients, Find(c)
        PROVE  NameMeans' /\ UniqueFromStart' /\ NoneYet'
    <2>1. pc[c] = "find" /\ UNCHANGED pve
      BY <1>4 DEF Find
    <2>2. Resolved(op[c]) \in Labels \ {"nextid", "create"}
      BY DEF Resolved, Labels
    <2> QED BY <1>1, <1>2, <1>4, <2>1, <2>2, UniqueFind DEF Find, Rejected, Waits
  <1>5. ASSUME NEW c \in Clients, NextID(c)
        PROVE  NameMeans' /\ UniqueFromStart' /\ NoneYet'
    <2>1. pc[c] = "nextid" /\ UNCHANGED pve
      BY <1>5 DEF NextID
    <2>2. ASSUME NEW v \in NextIDs, Goto(c, "create", v)
          PROVE  NameMeans' /\ UniqueFromStart' /\ NoneYet'
      BY <2>1, <2>2, UniqueLocal DEF Goto, Waits, Typed, TypeOK
    <2> QED BY <1>1, <1>5, <2>1, <2>2 DEF NextID, Rejected, Waits
  <1>6. ASSUME NEW c \in Clients, Create(c) \/ Start(c) \/ Stop(c) \/ Destroy(c)
        PROVE  NameMeans' /\ UniqueFromStart' /\ NoneYet'
    <2>1. vmid[c] \in VMIDs /\ pc[c] \notin Waits
      BY <1>6 DEF Create, Start, Stop, Destroy, Typed, Control, Waits
    <2>2. CASE pc[c] = "create" /\ Submit(c, c, "create", vmid[c], Hostname[pod[c]]) /\ Goto(c, "waitCreate", vmid[c])
      BY <2>2, UniqueCreate
    <2>3. ASSUME NEW kind \in {"start", "stop", "destroy"}, NEW wait \in Waits,
                 Submit(c, c, kind, vmid[c], Hostname[pod[c]]), Goto(c, wait, vmid[c])
          PROVE  NameMeans' /\ UniqueFromStart' /\ NoneYet'
      BY <2>1, <2>3, UniqueRequest
    <2> QED
      BY <1>1, <1>6, <2>1, <2>2, <2>3 DEF Create, Start, Stop, Destroy, Request, Rejected, Patient, Waits
  <1>7. ASSUME NEW c \in Clients, WaitForTask(c)
        PROVE  NameMeans' /\ UniqueFromStart' /\ NoneYet'
    <2>1. pc[c] # "waitDestroy" => AfterWait(pc[c]) \in Labels \ {"nextid", "create"}
      BY <1>7 DEF WaitForTask, Waits, AfterWait, Labels
    <2> QED BY <1>1, <1>2, <1>7, <2>1 DEF WaitForTask, TakenForTask, Patient
  <1>8. ASSUME NEW c \in Clients, Refresh(c) \/ Status(c)
        PROVE  NameMeans' /\ UniqueFromStart' /\ NoneYet'
    BY <1>1, <1>2, <1>8 DEF Refresh, Status, Rejected, Waits, Labels
  <1>9. CASE Node
    <2>1. ASSUME NEW v \in VMIDs, Halt(v), UNCHANGED local
          PROVE  NameMeans' /\ UniqueFromStart' /\ NoneYet'
      BY <2>1 DEF Halt, local, NameMeans, UniqueFromStart, NoneYet, Exists, Typed, TypeOK, VETypeOK
    <2> QED BY <1>9, <2>1, UniqueEndTask DEF Node, TaskDone, TaskFailed
  <1>10. CASE UNCHANGED vars
    BY <1>10 DEF vars, NameMeans, UniqueFromStart, NoneYet, Exists
  <1> QED
    BY <1>3, <1>4, <1>5, <1>6, <1>7, <1>8, <1>9, <1>10 DEF Next, Step, Crash, Patient

(* When no two clients apply one pod at the same time, and all wait for    *)
(* their tasks, no two containers ever carry one name, however many        *)
(* clients apply, delete and read other pods, or this one, meanwhile and   *)
(* whatever requests and tasks fail.                                       *)
THEOREM NamesStayUnique ==
  ASSUME Patient, OwnNames
  PROVE  Spec /\ []Alone("apply", "apply") => []UniqueName
<1>1. Init => Awaited /\ NameMeans /\ UniqueFromStart /\ NoneYet
  BY DEF Init, VEInit, Awaited, NameMeans, UniqueFromStart, NoneYet, Locked, Exists, NoJob
<1>2. Typed /\ Typed' /\ Alone("apply", "apply") /\ Awaited /\ NameMeans /\ UniqueFromStart /\ NoneYet /\ [Next]_vars
        => Awaited' /\ NameMeans' /\ UniqueFromStart' /\ NoneYet'
  BY AwaitedStep, UniqueStep DEF Unique
<1>3. NameMeans /\ UniqueFromStart => UniqueName
  BY DEF NameMeans, UniqueFromStart, UniqueName, ListLXC
<1> QED BY <1>1, <1>2, <1>3, TypedAlways, PTL DEF Spec

-----------------------------------------------------------------------------
(* Delete hits only the container of its own pod.                          *)

(* Between resolving the name and asking for the destruction, the VMID     *)
(* that Delete holds remains the VMID of the pod's container.              *)
OwnTarget ==
  \A c \in Clients : pc[c] \in {"status", "stop", "waitStop", "destroy"} =>
    Exists(vmid[c]) /\ name[vmid[c]] = pod[c]

(* A destroy task removes the container of the pod its client deletes.     *)
OwnTask == \A v \in VMIDs : job[v].kind = "destroy" => name[v] = pod[job[v].by]

Own == Typed /\ Awaited /\ OwnTarget /\ OwnTask

(* Steps of c that leave the node alone.                                   *)
LEMMA OwnLocal ==
  ASSUME Own, NEW c \in Clients, UNCHANGED pve, pc[c] \notin Waits \/ outcome[c] # "none",
         \A d \in Clients \ {c} : pc'[d] = pc[d] /\ pod'[d] = pod[d] /\ vmid'[d] = vmid[d],
         pc'[c] \in {"status", "stop", "waitStop", "destroy"} => Exists(vmid'[c]) /\ name[vmid'[c]] = pod'[c]
  PROVE  OwnTarget' /\ OwnTask'
  <1>1. \A v \in VMIDs : Locked(v) => job[v].by # c /\ job[v].by \in Clients
    BY NoTask DEF Own, Awaited
  <1>2. OwnTarget'
    BY DEF Own, OwnTarget, pve, Exists
  <1>3. OwnTask'
    BY <1>1 DEF Own, OwnTask, pve, Locked
  <1> QED BY <1>2, <1>3

(* A mutating request of c takes no target away from another client.       *)
LEMMA OwnRequest ==
  ASSUME Own, NEW c \in Clients, NEW kind \in TaskKinds, NEW h,
         vmid[c] \in VMIDs, pc[c] \notin Waits,
         kind \in {"stop", "destroy"} => pc[c] \in {"stop", "destroy"},
         Submit(c, c, kind, vmid[c], h), Goto(c, WaitFor(kind), vmid[c])
  PROVE  OwnTarget' /\ OwnTask'
  <1> USE DEF Own
  <1>1. /\ state' = state /\ pod' = pod /\ vmid' = [vmid EXCEPT ![c] = vmid[c]]
        /\ job' = [job EXCEPT ![vmid[c]] = [kind |-> kind, by |-> c]]
        /\ pc' = [pc EXCEPT ![c] = WaitFor(kind)]
    BY DEF Submit, Goto
  <1>2. \A v \in VMIDs : Exists(v) => name'[v] = name[v]
    BY DEF Submit, Accepts, Needs, Exists, Typed, TypeOK, VETypeOK, TaskKinds
  <1>3. kind = "destroy" => name' = name /\ name[vmid[c]] = pod[c]
    BY DEF Submit, OwnTarget
  <1>4. \A d \in Clients : pc[d] \in {"status", "stop", "waitStop", "destroy"} => vmid[d] \in VMIDs
    BY DEF Typed, Control
  <1>5. OwnTarget'
    BY <1>1, <1>2, <1>4 DEF OwnTarget, Exists, WaitFor, TaskKinds, Typed, TypeOK
  <1>6. ASSUME NEW v \in VMIDs, job'[v].kind = "destroy"
        PROVE  name'[v] = pod'[job'[v].by]
    <2>1. CASE v = vmid[c]
      BY <1>1, <1>3, <1>6, <2>1 DEF Typed, TypeOK, VETypeOK
    <2>2. CASE v # vmid[c]
      BY <1>1, <1>6, <2>2 DEF OwnTask, Submit, Typed, TypeOK, VETypeOK
    <2> QED BY <2>1, <2>2
  <1> QED BY <1>5, <1>6 DEF OwnTask

(* The only task that takes a name away is the destroy task of the client  *)
(* that deletes the pod of that name.                                      *)
LEMMA OwnEndTask ==
  ASSUME Own, Alone("delete", "delete"), NEW v \in VMIDs, NEW exit, EndTask(v, exit), UNCHANGED local
  PROVE  OwnTarget' /\ OwnTask'
  <1> USE DEF Own
  <1>1. Locked(v) /\ job[v].kind \in TaskKinds /\ job' = [job EXCEPT ![v] = NoJob]
    BY DEF EndTask, Locked, Typed, TypeOK, VETypeOK
  <1>2. PICK left : /\ left = IF exit = "OK" THEN Leaves(job[v].kind) ELSE state[v]
                    /\ state' = [state EXCEPT ![v] = left]
                    /\ name' = IF left = "absent" THEN [name EXCEPT ![v] = None] ELSE name
    BY DEF EndTask
  <1>3. ASSUME NEW c \in Clients, pc[c] \in {"status", "stop", "waitStop", "destroy"}
        PROVE  state'[vmid[c]] # "absent" /\ name'[vmid[c]] = pod[c]
    <2>1. vmid[c] \in VMIDs /\ Exists(vmid[c]) /\ name[vmid[c]] = pod[c] /\ op[c] = "delete"
      BY <1>3 DEF OwnTarget, Typed, Control
    <2>2. CASE vmid[c] # v
      BY <1>2, <2>1, <2>2 DEF Exists, Typed, TypeOK, VETypeOK
    <2>3. CASE vmid[c] = v
      <3>1. job[v].kind # "destroy"
        <4>1. SUFFICES ASSUME job[v].kind = "destroy" PROVE FALSE
          OBVIOUS
        <4>2. /\ job[v].by \in Clients /\ pc[job[v].by] = "waitDestroy" /\ pod[job[v].by] = pod[c]
          BY <1>1, <2>1, <2>3, <4>1 DEF Awaited, WaitFor, OwnTask
        <4>3. op[job[v].by] = "delete"
          BY <4>2 DEF Typed, Control
        <4> QED BY <1>3, <2>1, <4>2, <4>3 DEF Alone
      <3>2. left # "absent"
        BY <1>1, <1>2, <2>1, <2>3, <3>1 DEF Leaves, TaskKinds, Exists
      <3> QED BY <1>2, <2>1, <2>3, <3>2 DEF Exists, Typed, TypeOK, VETypeOK
    <2> QED BY <2>2, <2>3
  <1>4. OwnTarget'
    BY <1>3 DEF OwnTarget, local, Exists
  <1>5. ASSUME NEW w \in VMIDs, job'[w].kind = "destroy"
        PROVE  name'[w] = pod[job'[w].by]
    <2>1. w # v /\ job'[w] = job[w]
      BY <1>1, <1>5 DEF NoJob, Typed, TypeOK, VETypeOK
    <2> QED BY <1>2, <1>5, <2>1 DEF OwnTask, Typed, TypeOK, VETypeOK
  <1> QED BY <1>4, <1>5 DEF OwnTask, local

(* Every step preserves the invariant behind DeleteHitsOwn.                *)
LEMMA OwnStep ==
  ASSUME Own, Patient, Alone("delete", "delete"), OwnNames, NoPinned, [Next]_vars
  PROVE  OwnTarget' /\ OwnTask'
  <1> USE DEF Own
  <1>1. ASSUME NEW c \in Clients, NEW r, Return(c, r), UNCHANGED pve, pc[c] \notin Waits \/ outcome[c] # "none"
        PROVE  OwnTarget' /\ OwnTask'
    BY <1>1, OwnLocal DEF Return, Typed, TypeOK
  <1>2. ASSUME NEW c \in Clients, NEW l, NEW i, Goto(c, l, i), UNCHANGED pve,
               pc[c] \notin Waits \/ outcome[c] # "none",
               l \in {"status", "stop", "waitStop", "destroy"} => Exists(i) /\ name[i] = pod[c]
        PROVE  OwnTarget' /\ OwnTask'
    BY <1>2, OwnLocal DEF Goto, Typed, TypeOK
  <1>3. ASSUME NEW c \in Clients, NEW o \in Ops, NEW p \in Pods, Begin(c, o, p)
        PROVE  OwnTarget' /\ OwnTask'
    BY <1>3, OwnLocal DEF Begin, Resolved, Waits, NoPinned, Typed, TypeOK
  <1>4. ASSUME NEW c \in Clients, Find(c)
        PROVE  OwnTarget' /\ OwnTask'
    <2>1. pc[c] = "find" /\ UNCHANGED pve
      BY <1>4 DEF Find
    <2>2. \A v \in Named(pod[c]) : Exists(v) /\ name[v] = pod[c]
      BY DEF Named, ListLXC
    <2> QED BY <1>1, <1>2, <1>4, <2>1, <2>2 DEF Find, Rejected, Waits
  <1>5. ASSUME NEW c \in Clients, NextID(c)
        PROVE  OwnTarget' /\ OwnTask'
    BY <1>1, <1>2, <1>5 DEF NextID, Rejected, Waits
  <1>6. ASSUME NEW c \in Clients, Create(c) \/ Start(c) \/ Stop(c) \/ Destroy(c)
        PROVE  OwnTarget' /\ OwnTask'
    <2>1. vmid[c] \in VMIDs /\ pc[c] \notin Waits
      BY <1>6 DEF Create, Start, Stop, Destroy, Typed, Control, Waits
    <2>2. ASSUME NEW kind \in TaskKinds, kind \in {"stop", "destroy"} => pc[c] \in {"stop", "destroy"},
                 Submit(c, c, kind, vmid[c], Hostname[pod[c]]), Goto(c, WaitFor(kind), vmid[c])
          PROVE  OwnTarget' /\ OwnTask'
      BY <2>1, <2>2, OwnRequest
    <2>3. CASE \E kind \in TaskKinds :
                 /\ kind \in {"stop", "destroy"} => pc[c] \in {"stop", "destroy"}
                 /\ Submit(c, c, kind, vmid[c], Hostname[pod[c]]) /\ Goto(c, WaitFor(kind), vmid[c])
      BY <2>2, <2>3
    <2>4. CASE (\E r : Return(c, r)) /\ UNCHANGED pve
      BY <1>1, <2>1, <2>4
    <2> QED
      BY <1>6, <2>3, <2>4
      DEF Create, Start, Stop, Destroy, Request, Rejected, Patient, WaitFor, TaskKinds
  <1>7. ASSUME NEW c \in Clients, WaitForTask(c)
        PROVE  OwnTarget' /\ OwnTask'
    <2>1. CASE pc[c] # "waitDestroy" /\ outcome[c] = "OK" /\ Goto(c, AfterWait(pc[c]), vmid[c]) /\ UNCHANGED pve
      <3>1. AfterWait(pc[c]) \in {"status", "stop", "waitStop", "destroy"} => pc[c] = "waitStop"
        BY <1>7, <2>1 DEF WaitForTask, Waits, AfterWait
      <3> QED BY <1>2, <2>1, <3>1 DEF OwnTarget
    <2> QED BY <1>1, <1>7, <2>1 DEF WaitForTask, TakenForTask, Patient
  <1>8. ASSUME NEW c \in Clients, Refresh(c) \/ Status(c)
        PROVE  OwnTarget' /\ OwnTask'
    <2>1. pc[c] = "status" => Exists(vmid[c]) /\ name[vmid[c]] = pod[c]
      BY DEF OwnTarget
    <2> QED BY <1>1, <1>2, <1>8, <2>1 DEF Refresh, Status, Rejected, Waits
  <1>9. CASE Node
    <2>1. ASSUME NEW v \in VMIDs, Halt(v), UNCHANGED local
          PROVE  OwnTarget' /\ OwnTask'
      <3>1. \A w \in VMIDs : Exists(w) => state'[w] # "absent"
        BY <2>1 DEF Halt, Exists, Typed, TypeOK, VETypeOK
      <3>2. \A c \in Clients : pc[c] \in {"status", "stop", "waitStop", "destroy"} => vmid[c] \in VMIDs
        BY DEF Typed, Control
      <3> QED BY <2>1, <3>1, <3>2 DEF Halt, local, OwnTarget, OwnTask, Exists
    <2> QED BY <1>9, <2>1, OwnEndTask DEF Node, TaskDone, TaskFailed
  <1>10. CASE UNCHANGED vars
    BY <1>10 DEF vars, OwnTarget, OwnTask, Exists
  <1> QED
    BY <1>3, <1>4, <1>5, <1>6, <1>7, <1>8, <1>9, <1>10 DEF Next, Step, Crash, Patient

(* When no two clients delete one pod at the same time, and all wait for   *)
(* their tasks, Delete stops and destroys only the container of its pod,   *)
(* although it resolves the name once, VMIDs are reused at once, and any   *)
(* number of other clients create and delete containers meanwhile.         *)
THEOREM DeleteHitsOnlyOwn ==
  ASSUME Patient, OwnNames, NoPinned
  PROVE  Spec /\ []Alone("delete", "delete") => DeleteHitsOwn
<1>1. Init => Awaited /\ OwnTarget /\ OwnTask
  BY DEF Init, VEInit, Awaited, OwnTarget, OwnTask, Locked, NoJob
<1>2. Typed /\ Typed' /\ Alone("delete", "delete") /\ Awaited /\ OwnTarget /\ OwnTask /\ [Next]_vars
        => Awaited' /\ OwnTarget' /\ OwnTask'
  BY AwaitedStep, OwnStep DEF Own
<1>3. Typed /\ OwnTarget /\ [Next]_vars =>
        [\A c \in Clients :
           pc[c] \in {"stop", "destroy"} /\ pc'[c] # pc[c] /\ job'[vmid[c]] # job[vmid[c]]
             => name[vmid[c]] = Hostname[pod[c]]]_vars
  <2>1. ASSUME Typed, OwnTarget, NEW c \in Clients, pc[c] \in {"stop", "destroy"}
        PROVE  name[vmid[c]] = Hostname[pod[c]]
    BY <2>1, HostnameTyped DEF OwnTarget, OwnNames
  <2> QED BY <2>1
<1> QED BY <1>1, <1>2, <1>3, TypedAlways, PTL DEF Spec, DeleteHitsOwn

-----------------------------------------------------------------------------
(***************************************************************************)
(* What the controller reports, proved for any number of clients, pods and *)
(* containers: PodController implements the registry of pods.              *)
(***************************************************************************)

(* A call in progress has no result yet, and a Delete reports no phase.    *)
Fresh ==
  \A c \in Clients :
    /\ pc[c] = "idle" => op[c] = "none"
    /\ pc[c] # "idle" => result[c] = "none"
    /\ pc[c] = "refresh" => op[c] # "delete"

(* From the end of its creation, or from finding it, to the end of the     *)
(* call, the VMID that an Apply or a Get holds is that of the pod's        *)
(* container.                                                              *)
Holds(c) ==
  \/ pc[c] \in {"start", "waitStart", "refresh"}
  \/ pc[c] = "waitCreate" /\ outcome[c] = "OK"

Held(o) ==
  \A c \in Clients :
    op[c] = o /\ Holds(c) => Exists(vmid[c]) /\ name[vmid[c]] = pod[c]

(* Once its task has ended well, the container of a Delete is gone, and    *)
(* nobody has created another one for the pod.                             *)
Gone ==
  \A c \in Clients :
    pc[c] = "waitDestroy" /\ outcome[c] = "OK" => \A v \in VMIDs : name[v] # pod[c]

(* A container that a task works on is in the state the task found it in,  *)
(* but for one that stopped by itself.                                     *)
Stage ==
  \A v \in VMIDs :
    /\ job[v].kind = "create" => state[v] = "absent"
    /\ job[v].kind \in {"start", "destroy"} => state[v] = "stopped"
    /\ job[v].kind = "stop" => state[v] \in {"running", "stopped"}

Kept == Unique /\ Own

-----------------------------------------------------------------------------
(* A call gets its result when it ends, and not before.                    *)
LEMMA FreshStep ==
  ASSUME Typed, Fresh, [Next]_vars
  PROVE  Fresh'
  <1> USE DEF Typed, TypeOK
  <1>1. ASSUME NEW c \in Clients, NEW r, Return(c, r)
        PROVE  Fresh'
    BY <1>1 DEF Return, Fresh
  <1>2. ASSUME NEW c \in Clients, NEW l \in Labels \ {"idle"}, NEW i, Goto(c, l, i), pc[c] # "idle",
               l = "refresh" => op[c] # "delete"
        PROVE  Fresh'
    BY <1>2 DEF Goto, Fresh
  <1>3. ASSUME NEW c \in Clients, NEW o \in Ops, NEW p \in Pods, Begin(c, o, p)
        PROVE  Fresh'
    BY <1>3 DEF Begin, Resolved, Fresh
  <1>4. \A c \in Clients : /\ Resolved(op[c]) \in Labels \ {"idle"}
                           /\ Resolved(op[c]) = "refresh" => op[c] # "delete"
    BY DEF Resolved, Labels
  <1>5. \A c \in Clients : pc[c] \in Waits \ {"waitDestroy"} =>
          AfterWait(pc[c]) \in Labels \ {"idle"} /\ (AfterWait(pc[c]) = "refresh" => op[c] # "delete")
    BY DEF AfterWait, Waits, Labels, Control
  <1>6. ASSUME NEW c \in Clients, Step(c)
        PROVE  Fresh'
    <2>1. CASE Find(c) \/ NextID(c) \/ Refresh(c) \/ Status(c)
      BY <1>1, <1>2, <1>4, <2>1 DEF Find, NextID, Refresh, Status, Rejected, Labels
    <2>2. CASE Create(c) \/ Start(c) \/ Stop(c) \/ Destroy(c)
      BY <1>1, <1>2, <2>2 DEF Create, Start, Stop, Destroy, Request, Rejected, Labels, Waits
    <2>3. CASE WaitForTask(c)
      <3>1. pc[c] # "idle"
        BY <2>3 DEF WaitForTask, Waits
      <3> QED BY <1>1, <1>2, <1>5, <2>3, <3>1 DEF WaitForTask
    <2> QED BY <1>6, <2>1, <2>2, <2>3 DEF Step
  <1>7. CASE Node \/ UNCHANGED vars
    BY <1>7 DEF Node, vars, local, Fresh
  <1> QED BY <1>1, <1>3, <1>6, <1>7 DEF Next, Crash

(* A container changes state under a task only by the end of the task, or  *)
(* by stopping.                                                            *)
LEMMA StageStep ==
  ASSUME Typed, Stage, [Next]_vars
  PROVE  Stage'
  <1> USE DEF Typed, TypeOK, VETypeOK
  <1>1. ASSUME NEW c \in Clients, NEW by, NEW kind \in TaskKinds, NEW v, NEW h, Submit(c, by, kind, v, h)
        PROVE  Stage'
    BY <1>1 DEF Submit, Accepts, Needs, TaskKinds, Stage
  <1>2. ASSUME NEW c \in Clients, NEW kind \in TaskKinds, NEW wait, Request(c, kind, wait)
        PROVE  Stage'
    <2>1. CASE UNCHANGED pve
      BY <2>1 DEF pve, Stage
    <2> QED BY <1>1, <1>2, <2>1 DEF Request, Rejected
  <1>3. ASSUME NEW c \in Clients, Orphan(c)
        PROVE  Stage'
    BY <1>3 DEF Orphan, Stage
  <1>4. ASSUME NEW v \in VMIDs, NEW exit, EndTask(v, exit)
        PROVE  Stage'
    <2>1. \A w \in VMIDs \ {v} : job'[w] = job[w] /\ state'[w] = state[w]
      BY <1>4 DEF EndTask
    <2>2. job'[v].kind = "none"
      BY <1>4 DEF EndTask, NoJob
    <2> QED BY <2>1, <2>2 DEF Stage
  <1>5. ASSUME NEW v \in VMIDs, Halt(v)
        PROVE  Stage'
    BY <1>5 DEF Halt, Stage
  <1>6. CASE UNCHANGED pve
    BY <1>6 DEF pve, Stage
  <1>7. ASSUME NEW c \in Clients, Step(c)
        PROVE  Stage'
    <2>1. CASE Create(c) \/ Start(c) \/ Stop(c) \/ Destroy(c)
      BY <1>2, <2>1 DEF Create, Start, Stop, Destroy, TaskKinds
    <2>2. CASE UNCHANGED pve \/ Orphan(c)
      BY <1>3, <1>6, <2>2
    <2> QED
      BY <1>7, <2>1, <2>2 DEF Step, Find, NextID, Refresh, Status, Rejected, WaitForTask
  <1> QED
    BY <1>3, <1>4, <1>5, <1>6, <1>7
    DEF Next, Begin, Crash, Node, TaskDone, TaskFailed, vars, pve

-----------------------------------------------------------------------------
(* Whose containers clients hold, and which are gone.                      *)

(* Steps of c that leave the node alone.                                   *)
LEMMA OutcomeLocal ==
  ASSUME NEW o, Held(o), Gone, NEW c \in Clients, UNCHANGED pve,
         \A d \in Clients \ {c} : pc'[d] = pc[d] /\ op'[d] = op[d] /\ pod'[d] = pod[d] /\ vmid'[d] = vmid[d],
         pc'[c] \notin Waits,
         op'[c] = o /\ pc'[c] \in {"start", "refresh"} => Exists(vmid'[c]) /\ name[vmid'[c]] = pod'[c]
  PROVE  Held(o)' /\ Gone'
  <1>1. ASSUME NEW d \in Clients, op'[d] = o, Holds(d)'
        PROVE  Exists(vmid'[d]) /\ name[vmid'[d]] = pod'[d]
    BY <1>1 DEF Held, Holds, Waits, pve
  <1>2. Held(o)'
    BY <1>1 DEF Held, Exists, pve
  <1>3. Gone'
    BY DEF Gone, Waits, pve
  <1> QED BY <1>2, <1>3

(* A mutating request of c.                                                *)
LEMMA OutcomeRequest ==
  ASSUME Kept, NEW o, Held(o), Gone, Alone("apply", "delete"), OwnNames,
         NEW c \in Clients, NEW kind \in TaskKinds,
         vmid[c] \in VMIDs, pc[c] = kind,
         Submit(c, c, kind, vmid[c], Hostname[pod[c]]), Goto(c, WaitFor(kind), vmid[c])
  PROVE  Held(o)' /\ Gone'
  <1> USE DEF Kept, Unique, Typed
  <1>1. /\ state' = state /\ op' = op /\ pod' = pod /\ vmid' = [vmid EXCEPT ![c] = vmid[c]]
        /\ pc' = [pc EXCEPT ![c] = WaitFor(kind)] /\ outcome' = [outcome EXCEPT ![c] = "none"]
    BY DEF Submit, Goto
  <1>2. \A v \in VMIDs : Exists(v) => name'[v] = name[v]
    BY DEF Submit, Accepts, Needs, Exists, TypeOK, VETypeOK, TaskKinds
  <1>3. ASSUME NEW d \in Clients, op[d] = o, Holds(d)'
        PROVE  Exists(vmid[d])' /\ name'[vmid[d]] = pod[d]
    <2>1. Holds(d)
      BY <1>1, <1>3 DEF Holds, WaitFor, TaskKinds, TypeOK, VETypeOK
    <2>2. vmid[d] \in VMIDs
      BY <2>1 DEF Holds, Control
    <2> QED BY <1>1, <1>2, <1>3, <2>1, <2>2 DEF Held, Exists
  <1>4. Held(o)'
    <2>1. vmid' = vmid
      BY <1>1 DEF TypeOK
    <2> QED BY <1>1, <1>3, <2>1 DEF Held, Exists
  <1>5. ASSUME NEW d \in Clients, pc'[d] = "waitDestroy", outcome'[d] = "OK", NEW v \in VMIDs
        PROVE  name'[v] # pod[d]
    <2>1. d # c /\ pc[d] = "waitDestroy" /\ outcome[d] = "OK"
      BY <1>1, <1>5 DEF TypeOK, VETypeOK
    <2>2. name[v] # pod[d]
      BY <2>1 DEF Gone
    <2>3. CASE name'[v] = name[v]
      BY <2>2, <2>3
    <2>4. CASE name'[v] # name[v]
      <3>1. kind = "create" /\ name'[v] = Hostname[pod[c]]
        BY <2>4 DEF Submit, TypeOK, VETypeOK
      <3>2. name'[v] = pod[c]
        BY <3>1, HostnameTyped DEF OwnNames
      <3>3. pc[c] # "idle" /\ op[c] = "apply" /\ pc[d] # "idle" /\ op[d] = "delete"
        BY <2>1, <3>1 DEF Control
      <3> QED BY <2>1, <2>2, <3>1, <3>2, <3>3 DEF Alone
    <2> QED BY <2>3, <2>4
  <1> QED BY <1>1, <1>4, <1>5 DEF Gone

(* The end of a task: the container of a pod disappears under its deleter  *)
(* only, and leaves none behind.                                           *)
LEMMA OutcomeEndTask ==
  ASSUME Kept, NEW o \in {"apply", "get"}, Held(o), Gone, Alone(o, "delete"),
         NEW v \in VMIDs, NEW exit \in {"OK", "failed"}, EndTask(v, exit), UNCHANGED local
  PROVE  Held(o)' /\ Gone'
  <1> USE DEF Kept, Unique, Typed
  <1>1. Locked(v) /\ job[v].kind \in TaskKinds
    BY DEF EndTask, Locked, TypeOK, VETypeOK
  <1>2. PICK left : /\ left = IF exit = "OK" THEN Leaves(job[v].kind) ELSE state[v]
                    /\ state' = [state EXCEPT ![v] = left]
                    /\ name' = IF left = "absent" THEN [name EXCEPT ![v] = None] ELSE name
                    /\ outcome' = [c \in Clients |-> IF c = job[v].by THEN exit ELSE outcome[c]]
    BY DEF EndTask
  <1>3. ASSUME NEW c \in Clients, op[c] = o, Holds(c)'
        PROVE  state'[vmid[c]] # "absent" /\ name'[vmid[c]] = pod[c]
    <2>1. pc' = pc /\ vmid[c] \in VMIDs /\ pc[c] # "idle"
      BY <1>3 DEF Holds, local, Control
    <2>2. CASE Holds(c)
      <3>1. Exists(vmid[c]) /\ name[vmid[c]] = pod[c]
        BY <1>3, <2>2 DEF Held
      <3>2. CASE vmid[c] # v
        BY <1>2, <2>1, <3>1, <3>2 DEF Exists, TypeOK, VETypeOK
      <3>3. CASE vmid[c] = v
        <4>1. job[v].kind # "destroy"
          <5>1. SUFFICES ASSUME job[v].kind = "destroy" PROVE FALSE
            OBVIOUS
          <5>2. /\ job[v].by \in Clients /\ pc[job[v].by] = "waitDestroy" /\ pod[job[v].by] = pod[c]
            BY <1>1, <3>1, <3>3, <5>1 DEF Awaited, WaitFor, Own, OwnTask
          <5>3. op[job[v].by] = "delete"
            BY <5>2 DEF Control
          <5> QED BY <1>3, <2>1, <5>2, <5>3 DEF Alone
        <4>2. left # "absent"
          BY <1>1, <1>2, <3>1, <3>3, <4>1 DEF Leaves, TaskKinds, Exists
        <4> QED BY <1>2, <3>1, <3>3, <4>2 DEF Exists, TypeOK, VETypeOK
      <3> QED BY <3>2, <3>3
    <2>3. CASE ~Holds(c)
      <3>1. pc[c] = "waitCreate" /\ outcome[c] # "OK" /\ outcome'[c] = "OK"
        BY <1>3, <2>1, <2>3 DEF Holds
      <3>2. c = job[v].by /\ exit = "OK"
        BY <1>2, <3>1
      <3>3. job[v].kind = "create" /\ vmid[c] = v
        BY <1>1, <3>1, <3>2 DEF Awaited, WaitFor, TaskKinds
      <3>4. name[v] = pod[c]
        BY <3>2, <3>3 DEF NameMeans
      <3>5. left = "stopped"
        BY <1>2, <3>2, <3>3 DEF Leaves
      <3> QED BY <1>2, <3>3, <3>4, <3>5 DEF TypeOK, VETypeOK
    <2> QED BY <2>2, <2>3
  <1>4. Held(o)'
    BY <1>3 DEF Held, Exists, local
  <1>5. ASSUME NEW c \in Clients, pc[c] = "waitDestroy", outcome'[c] = "OK", NEW w \in VMIDs
        PROVE  name'[w] # pod[c]
    <2>1. pod[c] # None
      BY <1>5, HostnameTyped, PodAssumption, VEAssumption
    <2>2. CASE outcome[c] = "OK"
      <3>1. name[w] # pod[c]
        BY <1>5, <2>2 DEF Gone
      <3> QED BY <1>2, <2>1, <3>1 DEF TypeOK, VETypeOK
    <2>3. CASE outcome[c] # "OK"
      <3>1. c = job[v].by /\ exit = "OK"
        BY <1>2, <1>5, <2>3
      <3>2. job[v].kind = "destroy"
        BY <1>1, <1>5, <3>1 DEF Awaited, WaitFor, TaskKinds
      <3>3. name[v] = pod[c]
        BY <3>1, <3>2 DEF Own, OwnTask
      <3>4. name' = [name EXCEPT ![v] = None]
        BY <1>2, <3>1, <3>2 DEF Leaves
      <3>5. w # v => name[w] # pod[c]
        BY <2>1, <3>3 DEF UniqueFromStart
      <3> QED BY <2>1, <3>4, <3>5 DEF TypeOK, VETypeOK
    <2> QED BY <2>2, <2>3
  <1> QED BY <1>4, <1>5 DEF Gone, local

(* Every step preserves what clients hold and know to be gone.             *)
LEMMA OutcomeStep ==
  ASSUME Kept, Patient, OwnNames, NoPinned, Alone("apply", "delete"),
         NEW o \in {"apply", "get"}, Alone(o, "delete"), Held(o), Gone, [Next]_vars
  PROVE  Held(o)' /\ Gone'
  <1> USE DEF Kept, Unique, Typed
  <1>1. ASSUME NEW c \in Clients, NEW r, Return(c, r), UNCHANGED pve
        PROVE  Held(o)' /\ Gone'
    <2>1. \A d \in Clients \ {c} : pc'[d] = pc[d] /\ op'[d] = op[d] /\ pod'[d] = pod[d] /\ vmid'[d] = vmid[d]
      BY <1>1 DEF Return, TypeOK
    <2>2. pc'[c] = "idle"
      BY <1>1 DEF Return, TypeOK
    <2> QED BY <1>1, <2>1, <2>2, OutcomeLocal DEF Waits
  <1>2. ASSUME NEW c \in Clients, NEW l \in Labels \ Waits, NEW i, Goto(c, l, i), UNCHANGED pve,
               op[c] = o /\ l \in {"start", "refresh"} => Exists(i) /\ name[i] = pod[c]
        PROVE  Held(o)' /\ Gone'
    <2>1. \A d \in Clients \ {c} : pc'[d] = pc[d] /\ op'[d] = op[d] /\ pod'[d] = pod[d] /\ vmid'[d] = vmid[d]
      BY <1>2 DEF Goto, TypeOK
    <2>2. pc'[c] = l /\ op'[c] = op[c] /\ pod'[c] = pod[c] /\ vmid'[c] = i
      BY <1>2 DEF Goto, TypeOK
    <2> QED BY <1>2, <2>1, <2>2, OutcomeLocal
  <1>3. ASSUME NEW c \in Clients, NEW q \in Ops, NEW p \in Pods, Begin(c, q, p)
        PROVE  Held(o)' /\ Gone'
    <2>1. \A d \in Clients \ {c} : pc'[d] = pc[d] /\ op'[d] = op[d] /\ pod'[d] = pod[d] /\ vmid'[d] = vmid[d]
      BY <1>3 DEF Begin, TypeOK
    <2>2. pc'[c] = "find" /\ UNCHANGED pve
      BY <1>3 DEF Begin, NoPinned, TypeOK
    <2> QED BY <2>1, <2>2, OutcomeLocal DEF Waits
  <1>4. ASSUME NEW c \in Clients, Find(c)
        PROVE  Held(o)' /\ Gone'
    <2>1. UNCHANGED pve
      BY <1>4 DEF Find
    <2>2. \A v \in Named(pod[c]) : Exists(v) /\ name[v] = pod[c]
      BY DEF Named, ListLXC
    <2>3. Resolved(op[c]) \in Labels \ Waits
      BY DEF Resolved, Labels, Waits
    <2>4. ASSUME NEW v \in Named(pod[c]), Goto(c, Resolved(op[c]), v)
          PROVE  Held(o)' /\ Gone'
      BY <1>2, <2>1, <2>2, <2>3, <2>4
    <2>5. CASE Goto(c, "nextid", 0)
      BY <1>2, <2>1, <2>5 DEF Labels, Waits
    <2> QED BY <1>1, <1>4, <2>1, <2>4, <2>5 DEF Find, Rejected
  <1>5. ASSUME NEW c \in Clients, NextID(c)
        PROVE  Held(o)' /\ Gone'
    BY <1>1, <1>2, <1>5 DEF NextID, Rejected, Labels, Waits
  <1>6. ASSUME NEW c \in Clients, Create(c) \/ Start(c) \/ Stop(c) \/ Destroy(c)
        PROVE  Held(o)' /\ Gone'
    <2>1. vmid[c] \in VMIDs
      BY <1>6 DEF Create, Start, Stop, Destroy, Control
    <2>2. ASSUME NEW kind \in TaskKinds, pc[c] = kind,
                 Submit(c, c, kind, vmid[c], Hostname[pod[c]]), Goto(c, WaitFor(kind), vmid[c])
          PROVE  Held(o)' /\ Gone'
      BY <2>1, <2>2, OutcomeRequest
    <2>3. CASE \E kind \in TaskKinds :
                 /\ pc[c] = kind
                 /\ Submit(c, c, kind, vmid[c], Hostname[pod[c]]) /\ Goto(c, WaitFor(kind), vmid[c])
      BY <2>2, <2>3
    <2>4. CASE (\E r : Return(c, r)) /\ UNCHANGED pve
      BY <1>1, <2>4
    <2> QED
      BY <1>6, <2>3, <2>4
      DEF Create, Start, Stop, Destroy, Request, Rejected, Patient, WaitFor, TaskKinds
  <1>7. ASSUME NEW c \in Clients, WaitForTask(c)
        PROVE  Held(o)' /\ Gone'
    <2>1. CASE pc[c] # "waitDestroy" /\ outcome[c] = "OK" /\ Goto(c, AfterWait(pc[c]), vmid[c]) /\ UNCHANGED pve
      <3>1. AfterWait(pc[c]) \in Labels \ Waits
        BY <1>7, <2>1 DEF WaitForTask, AfterWait, Labels, Waits
      <3>2. AfterWait(pc[c]) \in {"start", "refresh"} => pc[c] \in {"waitCreate", "waitStart"}
        BY <1>7, <2>1 DEF WaitForTask, AfterWait, Waits
      <3>3. op[c] = o /\ pc[c] \in {"waitCreate", "waitStart"} => Exists(vmid[c]) /\ name[vmid[c]] = pod[c]
        BY <2>1 DEF Held, Holds
      <3> QED BY <1>2, <2>1, <3>1, <3>2, <3>3
    <2> QED BY <1>1, <1>7, <2>1 DEF WaitForTask, TakenForTask, Patient
  <1>8. ASSUME NEW c \in Clients, Refresh(c) \/ Status(c)
        PROVE  Held(o)' /\ Gone'
    BY <1>1, <1>2, <1>8 DEF Refresh, Status, Rejected, Labels, Waits
  <1>9. CASE Node
    <2>1. ASSUME NEW v \in VMIDs, Halt(v), UNCHANGED local
          PROVE  Held(o)' /\ Gone'
      <3>1. \A w \in VMIDs : Exists(w) => state'[w] # "absent"
        BY <2>1 DEF Halt, Exists, TypeOK, VETypeOK
      <3>2. \A c \in Clients : Holds(c) => vmid[c] \in VMIDs
        BY DEF Holds, Control
      <3> QED BY <2>1, <3>1, <3>2 DEF Halt, local, Held, Holds, Gone, Exists
    <2> QED BY <1>9, <2>1, OutcomeEndTask DEF Node, TaskDone, TaskFailed
  <1>10. CASE UNCHANGED vars
    BY <1>10 DEF vars, Held, Holds, Gone, Exists
  <1> QED
    BY <1>3, <1>4, <1>5, <1>6, <1>7, <1>8, <1>9, <1>10 DEF Next, Step, Crash, Patient

(* Together they are inductive.                                            *)
LEMMA KeptInit ==
  ASSUME Init, NEW o
  PROVE  Kept /\ Fresh /\ Stage /\ Held(o) /\ Gone
  <1>1. Typed
    BY DEF Init, VEInit, Typed, TypeOK, VETypeOK, Control, NoJob, Labels, Results
  <1>2. Awaited /\ NameMeans /\ UniqueFromStart /\ NoneYet /\ OwnTarget /\ OwnTask
    BY DEF Init, VEInit, Awaited, NameMeans, UniqueFromStart, NoneYet, OwnTarget, OwnTask, Locked, Exists, NoJob
  <1>3. Fresh /\ Stage /\ Held(o) /\ Gone
    BY DEF Init, VEInit, Fresh, Stage, Held, Holds, Gone, NoJob
  <1> QED BY <1>1, <1>2, <1>3 DEF Kept, Unique, Own

(* Every step of a client or a node keeps the facts of Kept, and with      *)
(* them what each outcome rests on.                                        *)
LEMMA KeptStep ==
  ASSUME Patient, OwnNames, NoPinned,
         Alone("apply", "apply"), Alone("delete", "delete"), Alone("apply", "delete"),
         NEW o \in {"apply", "get"}, Alone(o, "delete"),
         Kept, Fresh, Stage, Held(o), Gone, Typed', [Next]_vars
  PROVE  Kept' /\ Fresh' /\ Stage' /\ Held(o)' /\ Gone'
  <1>1. Awaited' /\ NameMeans' /\ UniqueFromStart' /\ NoneYet' /\ OwnTarget' /\ OwnTask'
    BY AwaitedStep, UniqueStep, OwnStep DEF Kept, Unique, Own
  <1>2. Fresh' /\ Stage'
    BY FreshStep, StageStep DEF Kept, Unique
  <1>3. Held(o)' /\ Gone'
    BY OutcomeStep
  <1> QED BY <1>1, <1>2, <1>3 DEF Kept, Unique, Own

(* They hold along every behaviour.                                        *)
LEMMA KeptAlways ==
  ASSUME Patient, OwnNames, NoPinned
  PROVE  Spec /\ []Apart => [](Kept /\ Fresh /\ Stage /\ Held("apply") /\ Gone)
<1>1. Init => Kept /\ Fresh /\ Stage /\ Held("apply") /\ Gone
  BY KeptInit
<1>2. Apart /\ Kept /\ Fresh /\ Stage /\ Held("apply") /\ Gone /\ Typed' /\ [Next]_vars
        => Kept' /\ Fresh' /\ Stage' /\ Held("apply")' /\ Gone'
  BY KeptStep DEF Apart
<1> QED BY <1>1, <1>2, TypedAlways, PTL DEF Spec

-----------------------------------------------------------------------------
(* What calls report.                                                      *)

(* A call that returns r as its result.                                    *)
LEMMA Returning ==
  ASSUME Typed, Fresh, [Next]_vars, NEW c \in Clients, op[c] # "none", result'[c] # "none"
  PROVE  /\ pc[c] # "idle"
         /\ \/ Find(c) /\ Named(pod[c]) = {} /\ op[c] # "apply" /\ Return(c, "notfound")
            \/ pc[c] = "waitDestroy" /\ outcome[c] = "OK" /\ Return(c, "deleted") /\ UNCHANGED pve
            \/ Refresh(c) /\ GetLXCStatus(vmid[c]) # "absent" /\ Return(c, GetLXCStatus(vmid[c]))
            \/ Return(c, "error")
  <1> USE DEF Typed, TypeOK
  <1>1. pc[c] # "idle" /\ result[c] = "none"
    BY DEF Fresh
  <1>2. ASSUME NEW d \in Clients, NEW r, Return(d, r)
        PROVE  d = c
    BY <1>1, <1>2 DEF Return
  <1>3. ASSUME NEW d \in Clients, NEW l, NEW i, Goto(d, l, i)
        PROVE  FALSE
    BY <1>1, <1>3 DEF Goto
  <1>4. ASSUME NEW d \in Clients, NEW o \in Ops, NEW p \in Pods, Begin(d, o, p)
        PROVE  FALSE
    BY <1>1, <1>4 DEF Begin
  <1>5. ~UNCHANGED result
    BY <1>1
  <1>6. ASSUME NEW d \in Clients, Step(d)
        PROVE  \/ d = c /\ Find(c) /\ Named(pod[c]) = {} /\ op[c] # "apply" /\ Return(c, "notfound")
               \/ d = c /\ pc[c] = "waitDestroy" /\ outcome[c] = "OK" /\ Return(c, "deleted") /\ UNCHANGED pve
               \/ d = c /\ Refresh(c) /\ GetLXCStatus(vmid[c]) # "absent" /\ Return(c, GetLXCStatus(vmid[c]))
               \/ Return(c, "error")
    <2>1. CASE Find(d)
      BY <1>2, <1>3, <2>1 DEF Find, Rejected
    <2>2. CASE Refresh(d)
      BY <1>2, <1>3, <2>2 DEF Refresh, Rejected
    <2>3. CASE WaitForTask(d)
      BY <1>2, <1>3, <2>3 DEF WaitForTask
    <2>4. CASE NextID(d) \/ Status(d)
      BY <1>2, <1>3, <2>4 DEF NextID, Status, Rejected
    <2>5. CASE Create(d) \/ Start(d) \/ Stop(d) \/ Destroy(d)
      BY <1>2, <1>3, <2>5 DEF Create, Start, Stop, Destroy, Request, Rejected
    <2> QED BY <1>6, <2>1, <2>2, <2>3, <2>4, <2>5 DEF Step
  <1>7. ASSUME NEW d \in Clients, Crash(d)
        PROVE  FALSE
    <2>1. d = c /\ Return(c, "none")
      BY <1>2, <1>7 DEF Crash
    <2> QED BY <2>1 DEF Return
  <1> QED BY <1>1, <1>4, <1>5, <1>6, <1>7 DEF Next, Node, local, vars

(* When the list shows no container of a pod to its deleter, none is being *)
(* created either.                                                         *)
LEMMA NoneListed ==
  ASSUME Kept, Alone("apply", "delete"), NEW c \in Clients, pc[c] = "find", op[c] = "delete",
         Named(pod[c]) = {}, NEW v \in VMIDs
  PROVE  name[v] # pod[c]
  <1> USE DEF Kept, Unique, Typed
  <1>1. SUFFICES ASSUME name[v] = pod[c] PROVE FALSE
    OBVIOUS
  <1>2. pod[c] \in Pods
    BY HostnameTyped
  <1>3. name[v] # None
    BY <1>1, <1>2, PodAssumption, VEAssumption
  <1>4. ~Exists(v)
    BY <1>1 DEF Named, ListLXC
  <1>5. job[v].kind = "create" /\ name[v] = pod[job[v].by]
    BY <1>3, <1>4 DEF NameMeans
  <1>6. job[v].by \in Clients /\ pc[job[v].by] = "waitCreate"
    BY <1>5 DEF Awaited, Locked, WaitFor
  <1>7. op[job[v].by] = "apply" /\ pod[job[v].by] = pod[c]
    BY <1>1, <1>5, <1>6 DEF Control
  <1> QED BY <1>6, <1>7 DEF Alone

(* A Delete that is about to report success or "not found" is right.       *)
LEMMA RightlyGone ==
  ASSUME Kept, Fresh, Gone, Alone("apply", "delete"), [Next]_vars,
         NEW c \in Clients, op[c] = "delete", result'[c] \in {"deleted", "notfound"}, NEW v \in VMIDs
  PROVE  name[v] # pod[c]
  <1> USE DEF Kept, Unique
  <1>1. \/ Find(c) /\ Named(pod[c]) = {} /\ op[c] # "apply" /\ Return(c, "notfound")
        \/ pc[c] = "waitDestroy" /\ outcome[c] = "OK" /\ Return(c, "deleted") /\ UNCHANGED pve
        \/ Refresh(c) /\ GetLXCStatus(vmid[c]) # "absent" /\ Return(c, GetLXCStatus(vmid[c]))
        \/ Return(c, "error")
    BY Returning
  <1>2. \A r : Return(c, r) => result'[c] = r
    BY DEF Return, Typed, TypeOK
  <1>3. ~Refresh(c) /\ ~Return(c, "error")
    BY <1>2 DEF Refresh, Fresh
  <1> QED BY <1>1, <1>3, NoneListed DEF Find, Gone

(* When clients keep apart and wait for their tasks, a Delete that reports *)
(* success or "not found" is right: the pod has no container and none is   *)
(* being created, whatever clients do to other pods meanwhile and whatever *)
(* requests and tasks have failed.                                         *)
THEOREM ReportedIsGone ==
  ASSUME Patient, OwnNames, NoPinned
  PROVE  Spec /\ []Apart => GoneWhenReported
<1>1. Apart /\ Kept /\ Fresh /\ Gone /\ [Next]_vars =>
        [\A c \in Clients :
           op[c] = "delete" /\ result'[c] \in {"deleted", "notfound"}
             => \A v \in VMIDs : name[v] # Hostname[pod[c]]]_vars
  <2> SUFFICES ASSUME Apart, Kept, Fresh, Gone, [Next]_vars, NEW c \in Clients, op[c] = "delete",
                      result'[c] \in {"deleted", "notfound"}, NEW v \in VMIDs
               PROVE  name[v] # Hostname[pod[c]]
    OBVIOUS
  <2>2. name[v] # pod[c]
    BY RightlyGone DEF Apart
  <2>3. Hostname[pod[c]] = pod[c]
    BY Returning, HostnameTyped DEF OwnNames, Kept, Unique
  <2> QED BY <2>2, <2>3
<1>2. Spec /\ []Apart => [](Kept /\ Fresh /\ Stage /\ Held("apply") /\ Gone)
  BY KeptAlways
<1> QED BY <1>1, <1>2, PTL DEF Spec, GoneWhenReported

(* Under the same conditions, the VMID and the phase that Apply reports    *)
(* are those of the container of its pod, although Apply resolved the VMID *)
(* requests ago and VMIDs are reused.                                      *)
THEOREM ApplyIsTruthful ==
  ASSUME Patient, OwnNames, NoPinned
  PROVE  Spec /\ []Apart => ApplyReportsOwn
<1>1. Kept /\ Fresh /\ Held("apply") /\ [Next]_vars =>
        [\A c \in Clients :
           op[c] = "apply" /\ result'[c] \in {"running", "stopped"}
             => name[vmid[c]] = Hostname[pod[c]]]_vars
  <2> SUFFICES ASSUME Kept, Fresh, Held("apply"), [Next]_vars, NEW c \in Clients, op[c] = "apply",
                      result'[c] \in {"running", "stopped"}
               PROVE  name[vmid[c]] = Hostname[pod[c]]
    OBVIOUS
  <2> USE DEF Kept, Unique
  <2>1. /\ pc[c] # "idle"
        /\ \/ Find(c) /\ Named(pod[c]) = {} /\ op[c] # "apply" /\ Return(c, "notfound")
           \/ pc[c] = "waitDestroy" /\ outcome[c] = "OK" /\ Return(c, "deleted") /\ UNCHANGED pve
           \/ Refresh(c) /\ GetLXCStatus(vmid[c]) # "absent" /\ Return(c, GetLXCStatus(vmid[c]))
           \/ Return(c, "error")
    BY Returning
  <2>2. \A r : Return(c, r) => result'[c] = r
    BY DEF Return, Typed, TypeOK
  <2>3. pc[c] = "refresh"
    BY <2>1, <2>2 DEF Refresh
  <2>4. name[vmid[c]] = pod[c]
    BY <2>3 DEF Held, Holds
  <2>5. Hostname[pod[c]] = pod[c]
    BY <2>1, HostnameTyped DEF OwnNames
  <2> QED BY <2>4, <2>5
<1>2. Spec /\ []Apart => [](Kept /\ Fresh /\ Stage /\ Held("apply") /\ Gone)
  BY KeptAlways
<1> QED BY <1>1, <1>2, PTL DEF Spec, ApplyReportsOwn

-----------------------------------------------------------------------------
(* The controller implements the registry of pods.                         *)

(* The phase of a pod is the state of its one container.                   *)
Phases ==
  \A p \in Pods :
    /\ \A v \in VMIDs : Exists(v) /\ name[v] = p => PhaseOf(p) = state[v]
    /\ (\A v \in VMIDs : Exists(v) => name[v] # p) => PhaseOf(p) = "absent"

(* With names that are unique, the container a pod names is the only one   *)
(* there is to name.                                                       *)
LEMMA PhasesRight ==
  ASSUME Kept, OwnNames
  PROVE  Phases
  <1> SUFFICES ASSUME NEW p \in Pods
      PROVE  /\ \A v \in VMIDs : Exists(v) /\ name[v] = p => PhaseOf(p) = state[v]
             /\ (\A v \in VMIDs : Exists(v) => name[v] # p) => PhaseOf(p) = "absent"
    BY DEF Phases
  <1> DEFINE own == {v \in ListLXC : name[v] = p}
  <1>1. Hostname[p] = p /\ p # None
    BY PodAssumption, VEAssumption DEF OwnNames
  <1>2. PhaseOf(p) = IF own = {} THEN "absent" ELSE state[CHOOSE v \in own : TRUE]
    BY <1>1 DEF PhaseOf
  <1>3. ASSUME NEW v \in VMIDs, Exists(v), name[v] = p
        PROVE  PhaseOf(p) = state[v]
    <2>1. own = {v}
      BY <1>1, <1>3 DEF Kept, Unique, UniqueFromStart, ListLXC
    <2> HIDE DEF own
    <2>2. (CHOOSE w \in own : TRUE) = v
      BY <2>1
    <2> QED BY <1>2, <2>1, <2>2
  <1>4. (\A v \in VMIDs : Exists(v) => name[v] # p) => own = {}
    BY DEF ListLXC
  <1> QED BY <1>2, <1>3, <1>4

(* A step that leaves names and existing containers alone changes no phase. *)
LEMMA SamePhase ==
  ASSUME Phases, Phases', NEW p \in Pods,
         \A v \in VMIDs : Exists(v) /\ name[v] = p => state'[v] = state[v] /\ name'[v] = p,
         \A v \in VMIDs : Exists(v)' /\ name'[v] = p => Exists(v) /\ name[v] = p
  PROVE  PhaseOf(p)' = PhaseOf(p)
  <1>1. CASE \E v \in VMIDs : Exists(v) /\ name[v] = p
    <2>1. PICK v \in VMIDs : Exists(v) /\ name[v] = p
      BY <1>1
    <2>2. Exists(v)' /\ name'[v] = p
      BY <2>1 DEF Exists
    <2>3. PhaseOf(p) = state[v] /\ PhaseOf(p)' = state'[v]
      BY <2>1, <2>2 DEF Phases
    <2> QED BY <2>1, <2>3
  <1>2. CASE ~\E v \in VMIDs : Exists(v) /\ name[v] = p
    <2>1. PhaseOf(p) = "absent" /\ PhaseOf(p)' = "absent"
      BY <1>2 DEF Phases
    <2> QED BY <2>1
  <1> QED BY <1>1, <1>2

(* The end of a call, with an answer that is true of the registry.         *)
LEMMA ReplyStep ==
  ASSUME Typed, NEW c \in Clients, pc[c] # "idle", NEW r \in Results \ {"none"}, Return(c, r),
         UNCHANGED pve, Registry!Truthful(op[c], pod[c], r)
  PROVE  Registry!Next
  <1>1. PICK o \in Registry!Ops, p \in Pods : o = op[c] /\ p = pod[c]
    BY HostnameTyped DEF Registry!Ops, Ops
  <1>2. [d \in Clients |-> IF pc[d] = "idle" THEN None ELSE <<op[d], pod[d]>>]'
          = [[d \in Clients |-> IF pc[d] = "idle" THEN None ELSE <<op[d], pod[d]>>] EXCEPT ![c] = None]
    BY DEF Return, Typed, TypeOK
  <1>3. result' = [result EXCEPT ![c] = r]
    BY DEF Return
  <1>4. [q \in Pods |-> PhaseOf(q)]' = [q \in Pods |-> PhaseOf(q)]
    BY DEF PhaseOf, ListLXC, Exists, pve
  <1>5. r \in {"running", "stopped", "deleted", "notfound", "error"}
    BY DEF Results
  <1>6. Registry!Reply(c, o, p)
    BY <1>1, <1>2, <1>3, <1>4, <1>5 DEF Registry!Reply
  <1> QED BY <1>6 DEF Registry!Next

(* A step of which the registry sees nothing.                              *)
LEMMA SilentStep ==
  ASSUME \A p \in Pods : PhaseOf(p)' = PhaseOf(p),
         \A c \in Clients : (pc'[c] = "idle" <=> pc[c] = "idle"),
         op' = op, pod' = pod, result' = result
  PROVE  UNCHANGED Registry!vars
  <1>1. [p \in Pods |-> PhaseOf(p)]' = [p \in Pods |-> PhaseOf(p)]
    OBVIOUS
  <1>2. [c \in Clients |-> IF pc[c] = "idle" THEN None ELSE <<op[c], pod[c]>>]'
          = [c \in Clients |-> IF pc[c] = "idle" THEN None ELSE <<op[c], pod[c]>>]
    OBVIOUS
  <1> QED BY <1>1, <1>2 DEF Registry!vars

(* The start of a call.                                                    *)
LEMMA BeginStep ==
  ASSUME Typed, NEW c \in Clients, NEW o \in Ops, NEW p \in Pods, Begin(c, o, p)
  PROVE  Registry!Next
  <1>1. [d \in Clients |-> IF pc[d] = "idle" THEN None ELSE <<op[d], pod[d]>>]'
          = [[d \in Clients |-> IF pc[d] = "idle" THEN None ELSE <<op[d], pod[d]>>] EXCEPT ![c] = <<o, p>>]
    <2>1. Resolved(o) # "idle"
      BY DEF Resolved
    <2> QED BY <2>1 DEF Begin, Typed, TypeOK
  <1>2. pc[c] = "idle" /\ result' = [result EXCEPT ![c] = "none"]
    BY DEF Begin
  <1>3. [q \in Pods |-> PhaseOf(q)]' = [q \in Pods |-> PhaseOf(q)]
    BY DEF Begin, PhaseOf, ListLXC, Exists, pve
  <1>4. Registry!Request(c, o, p)
    BY <1>1, <1>2, <1>3 DEF Registry!Request
  <1>5. o \in Registry!Ops
    BY DEF Registry!Ops, Ops
  <1> QED BY <1>4, <1>5 DEF Registry!Next

(* Something happens to the container of one pod.                          *)
LEMMA MoveStep ==
  ASSUME UNCHANGED local, NEW p \in Pods, \A q \in Pods \ {p} : PhaseOf(q)' = PhaseOf(q),
         \/ PhaseOf(p)' = PhaseOf(p)
         \/ /\ PhaseOf(p) = "absent" /\ PhaseOf(p)' = "stopped"
            /\ \E c \in Clients : pc[c] # "idle" /\ op[c] = "apply" /\ pod[c] = p
         \/ /\ PhaseOf(p) = "stopped" /\ PhaseOf(p)' = "running"
            /\ \E c \in Clients : pc[c] # "idle" /\ op[c] = "apply" /\ pod[c] = p
         \/ /\ PhaseOf(p) = "stopped" /\ PhaseOf(p)' = "absent"
            /\ \E c \in Clients : pc[c] # "idle" /\ op[c] = "delete" /\ pod[c] = p
         \/ PhaseOf(p) = "running" /\ PhaseOf(p)' = "stopped"
  PROVE  Registry!Next \/ UNCHANGED Registry!vars
  <1>1. CASE PhaseOf(p)' = PhaseOf(p)
    <2>1. \A q \in Pods : PhaseOf(q)' = PhaseOf(q)
      BY <1>1
    <2> QED BY <2>1, SilentStep DEF local
  <1>2. CASE PhaseOf(p)' # PhaseOf(p)
    <2>1. [q \in Pods |-> PhaseOf(q)]' = [[q \in Pods |-> PhaseOf(q)] EXCEPT ![p] = PhaseOf(p)']
      OBVIOUS
    <2>2. [c \in Clients |-> IF pc[c] = "idle" THEN None ELSE <<op[c], pod[c]>>]'
            = [c \in Clients |-> IF pc[c] = "idle" THEN None ELSE <<op[c], pod[c]>>]
      BY DEF local
    <2>3. \A o : (\E c \in Clients : pc[c] # "idle" /\ op[c] = o /\ pod[c] = p) => Registry!Doing(o, p)
      BY DEF Registry!Doing
    <2>4. Registry!Move(p)
      BY <1>2, <2>1, <2>2, <2>3 DEF Registry!Move, local
    <2> QED BY <2>4 DEF Registry!Next
  <1> QED BY <1>1, <1>2

(* The end of a task moves the pod of the client that waits for it.        *)
LEMMA EndTaskMoves ==
  ASSUME Kept, Stage, Held("apply"), Phases, Phases',
         NEW v \in VMIDs, NEW exit \in {"OK", "failed"}, EndTask(v, exit), UNCHANGED local
  PROVE  Registry!Next \/ UNCHANGED Registry!vars
  <1> USE DEF Kept, Unique, Typed, TypeOK, VETypeOK
  <1>1. Locked(v) /\ job[v].kind \in TaskKinds
    BY DEF EndTask, Locked
  <1>2. PICK left : /\ left = IF exit = "OK" THEN Leaves(job[v].kind) ELSE state[v]
                    /\ state' = [state EXCEPT ![v] = left]
                    /\ name' = IF left = "absent" THEN [name EXCEPT ![v] = None] ELSE name
    BY DEF EndTask
  <1>3. PICK c \in Clients : c = job[v].by
    BY <1>1 DEF Awaited
  <1>4. pc[c] = WaitFor(job[v].kind) /\ vmid[c] = v
    BY <1>1, <1>3 DEF Awaited
  <1>5. /\ pc[c] # "idle"
        /\ job[v].kind \in {"create", "start"} => op[c] = "apply"
        /\ job[v].kind \in {"stop", "destroy"} => op[c] = "delete"
    BY <1>1, <1>4 DEF WaitFor, TaskKinds, Control
  <1>6. PICK p \in Pods : p = pod[c]
    BY <1>5, HostnameTyped
  <1>7. name[v] = p
    <2>1. CASE job[v].kind = "create"
      BY <1>3, <1>6, <2>1 DEF NameMeans
    <2>2. CASE job[v].kind = "start"
      BY <1>4, <1>5, <1>6, <2>2 DEF WaitFor, Held, Holds
    <2>3. CASE job[v].kind = "stop"
      BY <1>4, <1>6, <2>3 DEF WaitFor, Own, OwnTarget
    <2>4. CASE job[v].kind = "destroy"
      BY <1>3, <1>6, <2>4 DEF Own, OwnTask
    <2> QED BY <1>1, <2>1, <2>2, <2>3, <2>4 DEF TaskKinds
  <1>8. \A w \in VMIDs \ {v} : name[w] # p
    BY <1>6, <1>7, PodAssumption, VEAssumption DEF UniqueFromStart
  <1>9. p # None /\ \A q \in Pods : q # None
    BY PodAssumption, VEAssumption
  <1>10. ASSUME NEW q \in Pods \ {p}
         PROVE  PhaseOf(q)' = PhaseOf(q)
    <2>1. \A w \in VMIDs : Exists(w) /\ name[w] = q => state'[w] = state[w] /\ name'[w] = q
      BY <1>2, <1>7
    <2>2. \A w \in VMIDs : Exists(w)' /\ name'[w] = q => Exists(w) /\ name[w] = q
      BY <1>2, <1>7, <1>9 DEF Exists
    <2> QED BY <2>1, <2>2, SamePhase
  <1>11. state[v] # "absent" => PhaseOf(p) = state[v]
    BY <1>7 DEF Phases, Exists
  <1>12. state[v] = "absent" => PhaseOf(p) = "absent"
    BY <1>7, <1>8 DEF Phases, Exists
  <1>13. left # "absent" => PhaseOf(p)' = left
    BY <1>2, <1>7 DEF Phases, Exists
  <1>14. left = "absent" => PhaseOf(p)' = "absent"
    <2>1. left = "absent" => \A w \in VMIDs : name'[w] # p
      BY <1>2, <1>8, <1>9
    <2> QED BY <2>1 DEF Phases
  <1>15. PhaseOf(p) = state[v] /\ PhaseOf(p)' = left
    BY <1>11, <1>12, <1>13, <1>14
  <1>16. \/ left = state[v]
         \/ state[v] = "absent" /\ left = "stopped" /\ job[v].kind = "create"
         \/ state[v] = "stopped" /\ left = "running" /\ job[v].kind = "start"
         \/ state[v] = "stopped" /\ left = "absent" /\ job[v].kind = "destroy"
         \/ state[v] = "running" /\ left = "stopped"
    BY <1>1, <1>2 DEF Stage, Leaves, TaskKinds
  <1> QED BY <1>5, <1>6, <1>10, <1>15, <1>16, MoveStep

(* A container that stops by itself moves its pod, if it is one's.         *)
LEMMA HaltMoves ==
  ASSUME Kept, Phases, Phases', NEW v \in VMIDs, Halt(v), UNCHANGED local
  PROVE  Registry!Next \/ UNCHANGED Registry!vars
  <1> USE DEF Kept, Unique, Typed, TypeOK, VETypeOK
  <1>1. state[v] = "running" /\ state' = [state EXCEPT ![v] = "stopped"] /\ name' = name
    BY DEF Halt
  <1>2. ASSUME NEW q \in Pods, q # name[v]
        PROVE  PhaseOf(q)' = PhaseOf(q)
    <2>1. \A w \in VMIDs : Exists(w) /\ name[w] = q => state'[w] = state[w] /\ name'[w] = q
      BY <1>1, <1>2
    <2>2. \A w \in VMIDs : Exists(w)' /\ name'[w] = q => Exists(w) /\ name[w] = q
      BY <1>1, <1>2 DEF Exists
    <2> QED BY <2>1, <2>2, SamePhase
  <1>3. CASE name[v] \in Pods
    <2>1. PICK p \in Pods : p = name[v]
      BY <1>3
    <2>2. PhaseOf(p) = "running" /\ PhaseOf(p)' = "stopped"
      BY <1>1, <2>1 DEF Phases, Exists
    <2> QED BY <1>2, <2>1, <2>2, MoveStep
  <1>4. CASE name[v] \notin Pods
    BY <1>2, <1>4, SilentStep DEF local
  <1> QED BY <1>3, <1>4

(* Every step is one of the registry, or none.                             *)
LEMMA RegistryStep ==
  ASSUME Patient, Kept, Fresh, Stage, Held("apply"), Held("get"), Gone, Phases, Phases', [Next]_vars
  PROVE  Registry!Next \/ UNCHANGED Registry!vars
  <1> USE DEF Kept, Unique, Typed
  <1>1. ASSUME NEW c \in Clients, pc[c] # "idle", Return(c, "error"), UNCHANGED pve
        PROVE  Registry!Next
    <2>1. Registry!Truthful(op[c], pod[c], "error")
      BY DEF Registry!Truthful
    <2> QED BY <1>1, <2>1, ReplyStep DEF Results
  <1>2. ASSUME NEW c \in Clients, pc[c] # "idle", NEW l \in Labels \ {"idle"}, NEW i, Goto(c, l, i),
               \A p \in Pods : PhaseOf(p)' = PhaseOf(p)
        PROVE  UNCHANGED Registry!vars
    <2>1. \A d \in Clients : (pc'[d] = "idle" <=> pc[d] = "idle")
      BY <1>2 DEF Goto, TypeOK
    <2> QED BY <1>2, <2>1, SilentStep DEF Goto
  <1>3. UNCHANGED pve => \A p \in Pods : PhaseOf(p)' = PhaseOf(p)
    BY DEF pve, PhaseOf, ListLXC, Exists
  <1>4. ASSUME NEW c \in Clients, Find(c)
        PROVE  Registry!Next \/ UNCHANGED Registry!vars
    <2>1. pc[c] # "idle" /\ UNCHANGED pve
      BY <1>4 DEF Find
    <2>2. Resolved(op[c]) \in Labels \ {"idle"} /\ "nextid" \in Labels \ {"idle"}
      BY DEF Resolved, Labels
    <2>3. CASE Named(pod[c]) = {} /\ op[c] # "apply" /\ Return(c, "notfound")
      <3>1. op[c] \in {"get", "delete"} /\ pod[c] \in Pods
        BY <2>1, <2>3, HostnameTyped DEF Ops
      <3>2. PhaseOf(pod[c]) = "absent"
        BY <2>3, <3>1 DEF Phases, Named, ListLXC
      <3>3. Registry!Truthful(op[c], pod[c], "notfound")
        BY <3>1, <3>2 DEF Registry!Truthful
      <3> QED BY <2>1, <2>3, <3>3, ReplyStep DEF Results
    <2> QED BY <1>1, <1>2, <1>3, <1>4, <2>1, <2>2, <2>3 DEF Find, Rejected
  <1>5. ASSUME NEW c \in Clients, NextID(c) \/ Status(c)
        PROVE  Registry!Next \/ UNCHANGED Registry!vars
    <2>1. pc[c] # "idle" /\ UNCHANGED pve
      BY <1>5 DEF NextID, Status
    <2>2. {"create", "stop", "destroy"} \subseteq Labels \ {"idle"}
      BY DEF Labels
    <2> QED BY <1>1, <1>2, <1>3, <1>5, <2>1, <2>2 DEF NextID, Status, Rejected
  <1>6. ASSUME NEW c \in Clients, Create(c) \/ Start(c) \/ Stop(c) \/ Destroy(c)
        PROVE  Registry!Next \/ UNCHANGED Registry!vars
    <2>1. pc[c] # "idle" /\ vmid[c] \in VMIDs
      BY <1>6 DEF Create, Start, Stop, Destroy, Control
    <2>2. ASSUME NEW kind \in TaskKinds, Submit(c, c, kind, vmid[c], Hostname[pod[c]]),
                 Goto(c, WaitFor(kind), vmid[c])
          PROVE  UNCHANGED Registry!vars
      <3>1. state' = state /\ \A v \in VMIDs : Exists(v) => name'[v] = name[v]
        BY <2>2 DEF Submit, Accepts, Needs, Exists, TypeOK, VETypeOK, TaskKinds
      <3>2. \A p \in Pods : PhaseOf(p)' = PhaseOf(p)
        BY <3>1, SamePhase DEF Exists
      <3>3. WaitFor(kind) \in Labels \ {"idle"}
        BY DEF WaitFor, TaskKinds, Labels, Waits
      <3> QED BY <1>2, <2>1, <2>2, <3>2, <3>3
    <2>3. CASE \E kind \in TaskKinds :
                 Submit(c, c, kind, vmid[c], Hostname[pod[c]]) /\ Goto(c, WaitFor(kind), vmid[c])
      BY <2>2, <2>3
    <2>4. CASE Return(c, "error") /\ UNCHANGED pve
      BY <1>1, <2>1, <2>4
    <2> QED
      BY <1>6, <2>3, <2>4
      DEF Create, Start, Stop, Destroy, Request, Rejected, Patient, WaitFor, TaskKinds
  <1>7. ASSUME NEW c \in Clients, WaitForTask(c)
        PROVE  Registry!Next \/ UNCHANGED Registry!vars
    <2>1. pc[c] # "idle" /\ UNCHANGED pve
      BY <1>7 DEF WaitForTask, Waits, Patient
    <2>2. pc[c] # "waitDestroy" => AfterWait(pc[c]) \in Labels \ {"idle"}
      BY <1>7 DEF WaitForTask, AfterWait, Waits, Labels
    <2>3. CASE outcome[c] = "OK" /\ pc[c] = "waitDestroy" /\ Return(c, "deleted")
      <3>1. op[c] = "delete" /\ pod[c] \in Pods
        BY <2>1, <2>3, HostnameTyped DEF Control
      <3>2. PhaseOf(pod[c]) = "absent"
        BY <2>3, <3>1 DEF Phases, Gone
      <3>3. Registry!Truthful(op[c], pod[c], "deleted")
        BY <3>1, <3>2 DEF Registry!Truthful
      <3> QED BY <2>1, <2>3, <3>3, ReplyStep DEF Results
    <2> QED BY <1>1, <1>2, <1>3, <1>7, <2>1, <2>2, <2>3 DEF WaitForTask, Patient
  <1>8. ASSUME NEW c \in Clients, Refresh(c)
        PROVE  Registry!Next \/ UNCHANGED Registry!vars
    <2>1. pc[c] = "refresh" /\ UNCHANGED pve /\ vmid[c] \in VMIDs
      BY <1>8 DEF Refresh, Control
    <2>2. CASE GetLXCStatus(vmid[c]) # "absent" /\ Return(c, GetLXCStatus(vmid[c]))
      <3>1. op[c] \in {"apply", "get"} /\ pod[c] \in Pods
        BY <2>1, HostnameTyped DEF Fresh, Ops
      <3>2. Exists(vmid[c]) /\ name[vmid[c]] = pod[c]
        BY <2>1, <3>1 DEF Held, Holds
      <3>3. PICK r \in Results \ {"none"} : r = GetLXCStatus(vmid[c]) /\ r = state[vmid[c]]
        BY <2>1, <3>2 DEF GetLXCStatus, Stage, Exists, TypeOK, VETypeOK, Results
      <3>4. PhaseOf(pod[c]) = r /\ r # "absent"
        BY <2>1, <3>1, <3>2, <3>3 DEF Phases, Exists
      <3>5. Registry!Truthful(op[c], pod[c], r)
        BY <3>1, <3>4 DEF Registry!Truthful
      <3>6. Return(c, r)
        BY <2>2, <3>3 DEF Return
      <3> QED BY <2>1, <3>5, <3>6, ReplyStep
    <2> QED BY <1>1, <1>8, <2>1, <2>2 DEF Refresh, Rejected
  <1>9. CASE Node
    BY <1>9, EndTaskMoves, HaltMoves DEF Node, TaskDone, TaskFailed
  <1>10. CASE UNCHANGED vars
    BY <1>3, <1>10, SilentStep DEF vars, pve
  <1> QED
    BY <1>4, <1>5, <1>6, <1>7, <1>8, <1>9, <1>10, BeginStep DEF Next, Step, Crash, Patient

(* The controller implements the registry of pods: seen from outside, its  *)
(* calls behave as if each did its work on one table of pods, when clients *)
(* keep apart, also one that reads a pod from one that deletes it, and     *)
(* wait for their tasks.                                                   *)
THEOREM RegistryImplemented ==
  ASSUME Patient, OwnNames, NoPinned
  PROVE  Spec /\ []Apart /\ []Alone("get", "delete") => ImplementsRegistry
<1>1. Init => Kept /\ Fresh /\ Stage /\ Held("apply") /\ Held("get") /\ Gone
  BY KeptInit
<1>2. /\ Apart /\ Alone("get", "delete") /\ [Next]_vars
      /\ Kept /\ Fresh /\ Stage /\ Held("apply") /\ Held("get") /\ Gone /\ Typed'
      => Kept' /\ Fresh' /\ Stage' /\ Held("apply")' /\ Held("get")' /\ Gone'
  <2>1. ASSUME Apart, Kept, Fresh, Stage, Held("apply"), Gone, Typed', [Next]_vars
        PROVE  Kept' /\ Fresh' /\ Stage' /\ Held("apply")' /\ Gone'
    BY <2>1, KeptStep DEF Apart
  <2>2. ASSUME Apart, Alone("get", "delete"), Kept, Fresh, Stage, Held("get"), Gone, Typed', [Next]_vars
        PROVE  Held("get")'
    BY <2>2, KeptStep DEF Apart
  <2> QED BY <2>1, <2>2
<1>3. Kept => Phases
  BY PhasesRight
<1>4. Init => Registry!Init
  <2> SUFFICES ASSUME Init PROVE Registry!Init
    OBVIOUS
  <2>1. \A p \in Pods : PhaseOf(p) = "absent"
    BY DEF Init, VEInit, PhaseOf, ListLXC, Exists
  <2> QED BY <2>1 DEF Init, Registry!Init
<1>5. /\ Kept /\ Fresh /\ Stage /\ Held("apply") /\ Held("get") /\ Gone /\ Phases /\ Phases' /\ [Next]_vars
      => [Registry!Next]_(Registry!vars)
  BY RegistryStep
<1> QED BY <1>1, <1>2, <1>3, <1>4, <1>5, TypedAlways, PTL DEF Spec, ImplementsRegistry, Registry!Spec
=============================================================================
