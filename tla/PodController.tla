--------------------------- MODULE PodController ---------------------------
(***************************************************************************)
(* PodController (pkg/controller/pod.go): Apply, Get and Delete, run by    *)
(* several independent clients against one Proxmox VE node.  The           *)
(* controller keeps no state between calls and takes no lock; all it knows *)
(* it learns from the requests it makes.  One step is one request with its *)
(* reply, or one end of WaitForTask; between two steps anything may happen *)
(* on the node.                                                            *)
(*                                                                         *)
(* A local client uses "pct" and the node's socket instead of the REST API *)
(* (pkg/hypervisor).  Its mutating requests are commands that run as long  *)
(* as their task and tell how it ended, so that their replies are not lost *)
(* and the waits for them not abandoned, and nothing bounds their time.    *)
(*                                                                         *)
(* Simplification: pods have passed Validate (a pod that does not is       *)
(* refused before any request).                                            *)
(***************************************************************************)
EXTENDS ProxmoxVE

CONSTANTS
  Local,      \* clients with PROXMOX_LOCAL=true
  Pods,       \* pods, named by their metadata.name
  SpecVMID,   \* SpecVMID[p]: spec.vmid of pod p, 0 when it is not given
  Hostname,   \* Hostname[p]: spec.hostname of p, or p when it is empty
  Calls       \* the calls that may be made: <<client, operation, pod>>

Ops == {"apply", "get", "delete"}

ASSUME PodAssumption ==
  /\ Local \subseteq Clients
  /\ Pods \subseteq Names
  /\ SpecVMID \in [Pods -> VMIDs \cup {0}]
  /\ Hostname \in [Pods -> Names]
  /\ Calls \subseteq Clients \X Ops \X Pods

VARIABLES
  pc,         \* pc[c]: the request c makes next, or the wait it is in
  op,         \* op[c]: the operation c runs
  pod,        \* pod[c]: its argument
  vmid,       \* vmid[c]: the local variable vmid / newID, 0 before it is set
  result      \* result[c]: what the last operation returned

local == <<pc, op, pod, vmid, result>>
vars == <<name, state, job, outcome, pc, op, pod, vmid, result>>

Waits == {"waitCreate", "waitStart", "waitStop", "waitDestroy"}
Labels == {"idle", "find", "nextid", "create", "start", "refresh", "status", "stop", "destroy"} \cup Waits
Results == {"none", "running", "stopped", "deleted", "notfound", "error"}

TypeOK ==
  /\ VETypeOK
  /\ pc \in [Clients -> Labels]
  /\ op \in [Clients -> Ops \cup {"none"}]
  /\ pod \in [Clients -> Pods \cup {None}]
  /\ vmid \in [Clients -> VMIDs \cup {0}]
  /\ result \in [Clients -> Results]

Init ==
  /\ VEInit
  /\ pc = [c \in Clients |-> "idle"]
  /\ op = [c \in Clients |-> "none"]
  /\ pod = [c \in Clients |-> None]
  /\ vmid = [c \in Clients |-> 0]
  /\ result = [c \in Clients |-> "none"]

-----------------------------------------------------------------------------
(* Control flow of one client.                                             *)

Goto(c, label, v) ==
  /\ pc' = [pc EXCEPT ![c] = label]
  /\ vmid' = [vmid EXCEPT ![c] = v]
  /\ UNCHANGED <<op, pod, result>>

Return(c, r) ==
  /\ pc' = [pc EXCEPT ![c] = "idle"]
  /\ op' = [op EXCEPT ![c] = "none"]
  /\ pod' = [pod EXCEPT ![c] = None]
  /\ vmid' = [vmid EXCEPT ![c] = 0]
  /\ result' = [result EXCEPT ![c] = r]

(* The request fails: every operation returns the error it gets.           *)
Rejected(c) == "reject" \in Faults /\ Return(c, "error") /\ UNCHANGED pve

(* Where an operation goes once it knows the VMID of an existing container. *)
Resolved(o) == IF o = "delete" THEN "status" ELSE "refresh"

Begin(c, o, p) ==
  /\ pc[c] = "idle"
  /\ <<c, o, p>> \in Calls
  /\ op' = [op EXCEPT ![c] = o]
  /\ pod' = [pod EXCEPT ![c] = p]
  /\ vmid' = [vmid EXCEPT ![c] = SpecVMID[p]]
  /\ pc' = [pc EXCEPT ![c] = IF SpecVMID[p] = 0 THEN "find" ELSE Resolved(o)]
  /\ result' = [result EXCEPT ![c] = "none"]
  /\ UNCHANGED pve

(* Seeded bug: only running containers are looked at.                      *)
NamedRunning(p) == {v \in ListLXC : name[v] = p /\ state[v] = "running"}

(* Containers findByName may return for a pod: the first of the list whose *)
(* name is metadata.name; the order of the list is the server's.           *)
Named(p) == {v \in ListLXC : name[v] = p}

Find(c) ==
  /\ pc[c] = "find"
  /\ UNCHANGED pve
  /\ \/ \E v \in Named(pod[c]) : Goto(c, Resolved(op[c]), v)
     \/ Named(pod[c]) = {} /\ op[c] = "apply" /\ Goto(c, "nextid", 0)
     \/ Named(pod[c]) = {} /\ op[c] # "apply" /\ Return(c, "notfound")
     \/ Rejected(c)

NextID(c) ==
  /\ pc[c] = "nextid"
  /\ UNCHANGED pve
  /\ \/ \E v \in NextIDs : Goto(c, "create", v)
     \/ NextIDs = {} /\ Return(c, "error")
     \/ Rejected(c)

(* buildController: the REST client, unless PROXMOX_LOCAL is set.          *)
UsesREST(c) == c \notin Local

(* A mutating request: accepted and polled, refused, failed, or accepted   *)
(* with its reply lost.                                                    *)
Request(c, kind, wait) ==
  \/ Submit(c, c, kind, vmid[c], Hostname[pod[c]]) /\ Goto(c, wait, vmid[c])
  \/ ~Accepts(kind, vmid[c]) /\ Return(c, "error") /\ UNCHANGED pve
  \/ Rejected(c)
  \/ /\ "lost" \in Faults /\ UsesREST(c)
     /\ Submit(c, None, kind, vmid[c], Hostname[pod[c]]) /\ Return(c, "error")

Create(c) == pc[c] = "create" /\ Request(c, "create", "waitCreate")
Start(c) == pc[c] = "start" /\ Request(c, "start", "waitStart")
Stop(c) == pc[c] = "stop" /\ Request(c, "stop", "waitStop")

(* Seeded bug: Delete does not wait for the task that destroys.            *)
DestroyNoWait(c) ==
  /\ pc[c] = "destroy"
  /\ Submit(c, None, "destroy", vmid[c], None)
  /\ Return(c, "deleted")

Destroy(c) == pc[c] = "destroy" /\ Request(c, "destroy", "waitDestroy")

(* WaitForTask: the task has stopped with OK, or with another exit status, *)
(* or the wait ends first (deadline, or an error while polling).  For a    *)
(* local client: its command has ended, well or not.                       *)

(* Seeded bug: Apply forgets to start what it created.                     *)
AfterWaitNoStart(label) == IF label = "waitStop" THEN "destroy" ELSE "refresh"

AfterWait(label) ==
  CASE label = "waitCreate" -> "start"
    [] label = "waitStart" -> "refresh"
    [] label = "waitStop" -> "destroy"

(* Seeded bugs: an impatient wait, which gives up on a task that still     *)
(* runs; a wait without a deadline; one that hands the exit status on.     *)
WaitImpatient(c) ==
  /\ pc[c] \in Waits
  /\ \/ outcome[c] = "OK" /\ pc[c] # "waitDestroy" /\ Goto(c, AfterWait(pc[c]), vmid[c]) /\ UNCHANGED pve
     \/ outcome[c] = "OK" /\ pc[c] = "waitDestroy" /\ Return(c, "deleted") /\ UNCHANGED pve
     \/ outcome[c] # "OK" /\ Orphan(c) /\ Return(c, "error")

WaitForEver(c) ==
  /\ pc[c] \in Waits
  /\ \/ outcome[c] = "OK" /\ pc[c] # "waitDestroy" /\ Goto(c, AfterWait(pc[c]), vmid[c]) /\ UNCHANGED pve
     \/ outcome[c] = "OK" /\ pc[c] = "waitDestroy" /\ Return(c, "deleted") /\ UNCHANGED pve
     \/ outcome[c] = "failed" /\ Return(c, "error") /\ UNCHANGED pve

WaitRaw(c) ==
  /\ pc[c] \in Waits
  /\ \/ outcome[c] = "OK" /\ pc[c] # "waitDestroy" /\ Goto(c, AfterWait(pc[c]), vmid[c]) /\ UNCHANGED pve
     \/ outcome[c] = "OK" /\ pc[c] = "waitDestroy" /\ Return(c, "deleted") /\ UNCHANGED pve
     \/ outcome[c] = "failed" /\ Return(c, outcome[c]) /\ UNCHANGED pve

(* The local CreateLXC returns what "pct create" has printed, and          *)
(* WaitForTask polls it as a task unless it is CreateLXC's own text.       *)
TakenForTask(c) ==
  /\ "output" \in Faults /\ ~UsesREST(c)
  /\ pc[c] = "waitCreate" /\ outcome[c] = "OK"

WaitForTask(c) ==
  /\ pc[c] \in Waits
  /\ \/ outcome[c] = "OK" /\ pc[c] # "waitDestroy" /\ Goto(c, AfterWait(pc[c]), vmid[c]) /\ UNCHANGED pve
     \/ outcome[c] = "OK" /\ pc[c] = "waitDestroy" /\ Return(c, "deleted") /\ UNCHANGED pve
     \/ outcome[c] = "failed" /\ Return(c, "error") /\ UNCHANGED pve
     \/ "abandon" \in Faults /\ UsesREST(c) /\ Orphan(c) /\ Return(c, "error")
     \/ TakenForTask(c) /\ Return(c, "error") /\ UNCHANGED pve

(* refreshStatus: the phase of the container, whatever it is.  (The        *)
(* interface request that may follow only adds an address to the answer,   *)
(* and its errors are ignored.)                                            *)
Refresh(c) ==
  /\ pc[c] = "refresh"
  /\ UNCHANGED pve
  /\ \/ GetLXCStatus(vmid[c]) # "absent" /\ Return(c, GetLXCStatus(vmid[c]))
     \/ GetLXCStatus(vmid[c]) = "absent" /\ Return(c, "error")
     \/ Rejected(c)

(* Delete: look whether the container runs, to stop it first.              *)
Status(c) ==
  /\ pc[c] = "status"
  /\ UNCHANGED pve
  /\ \/ GetLXCStatus(vmid[c]) = "running" /\ Goto(c, "stop", vmid[c])
     \/ GetLXCStatus(vmid[c]) = "stopped" /\ Goto(c, "destroy", vmid[c])
     \/ GetLXCStatus(vmid[c]) = "absent" /\ Return(c, "error")
     \/ Rejected(c)

(* The process dies; its operation has no result.                          *)
Crash(c) ==
  /\ "crash" \in Faults
  /\ pc[c] # "idle"
  /\ Orphan(c)
  /\ Return(c, "none")

Step(c) ==
  \/ Find(c)
  \/ NextID(c)
  \/ Create(c)
  \/ Start(c)
  \/ Stop(c)
  \/ Destroy(c)
  \/ WaitForTask(c)
  \/ Refresh(c)
  \/ Status(c)

Node == \E v \in VMIDs : (TaskDone(v) \/ TaskFailed(v) \/ Halt(v)) /\ UNCHANGED local

Next ==
  \/ \E c \in Clients : \E o \in Ops : \E p \in Pods : Begin(c, o, p)
  \/ \E c \in Clients : Step(c) \/ Crash(c)
  \/ Node

Spec == Init /\ [][Next]_vars

(* The clients are scheduled; nothing is assumed of the node: a task may   *)
(* run for ever.                                                           *)
FairSpec == Spec /\ \A c \in Clients : WF_vars(Step(c))
-----------------------------------------------------------------------------
(* What the controller promises.                                           *)

(* Apply creates a container only for a pod that has none: two containers  *)
(* never carry one name.  (Apply looks for the name, then asks for an      *)
(* identifier, then creates: pod.go 53, 68, 74.)                           *)
UniqueName == \A v, w \in ListLXC : name[v] = name[w] => v = w

(* Delete resolves the name once and then addresses the container by VMID: *)
(* it stops and destroys only the container of its own pod, although a     *)
(* VMID is given to somebody else as soon as it is free.                   *)
DeleteHitsOwn ==
  [][\A c \in Clients :
       pc[c] \in {"stop", "destroy"} /\ pc'[c] # pc[c] /\ job'[vmid[c]] # job[vmid[c]]
         => name[vmid[c]] = Hostname[pod[c]]]_vars

(* When Delete reports success, and when it reports "not found" (which the *)
(* operator and its users read as "already deleted"), no container of the  *)
(* pod exists and none is being created.                                   *)
GoneWhenReported ==
  [][\A c \in Clients :
       op[c] = "delete" /\ result'[c] \in {"deleted", "notfound"}
         => \A v \in VMIDs : name[v] # Hostname[pod[c]]]_vars

(* The VMID and the phase that Apply reports are those of the pod's own    *)
(* container.                                                              *)
ApplyReportsOwn ==
  [][\A c \in Clients :
       op[c] = "apply" /\ result'[c] \in {"running", "stopped"}
         => name[vmid[c]] = Hostname[pod[c]]]_vars

(* Every call returns, even if the task it waits for never ends: the wait  *)
(* has a deadline, unless the client is local.                             *)
EveryCallReturns == \A c \in Clients \ Local : pc[c] # "idle" ~> pc[c] = "idle"

(* The controller implements the registry of pods, whose table is read off *)
(* the containers.                                                         *)
PhaseOf(p) ==
  LET own == {v \in ListLXC : name[v] = Hostname[p]} IN
  IF own = {} THEN "absent" ELSE state[CHOOSE v \in own : TRUE]

Registry == INSTANCE PodRegistry WITH
  phase <- [p \in Pods |-> PhaseOf(p)],
  call <- [c \in Clients |-> IF pc[c] = "idle" THEN None ELSE <<op[c], pod[c]>>],
  answer <- result

ImplementsRegistry == Registry!Spec
=============================================================================
